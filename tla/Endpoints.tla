------------------------------ MODULE Endpoints ------------------------------
(***************************************************************************)
(* The methods of HTTPClient (api/http/*.py).  Each builds a payload and   *)
(* awaits one request on its Route; none of them touches the cache.  They  *)
(* are told apart by what the Route does to the objects that are cached:   *)
(* create, modify or remove one, give a member a role or take it away,     *)
(* read, or act on something that the cache does not keep.                 *)
(***************************************************************************)

OfGuild == [
    read |-> {"get_self_guilds", "get_guild", "get_guild_preview", "get_guild_widget",
              "get_guild_widget_settings"},
    modify |-> {"modify_guild"}, remove |-> {"leave_guild", "delete_guild"},
    act |-> {"modify_guild_widget"}]

OfGuildExtras == [
    read |-> {"get_guild_invites", "get_guild_welcome_screen", "get_vanity_code", "get_guild_integrations"},
    act |-> {"modify_guild_welcome_screen", "modify_vanity_code", "delete_guild_integration",
             "modify_current_user_voice_state", "modify_user_voice_state"}]

OfTemplates == [
    read |-> {"get_guild_template", "get_guild_templates", "get_all_channels", "get_all_roles"},
    create |-> {"create_guild_from_guild_template"},
    act |-> {"create_guild_template", "sync_guild_template", "modify_guild_template", "delete_guild_template"}]

OfRoles == [
    create |-> {"create_guild_role"}, modify |-> {"modify_guild_role_positions", "modify_guild_role"},
    remove |-> {"delete_guild_role", "create_guild_kick", "create_guild_ban"},
    act |-> {"remove_guild_ban"}]

OfBans == [
    read |-> {"get_guild_bans", "get_user_ban", "get_guild_prune_count"},
    create |-> {"add_guild_member"}, remove |-> {"remove_guild_member", "begin_guild_prune"}]

OfAuditLog == [
    read |-> {"get_guild_auditlog", "list_auto_moderation_rules", "get_auto_moderation_rule"},
    act |-> {"create_auto_moderation_rule"}]

OfAutoModeration == [act |-> {"modify_auto_moderation_rule", "delete_auto_moderation_rule"}]

OfChannel == [
    read |-> {"get_channel", "get_channel_messages", "get_channel_invites"},
    create |-> {"create_channel"}, modify |-> {"move_channel", "modify_channel"},
    remove |-> {"delete_channel"}, act |-> {"create_channel_invite"}]

OfStage == [
    read |-> {"get_pinned_messages", "get_stage_instance"},
    create |-> {"create_stage_instance"}, modify |-> {"modify_stage_instance", "edit_channel_permission"},
    remove |-> {"delete_stage_instance"},
    act |-> {"delete_channel_permission", "trigger_typing"}]

OfEmoji == [
    read |-> {"get_all_emoji", "get_guild_emoji"}, create |-> {"create_guild_emoji"},
    modify |-> {"modify_guild_emoji"}, remove |-> {"delete_guild_emoji"}]

OfSticker == [
    read |-> {"get_sticker", "list_nitro_sticker_packs", "list_guild_stickers", "get_guild_sticker"},
    create |-> {"create_guild_sticker"}, modify |-> {"modify_guild_sticker"},
    remove |-> {"delete_guild_sticker"}]

OfMember == [
    read |-> {"get_member", "get_list_of_members", "search_guild_members"},
    modify |-> {"modify_member"}, grant |-> {"add_member_role"}, revoke |-> {"remove_member_role"}]

OfMessage == [
    read |-> {"get_message"}, create |-> {"send_message", "create_message"},
    remove |-> {"delete_message", "delete_messages"}]

OfMessageEdits == [modify |-> {"edit_message", "pin_message", "unpin_message", "publish_message"}]

OfReaction == [
    read |-> {"get_reactions_of_emoji"},
    act |-> {"create_reaction", "remove_self_reaction", "remove_user_reaction",
             "remove_all_reactions", "remove_all_reactions_of_emoji"}]

OfScheduledEvent == [
    read |-> {"get_scheduled_event", "get_scheduled_events", "get_scheduled_event_users"},
    create |-> {"create_scheduled_event"}, modify |-> {"modify_scheduled_event"},
    remove |-> {"delete_scheduled_event"}]

OfThreadMembers == [
    read |-> {"get_member_from_thread", "list_thread_members", "list_public_archived_threads",
              "list_private_archived_threads", "list_joined_private_archived_threads",
              "list_active_threads"},
    act |-> {"join_thread", "leave_thread", "add_member_to_thread", "remove_member_from_thread"}]

OfThread == [create |-> {"create_thread", "create_thread_from_message", "create_thread_in_forum"}]

OfUser == [
    read |-> {"get_self", "get_user", "create_dm"},
    modify |-> {"modify_self", "modify_self_nick_in_guild"}]

OfInvite == [read |-> {"get_invite"}, act |-> {"delete_invite"}]

OfWebhook == [
    read |-> {"get_channel_webhooks", "get_guild_webhooks", "get_webhook"},
    create |-> {"execute_webhook"}, act |-> {"create_webhook", "modify_webhook", "delete_webhook"}]

OfWebhookMessages == [
    read |-> {"get_webhook_message"},
    create |-> {"execute_slack_webhook", "execute_github_webhook"},
    modify |-> {"edit_webhook_message"},
    remove |-> {"delete_webhook_message", "delete_original_webhook_message"}]

OfApplication == [
    read |-> {"get_gateway", "get_bot_gateway", "login", "get_current_bot_information",
              "get_current_authorisation_information", "get_application_role_connection_metadata"},
    act |-> {"logout", "update_application_role_connection_metadata"}]

Tables == {OfGuild, OfGuildExtras, OfTemplates, OfRoles, OfBans, OfAuditLog, OfAutoModeration,
           OfChannel, OfStage, OfEmoji, OfSticker, OfMember, OfMessage, OfMessageEdits, OfReaction,
           OfScheduledEvent, OfThreadMembers, OfThread, OfUser, OfInvite, OfWebhook,
           OfWebhookMessages, OfApplication}

Effects == UNION {DOMAIN table : table \in Tables}
With(effect) == UNION {table[effect] : table \in {u \in Tables : effect \in DOMAIN u}}
Endpoint == UNION {With(effect) : effect \in Effects}
Effect == [endpoint \in Endpoint |-> CHOOSE effect \in Effects : endpoint \in With(effect)]
=============================================================================
