------------------------------- MODULE Methods -------------------------------
(***************************************************************************)
(* The methods themselves, one action each, by the class they belong to.   *)
(* Every one is what its source does to one kind of object: the requests   *)
(* it awaits and the way in which it keeps their answers.                  *)
(***************************************************************************)
EXTENDS Objects

----------------------------------------------------------------------------
(* api/models/guild.py *)

Guild_ban(t) == Call(t, "member", "create_guild_ban", "forget")
Guild_remove_ban(t) == Ask(t, "member", "remove_guild_ban")
Guild_kick(t) == Call(t, "member", "create_guild_kick", "forget")
Guild_add_member_role(t) == Call(t, "member", "add_member_role", "grant")
Guild_remove_member_role(t) == Call(t, "member", "remove_member_role", "revoke")
Guild_create_role(t) == Create(t, "role", "create_guild_role", "add")
Guild_get_member(t) == Call(t, "member", "get_member", "add")
Guild_delete_channel(t) == Call(t, "channel", "delete_channel", "forget")
Guild_delete_role(t) == Call(t, "role", "delete_guild_role", "forget")
Guild_modify_role(t) == Call(t, "role", "modify_guild_role", "add")
Guild_create_thread(t) == Create(t, "thread", "create_thread", "add")
Guild_create_channel(t) == Create(t, "channel", "create_channel", "add")
\* A channel given by its id is requested first; that answer is not cached.
Guild_clone_channel(t) == Ask(t, "channel", "get_channel") \/ Guild_create_channel(t)
Guild_modify_channel(t) == Call(t, "channel", "modify_channel", "add")
Guild_modify_member(t) == Call(t, "member", "modify_member", "add")
Guild_get_preview(t) == Ask(t, "guild", "get_guild_preview")
Guild_leave(t) == Call(t, "guild", "leave_guild", "forget")
Guild_modify(t) == Call(t, "guild", "modify_guild", "update")
Guild_set_first(t) == Guild_modify(t)
Guild_set_second(t) == Guild_modify(t)
Guild_create_scheduled_event(t) == Ask(t, "event", "create_scheduled_event")
Guild_get_scheduled_events(t) == Ask(t, "event", "get_scheduled_events")
Guild_modify_scheduled_event(t) == Ask(t, "event", "modify_scheduled_event")
Guild_delete_scheduled_event(t) == Ask(t, "event", "delete_scheduled_event")
Guild_get_all_channels(t) == CallAll(t, "channel", "get_all_channels", "add")
Guild_get_all_active_threads(t) == CallAll(t, "thread", "list_active_threads", "add")
Guild_get_all_roles(t) == CallAll(t, "role", "get_all_roles", "add")
Guild_get_role(t) == (\E id \in Ids : ~Holds(store, id)) /\ Guild_get_all_roles(t)
Guild_modify_role_positions(t) == Call(t, "role", "modify_guild_role_positions", "add")
Guild_modify_role_position(t) == Guild_modify_role_positions(t)
Guild_get_bans(t) == Ask(t, "member", "get_guild_bans")
Guild_prune(t) == Ask(t, "member", "begin_guild_prune")
Guild_get_prune_count(t) == Ask(t, "member", "get_guild_prune_count")
Guild_get_emoji(t) == Call(t, "emoji", "get_guild_emoji", "add")
Guild_get_all_emoji(t) == CallAll(t, "emoji", "get_all_emoji", "add")
Guild_create_emoji(t) == Create(t, "emoji", "create_guild_emoji", "add")
Guild_modify_emoji(t) == Call(t, "emoji", "modify_guild_emoji", "add")
Guild_delete_emoji(t) == Call(t, "emoji", "delete_guild_emoji", "forget")
Guild_get_stickers(t) == CallAll(t, "sticker", "list_guild_stickers", "add")
Guild_get_nitro_sticker_packs(t) == Ask(t, "sticker", "list_nitro_sticker_packs")
Guild_create_sticker(t) == Create(t, "sticker", "create_guild_sticker", "add")
Guild_modify_sticker(t) == Call(t, "sticker", "modify_guild_sticker", "add")
Guild_delete_sticker(t) == Call(t, "sticker", "delete_guild_sticker", "forget")
Guild_get_list_of_members(t) == CallAll(t, "member", "get_list_of_members", "add")
Guild_search_members(t) == Call(t, "member", "search_guild_members", "add")
Guild_get_webhooks(t) == Ask(t, "guild", "get_guild_webhooks")
Guild_list_auto_moderation_rules(t) == Ask(t, "guild", "list_auto_moderation_rules")
Guild_get_auto_moderation_rule(t) == Ask(t, "guild", "get_auto_moderation_rule")
Guild_create_auto_moderation_rule(t) == Ask(t, "guild", "create_auto_moderation_rule")
\* The changed rule is sent as a new one.
Guild_modify_auto_moderation_rule(t) ==
    Guild_get_auto_moderation_rule(t) \/ Ask(t, "guild", "create_auto_moderation_rule")
Guild_get_audit_logs(t) == Ask(t, "guild", "get_guild_auditlog")
\* Three requests, each before the entry that the last one found.
Guild_get_latest_audit_log_action(t) == Guild_get_audit_logs(t)
Guild_get_invite(t) == Ask(t, "guild", "get_invite")
Guild_delete_invite(t) == Ask(t, "guild", "delete_invite")
Guild_get_invites(t) == Ask(t, "guild", "get_guild_invites")
Guild_modify_bot_nick(t) == Call(t, "member", "modify_self_nick_in_guild", "add")

OfGuildPy(t) ==
    \/ Guild_ban(t) \/ Guild_remove_ban(t) \/ Guild_kick(t)
    \/ Guild_add_member_role(t) \/ Guild_remove_member_role(t) \/ Guild_create_role(t)
    \/ Guild_get_member(t) \/ Guild_delete_channel(t) \/ Guild_delete_role(t)
    \/ Guild_modify_role(t) \/ Guild_create_thread(t) \/ Guild_create_channel(t)
    \/ Guild_clone_channel(t) \/ Guild_modify_channel(t) \/ Guild_modify_member(t)
    \/ Guild_get_preview(t) \/ Guild_leave(t) \/ Guild_modify(t)
    \/ Guild_set_first(t) \/ Guild_set_second(t)
    \/ Guild_create_scheduled_event(t) \/ Guild_get_scheduled_events(t)
    \/ Guild_modify_scheduled_event(t) \/ Guild_delete_scheduled_event(t)
    \/ Guild_get_all_channels(t) \/ Guild_get_all_active_threads(t)
    \/ Guild_get_all_roles(t) \/ Guild_get_role(t)
    \/ Guild_modify_role_positions(t) \/ Guild_modify_role_position(t)
    \/ Guild_get_bans(t) \/ Guild_prune(t) \/ Guild_get_prune_count(t)
    \/ Guild_get_emoji(t) \/ Guild_get_all_emoji(t) \/ Guild_create_emoji(t)
    \/ Guild_modify_emoji(t) \/ Guild_delete_emoji(t)
    \/ Guild_get_stickers(t) \/ Guild_get_nitro_sticker_packs(t) \/ Guild_create_sticker(t)
    \/ Guild_modify_sticker(t) \/ Guild_delete_sticker(t)
    \/ Guild_get_list_of_members(t) \/ Guild_search_members(t)
    \/ Guild_get_webhooks(t) \/ Guild_list_auto_moderation_rules(t)
    \/ Guild_get_auto_moderation_rule(t) \/ Guild_create_auto_moderation_rule(t)
    \/ Guild_modify_auto_moderation_rule(t) \/ Guild_get_audit_logs(t)
    \/ Guild_get_latest_audit_log_action(t) \/ Guild_get_invite(t)
    \/ Guild_delete_invite(t) \/ Guild_get_invites(t) \/ Guild_modify_bot_nick(t)

----------------------------------------------------------------------------
(* api/models/channel.py *)

Channel_send(t) == Create(t, "message", "create_message", "put")
Channel_delete(t) == Call(t, "channel", "delete_channel", "drop")
Channel_modify(t) == Call(t, "channel", "modify_channel", "update")
Channel_set_first(t) == Channel_modify(t)
Channel_set_second(t) == Channel_modify(t)
Channel_add_member(t) == Ask(t, "thread", "add_member_to_thread")
Channel_remove_member(t) == Ask(t, "thread", "remove_member_from_thread")
Channel_pin_message(t) == Ask(t, "message", "pin_message")
Channel_unpin_message(t) == Ask(t, "message", "unpin_message")
Channel_publish_message(t) == Ask(t, "message", "publish_message")
Channel_get_pinned_messages(t) == CallAll(t, "message", "get_pinned_messages", "put")
Channel_get_message(t) == Call(t, "message", "get_message", "merge")
Channel_create_thread(t) == Create(t, "thread", "create_thread", "put")
Channel_create_invite(t) == Ask(t, "channel", "create_channel_invite")
Channel_get_webhooks(t) == Ask(t, "channel", "get_channel_webhooks")
Channel_get_members(t) == Ask(t, "thread", "list_thread_members")
Channel_leave(t) == Ask(t, "thread", "leave_thread")
Channel_join(t) == Ask(t, "thread", "join_thread")
Channel_create_tag(t) == Channel_modify(t) \/ EditOwn(t, "channel", "modify_channel")
Channel_edit_tag(t) == Channel_modify(t) \/ EditOwn(t, "channel", "modify_channel")
Channel_delete_tag(t) == Channel_modify(t) \/ EditOwn(t, "channel", "modify_channel")
Channel_create_forum_post(t) == Create(t, "thread", "create_thread_in_forum", "add")
Channel_add_permission_overwrite(t) == Channel_modify(t) \/ EditOwn(t, "channel", "modify_channel")
Channel_add_permission_overwrites(t) == Channel_add_permission_overwrite(t)
Channel_overwrite_permission_overwrites(t) == Channel_modify(t)
Channel_remove_permission_overwrite_for(t) == Channel_add_permission_overwrite(t)

OfChannelPy(t) ==
    \/ Channel_send(t) \/ Channel_delete(t) \/ Channel_modify(t)
    \/ Channel_set_first(t) \/ Channel_set_second(t)
    \/ Channel_add_member(t) \/ Channel_remove_member(t) \/ Channel_pin_message(t)
    \/ Channel_unpin_message(t) \/ Channel_publish_message(t)
    \/ Channel_get_pinned_messages(t) \/ Channel_get_message(t) \/ Channel_create_thread(t)
    \/ Channel_create_invite(t) \/ Channel_get_webhooks(t) \/ Channel_get_members(t)
    \/ Channel_leave(t) \/ Channel_join(t)
    \/ Channel_create_tag(t) \/ Channel_edit_tag(t) \/ Channel_delete_tag(t)
    \/ Channel_create_forum_post(t) \/ Channel_add_permission_overwrite(t)
    \/ Channel_add_permission_overwrites(t) \/ Channel_overwrite_permission_overwrites(t)
    \/ Channel_remove_permission_overwrite_for(t)

----------------------------------------------------------------------------
(* api/models/message.py *)

Message_get_channel(t) == ~Holds(store, 1) /\ Call(t, "channel", "get_channel", "add")
Message_get_guild(t) ==
    \/ ~Holds(store, 1) /\ Call(t, "guild", "get_guild", "merge")
    \/ kind # "guild" /\ ~guildCached /\ CallAll(t, kind, "get_guild", "guild")
Message_delete(t) == Call(t, "message", "delete_message", "drop")
Message_edit(t) == Call(t, "message", "edit_message", "update")
Message_reply(t) == Create(t, "message", "create_message", "merge")
Message_pin(t) == Ask(t, "message", "pin_message")
Message_unpin(t) == Ask(t, "message", "unpin_message")
Message_publish(t) == Ask(t, "message", "publish_message")
Message_create_thread(t) == Create(t, "thread", "create_thread", "add")
Message_create_reaction(t) == Ask(t, "message", "create_reaction")
Message_remove_all_reactions(t) == Ask(t, "message", "remove_all_reactions")
Message_remove_all_reactions_of(t) == Ask(t, "message", "remove_all_reactions_of_emoji")
Message_remove_own_reaction_of(t) == Ask(t, "message", "remove_self_reaction")
Message_remove_reaction_from(t) == Ask(t, "message", "remove_user_reaction")
Message_get_from_url(t) == Call(t, "message", "get_message", "merge")
Message_disable_all_components(t) == Message_edit(t) \/ EditOwn(t, "message", "edit_message")

OfMessagePy(t) ==
    \/ Message_get_channel(t) \/ Message_get_guild(t) \/ Message_delete(t) \/ Message_edit(t)
    \/ Message_reply(t) \/ Message_pin(t) \/ Message_unpin(t) \/ Message_publish(t)
    \/ Message_create_thread(t) \/ Message_create_reaction(t)
    \/ Message_remove_all_reactions(t) \/ Message_remove_all_reactions_of(t)
    \/ Message_remove_own_reaction_of(t) \/ Message_remove_reaction_from(t)
    \/ Message_get_from_url(t) \/ Message_disable_all_components(t)

----------------------------------------------------------------------------
(* api/models/member.py, role.py, emoji.py, user.py, webhook.py; utils/get.py *)

Member_ban(t) == Call(t, "member", "create_guild_ban", "forget")
Member_kick(t) == Call(t, "member", "create_guild_kick", "forget")
Member_add_role(t) == Call(t, "member", "add_member_role", "grantOwn")
Member_remove_role(t) == Call(t, "member", "remove_member_role", "revokeOwn")
\* The channel first, then the message.
User_get_dm_channel(t) == Call(t, "channel", "create_dm", "merge")
Member_send(t) == User_get_dm_channel(t) \/ Create(t, "message", "create_message", "merge")
Member_modify(t) == Call(t, "member", "modify_member", "update")
Member_add_to_thread(t) == Ask(t, "thread", "add_member_to_thread")

Role_delete(t) == Call(t, "role", "delete_guild_role", "forget")
Role_modify(t) == Call(t, "role", "modify_guild_role", "update")
Role_modify_position(t) == Call(t, "role", "modify_guild_role_positions", "add")

Emoji_get(t) == Call(t, "emoji", "get_guild_emoji", "add")
Emoji_get_all_of_guild(t) == CallAll(t, "emoji", "get_all_emoji", "add")
Emoji_modify(t) == Call(t, "emoji", "modify_guild_emoji", "update")
Emoji_delete(t) == Call(t, "emoji", "delete_guild_emoji", "forget")

User_send(t) == Create(t, "message", "create_message", "merge")

Webhook_create(t) == Ask(t, "guild", "create_webhook")
Webhook_get(t) == Ask(t, "guild", "get_webhook")
Webhook_modify(t) == Ask(t, "guild", "modify_webhook")
Webhook_execute(t) == Ask(t, "message", "execute_webhook")
Webhook_delete(t) == Ask(t, "guild", "delete_webhook")

\* Muting, deafening and moving modify the member of the voice state.
VoiceState_mute_member(t) == Member_modify(t)
VoiceState_deafen_member(t) == Member_modify(t)
VoiceState_move_member(t) == Member_modify(t)
VoiceState_get_channel(t) == ~Holds(store, 1) /\ Ask(t, "channel", "get_channel")
VoiceState_get_guild(t) == Message_get_guild(t)
Invite_delete(t) == Ask(t, "guild", "delete_invite")

\* get() asks Discord for what the cache does not hold, and does not keep it:
\* but for roles and emojis, which it asks the guild for.
get(t) ==
    /\ \E id \in Ids : ~Holds(store, id)
    /\ \/ kind \in {"role", "emoji"} /\ CallAll(t, kind, "get_guild", "guild")
       \/ Guild_get_role(t) \/ Guild_get_emoji(t)
       \/ kind \notin {"role", "emoji"} /\ Ask(t, kind, "get_channel")

OfOthers(t) ==
    \/ Member_ban(t) \/ Member_kick(t) \/ Member_add_role(t) \/ Member_remove_role(t)
    \/ Member_send(t) \/ Member_modify(t) \/ Member_add_to_thread(t)
    \/ Role_delete(t) \/ Role_modify(t) \/ Role_modify_position(t)
    \/ Emoji_get(t) \/ Emoji_get_all_of_guild(t) \/ Emoji_modify(t) \/ Emoji_delete(t)
    \/ User_send(t) \/ User_get_dm_channel(t)
    \/ Webhook_create(t) \/ Webhook_get(t) \/ Webhook_modify(t) \/ Webhook_execute(t) \/ Webhook_delete(t)
    \/ VoiceState_mute_member(t) \/ VoiceState_deafen_member(t) \/ VoiceState_move_member(t)
    \/ VoiceState_get_channel(t) \/ VoiceState_get_guild(t) \/ Invite_delete(t)
    \/ get(t)

----------------------------------------------------------------------------

Init == CacheInit /\ calls = [t \in Tasks |-> Idle]

Run(t) == OfGuildPy(t) \/ OfChannelPy(t) \/ OfMessagePy(t) \/ OfOthers(t)
Gateway == (Discord \/ NewSession \/ Processors) /\ UNCHANGED calls
Next == Gateway \/ \E t \in Tasks : Run(t) \/ Serve(t) \/ Refuse(t) \/ Return(t)
Spec == Init /\ [][Next]_vars

----------------------------------------------------------------------------
(* Properties *)

\* Every variable keeps its type; the Storage never holds more than its limit,
\* and one object under one key.
TypeOK ==
    /\ kind \in Kinds /\ guildCached \in BOOLEAN /\ raised \in BOOLEAN
    /\ listed \subseteq Ids /\ astray \subseteq Ids /\ grown \subseteq Ids /\ known \in [Ids -> 0..Gone]
    /\ Len(store) <= Limit
    /\ \A i, j \in DOMAIN store : store[i].key = store[j].key => i = j

\* Nothing on its way: no event, no call.
Quiet == ~raised /\ events = << >> /\ \A t \in Tasks : calls[t] = Idle

\* Once events and answers have come to rest, the cache has the version of each object
\* that Discord has, and no item of its list is missing; the list is exactly Discord's
\* where no merge and no repeated role has put more into it (cache.py:73).  Not so what
\* is astray: put wrong by an answer older than the events, a lost session, a change
\* made before Discord had agreed to it, or a merge that leaves an old thread as it is
\* (cache.py:64), and not told of since.  Emojis and stickers are stored under their
\* guild's id and never removed by events.
Covers(list, items) == \A i \in items : list[i] > 0
Settled ==
    Quiet /\ kind \notin Emojis =>
        \A i \in DOMAIN store : LET e == store[i] IN
            \/ e.id \in astray
            \/ /\ e.id \in Alive /\ e.name = discord[e.id].name
               /\ Covers(e.tag, discord[e.id].tag)
               /\ e.id \in grown \/ e.tag = Once(discord[e.id].tag)

\* At rest, what the guild lists is in the cache and alive, so that
\* Guild.members, channels, ... have no None among them: as long as the
\* Storage has room for all there ever were (guild.py:480).
Roomy == Cardinality({id \in Ids : discord[id].at # "unborn"}) <= Limit
ListedHeld ==
    Quiet /\ kind \notin Emojis /\ Roomy =>
        \A id \in listed : id \in astray \/ (id \in Alive /\ Holds(store, id))

\* The cache returns to an older version of an object only when an answer is
\* older than the events that have been processed, or, when an event is older
\* than the answer before it, while the next event is on its way.
NeverBack ==
    [][\A id \in Ids :
          /\ Holds(store, id) /\ Holds(store', id) /\ Item(store, id).id = Item(store', id).id
          /\ Item(store', id).name < Item(store, id).name
          => \/ id \in astray'
             \/ \E i \in DOMAIN events' : id \in DOMAIN events'[i].objs]_vars
=============================================================================
