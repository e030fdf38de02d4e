-------------------------------- MODULE Cache --------------------------------
(***************************************************************************)
(* One Storage of the client's cache (api/cache.py, an LRUDict), the       *)
(* guild's list of the ids in it, and the processors that the gateway      *)
(* calls with Discord's events (api/gateway/processors).  A behaviour      *)
(* follows the objects of one kind in one guild.  An object is a version   *)
(* (name: whatever a change replaces) and one list attribute (tag: of      *)
(* Discord's object the set of the items, of an entry how often each is in *)
(* the list, twice or more being 2).  An entry remembers the tasks that    *)
(* hold the very same Python object (refs), and whether the object knows   *)
(* its guild's id (gid).                                                   *)
(***************************************************************************)
EXTENDS Naturals, Sequences, FiniteSets, SequencesExt

CONSTANTS Kinds,        \* kinds of objects, one per behaviour
          NObjects,     \* per kind: the objects of the guild
          Items,        \* what the list attribute may hold
          Lists,        \* per kind, bound: the lists that Discord sets
          Limit,        \* the limit given to the Storage
          MaxChanges,   \* per kind, bound: versions of all objects together
          MaxEvents     \* bound: events on their way

ASSUME CacheAssumption ==
    /\ NObjects \in [Kinds -> Nat \ {0}] /\ Limit \in Nat \ {0}
    /\ MaxChanges \in [Kinds -> Nat] /\ MaxEvents \in Nat \ {0}
    /\ Lists \in [Kinds -> SUBSET SUBSET Items]

VARIABLES kind,         \* the kind of object this behaviour follows
          discord,      \* the objects as Discord has them
          events,       \* dispatches on their way, oldest first
          store,        \* the Storage, the entry to be evicted next first
          guildCached,  \* the guild itself is in the cache
          listed,       \* guild._<kind>_ids
          raised,       \* a processor has raised: run() is over
          known,        \* history: the version the last event told of
          astray,       \* history: what no event has put right again
          grown         \* history: entries whose list got more than Discord's

cacheVars == <<kind, discord, events, store, guildCached, listed, raised, known, astray, grown>>

Ids == 1..NObjects[kind]
Guild == 0              \* the guild's own id, a key of the Storage like any other
Gone == MaxChanges[kind] + 1  \* the version of a deleted object
Emojis == {"emoji", "sticker"}
\* What the list holds is compared by identity (overwrites, embeds, ...) or by value
\* (ids of roles, features); the other kinds have no list that is merged, but an
\* attribute that may be empty.
ByIdentity == {"channel", "message"}
ByValue == {"member", "guild", "emoji"}
InGuildCreate == {"guild", "member", "role", "channel", "thread"} \cup Emojis

----------------------------------------------------------------------------
(* The Storage *)

Holds(s, k) == \E i \in DOMAIN s : s[i].key = k
Place(s, k) == CHOOSE i \in DOMAIN s : s[i].key = k
Item(s, k) == s[Place(s, k)]
Pop(s, k) == IF Holds(s, k) THEN RemoveAt(s, Place(s, k)) ELSE s
EvictLate(s) == IF Len(s) > Limit + 1 THEN Tail(s) ELSE s
Evict(s) == IF Len(s) > Limit THEN Tail(s) ELSE s
SetItem(s, e) == IF Holds(s, e.key)
                 THEN [s EXCEPT ![Place(s, e.key)] = e]
                 ELSE Evict(Append(s, e))

Once(items) == [i \in Items |-> IF i \in items THEN 1 ELSE 0]
Empty == Once({})
Appended(list, more) == [i \in Items |-> IF list[i] + more[i] > 2 THEN 2 ELSE list[i] + more[i]]

KeepsList(old, new) == IF old = Empty THEN new ELSE old
\* What is empty in the new object is kept; the items of a new list that are not in the
\* old one are appended to it.
Joined(old, new) ==
    CASE new = Empty -> old
      [] new # Empty /\ kind \in ByIdentity -> Appended(old, new)
      [] new # Empty /\ kind \in ByValue -> [i \in Items |-> IF old[i] = 0 THEN new[i] ELSE old[i]]
      [] OTHER -> new

\* The attributes that a class inherits are not in its __slots__: all those of a thread.
Merged(old, new) ==
    IF kind = "thread" THEN old
    ELSE [new EXCEPT !.tag = Joined(old.tag, @), !.gid = old.gid \/ @, !.refs = old.refs]
Merge(s, e) == IF Holds(s, e.key)
               THEN Append(Pop(s, e.key), Merged(Item(s, e.key), e))
               ELSE SetItem(s, e)

\* _update_event(): the object that is cached is changed in its place.
Update(s, e) == SetItem(s, IF Holds(s, e.key) THEN [e EXCEPT !.refs = Item(s, e.key).refs] ELSE e)

\* add_emoji() and add_sticker() give the guild's id for the object's.
Key(id) == IF kind \in Emojis THEN Guild ELSE id
Entry(k, id, o) == [key |-> k, id |-> id, name |-> o.name, tag |-> Once(o.tag), gid |-> TRUE, refs |-> {}]

Obj(id, o) == Entry(Key(id), id, o)

\* What is built from the objects of an answer or an event.  The channels of GUILD_CREATE
\* come without their guild's id.
Built(objs) == [id \in DOMAIN objs |-> Obj(id, objs[id])]
UnderOwnId(objs) == [id \in DOMAIN objs |-> Entry(id, id, objs[id])]
FromGuild(objs) == [id \in DOMAIN objs |-> [Obj(id, objs[id]) EXCEPT !.gid = (kind # "channel")]]

Put(how, s, e) ==
    CASE how = "set" -> SetItem(s, e) [] how = "merge" -> Merge(s, e)
      [] how = "update" -> Update(s, e) [] how = "pop" -> Pop(s, e.key)

\* All that is built is put, one by one, in the order in which Discord sends it.
Each(how, s, built) ==
    LET upTo[n \in 0..NObjects[kind]] ==
            IF n = 0 THEN s
            ELSE IF n \in DOMAIN built THEN Put(how, upTo[n - 1], built[n]) ELSE upTo[n - 1]
    IN  upTo[NObjects[kind]]

----------------------------------------------------------------------------
(* Discord *)

Alive == {id \in Ids : discord[id].at = "alive"}
View(ids) == [id \in ids |-> [name |-> discord[id].name, tag |-> discord[id].tag]]
Changes == LET sum[n \in 0..NObjects[kind]] == IF n = 0 THEN 0 ELSE sum[n - 1] + discord[n].name
           IN  sum[NObjects[kind]]
Event(op, objs) == [op |-> op, objs |-> objs]
GuildCreate(objs) == Event("guild", IF kind \in InGuildCreate THEN objs ELSE << >>)

CanBeBorn(id) == \/ discord[id].at = "unborn"
                 \/ discord[id].at = "gone" /\ kind \in {"member", "voice"}
Room == Len(events) < MaxEvents

\* Discord tells of a change; emojis and stickers as the whole list.
Tell(op, id) ==
    events' = Append(events, IF kind \in Emojis THEN Event("set", View(Alive)')
                             ELSE Event(op, View({id})'))

Appear(id) ==
    /\ CanBeBorn(id) /\ Changes < MaxChanges[kind] /\ Room
    /\ \E list \in Lists[kind] :
          discord' = [discord EXCEPT ![id] = [at |-> "alive", name |-> @.name + 1, tag |-> list]]
    /\ Tell("create", id)

Change(id, lists) ==
    /\ id \in Alive /\ Changes < MaxChanges[kind] /\ Room
    /\ \E list \in lists : discord' = [discord EXCEPT ![id].name = @ + 1, ![id].tag = list]
    /\ Tell("update", id)

Vanish(id) ==
    /\ id \in Alive /\ Room /\ kind \notin {"presence", "user"}
    /\ discord' = [discord EXCEPT ![id].at = "gone"]
    /\ Tell("delete", id)

\* Some messages are deleted at once, the members of a guild sent at once.
Bulk ==
    /\ Room
    /\ \/ /\ kind = "message" /\ Alive # {}
          /\ discord' = [id \in Ids |-> [discord[id] EXCEPT !.at = IF id \in Alive THEN "gone" ELSE @]]
          /\ events' = Append(events, Event("bulk", View(Alive)))
       \/ /\ kind = "member"
          /\ events' = Append(events, Event("chunk", View(Alive)))
          /\ UNCHANGED discord

cached == <<kind, store, guildCached, listed, raised, known, astray, grown>>

Discord ==
    /\ ~raised /\ UNCHANGED cached
    /\ Bulk \/ \E id \in Ids : Appear(id) \/ Change(id, Lists[kind]) \/ Vanish(id)

\* A session that cannot be resumed: what was on its way is lost, and the new
\* session begins with GUILD_CREATE, which tells nothing of what is gone.
NewSession ==
    /\ ~raised
    /\ events' = <<GuildCreate(View(Alive))>>
    /\ known' = [id \in Ids |-> IF discord[id].at = "gone" THEN Gone ELSE discord[id].name]
    /\ astray' = {id \in Ids : \/ id \in astray
                               \/ id \notin Alive \/ kind \notin InGuildCreate}
    /\ UNCHANGED <<kind, discord, store, guildCached, listed, raised, grown>>

----------------------------------------------------------------------------
(* The processors.  One that raises ends run(), the gateway's loop. *)

TakeAll(k, op) ==
    /\ ~raised /\ kind = k
    /\ events # << >> /\ Head(events).op = op
    /\ events' = << >>
    /\ UNCHANGED <<kind, discord>>
Take(k, op) ==
    /\ ~raised /\ kind = k
    /\ events # << >> /\ Head(events).op = op
    /\ events' = Tail(events)
    /\ UNCHANGED <<kind, discord>>

Objs == Head(events).objs
Told == DOMAIN Objs
Only == CHOOSE id \in Told : TRUE

Raise(s) == raised' = TRUE /\ store' = s /\ UNCHANGED <<guildCached, listed, known, astray, grown>>
Goes == UNCHANGED <<guildCached, raised>>
List(ids) == listed' = IF guildCached THEN listed \cup ids ELSE listed
Note(ids, version(_)) == known' = [id \in Ids |-> IF id \in ids THEN version(id) ELSE known[id]]
Latest(id) == Objs[id].name
GoneNow(id) == Gone

\* An entry becomes what Discord says, but where a merge leaves an old thread, or a list
\* that is another than Discord's.
Left(s, objs) == {id \in DOMAIN objs :
    /\ kind = "thread" /\ Holds(s, id)
    /\ Item(s, id).name # objs[id].name \/ Item(s, id).tag # Once(objs[id].tag)}
Grows(s, objs) == {id \in DOMAIN objs :
    /\ kind # "thread" /\ Holds(s, Key(id))
    /\ Joined(Item(s, Key(id)).tag, Once(objs[id].tag)) # Once(objs[id].tag)}
Right(ids) == astray' = astray \ ids /\ grown' = grown \ ids
Mostly(objs) ==
    /\ astray' = (astray \ DOMAIN objs) \cup Left(store, objs)
    /\ grown' = (grown \ DOMAIN objs) \cup Grows(store, objs)

\* add_channel(), add_thread(), add_member(), add_role(), called by a processor.
Adds(k) ==
    /\ Take(k, "create")
    /\ store' = Each("merge", store, Built(Objs))
    /\ List(Told) /\ Goes
    /\ Note(Told, Latest) /\ Mostly(Objs)

\* _create_event() and _update_event() make the entry what Discord says.
Exactly(k, op, how) ==
    /\ Take(k, op)
    /\ store' = Each(how, store, Built(Objs))
    /\ Goes /\ Note(Told, Latest) /\ Right(Told)

channel_create == Adds("channel")
thread_create == Adds("thread")
guild_member_add == Adds("member")
guild_role_create == Adds("role")

message_create == Exactly("message", "create", "set") /\ UNCHANGED listed
stage_instance_create == Exactly("stage", "create", "set") /\ UNCHANGED listed
guild_scheduled_event_create == Exactly("event", "create", "set") /\ UNCHANGED listed
presence_update == \E op \in {"create", "update"} : Exactly("presence", op, "set") /\ UNCHANGED listed

channel_update == Exactly("channel", "update", "update") /\ List(Told)
thread_update == Exactly("thread", "update", "update") /\ List(Told)
guild_member_update == Exactly("member", "update", "update") /\ List(Told)
guild_role_update == Exactly("role", "update", "update") /\ UNCHANGED listed
guild_update == Exactly("guild", "update", "update") /\ UNCHANGED listed
message_update == Exactly("message", "update", "update") /\ UNCHANGED listed
stage_instance_update == Exactly("stage", "update", "update") /\ UNCHANGED listed
guild_scheduled_event_update == Exactly("event", "update", "update") /\ UNCHANGED listed
user_update == \E op \in {"create", "update"} : Exactly("user", op, "update") /\ UNCHANGED listed

\* A state without a channel is stored and popped.
voice_state_update ==
    \/ \E op \in {"create", "update"} : Exactly("voice", op, "update") /\ UNCHANGED listed
    \/ /\ Take("voice", "delete")
       /\ store' = Pop(Update(store, Obj(Only, Objs[Only])), Only)
       /\ Goes /\ Note(Told, GoneNow) /\ Right(Told) /\ UNCHANGED listed

\* guild_create: Guild.__attrs_post_init__() adds what the guild consists of
\* before the guild is cached, so that the first time nothing is listed.
guild_create ==
    /\ \E op \in {"guild", "create"} : Take(kind, op) /\ (op = "create" => kind = "guild")
    /\ store' = Each("merge", store, FromGuild(Objs))
    /\ List(Told) /\ guildCached' = TRUE /\ UNCHANGED raised
    /\ Note(Told, Latest) /\ Mostly(Objs)

\* A member may be stored before the missing guild is noticed.
guild_members_chunk ==
    /\ Take("member", "chunk")
    /\ IF guildCached \/ Told = {}
       THEN /\ store' = Each("set", store, Built(Objs))
            /\ List(Told) /\ Goes /\ Note(Told, Latest) /\ Right(Told)
       ELSE \E id \in Told : Raise(SetItem(store, Obj(id, Objs[id])))

\* The list has every emoji there is now; one that it lacks stays where it is.
SetUpdate(k) ==
    /\ Take(k, "set")
    /\ IF guildCached \/ Told = {}
       THEN /\ store' = Each("merge", store, UnderOwnId(Objs))
            /\ List(Told) /\ Goes /\ Note(Told, Latest) /\ UNCHANGED <<astray, grown>>
       ELSE Raise(store)

guild_emojis_update == SetUpdate("emoji")
guild_stickers_update == SetUpdate("sticker")

StaysListed(s, id, knows) ==
    store' = s /\ Goes /\ UNCHANGED listed /\ Note(Told, GoneNow) /\ Right(Told)
\* list.remove() of an id that is not in the list raises.
Unlist(s, id, knows) ==
    IF guildCached /\ knows /\ id \notin listed
    THEN Raise(s)
    ELSE /\ store' = s /\ listed' = (IF knows THEN listed \ {id} ELSE listed)
         /\ Goes /\ Note(Told, GoneNow) /\ Right(Told)

guild_member_remove == Take("member", "delete") /\ Unlist(Pop(store, Only), Only, TRUE)

\* A channel that does not know its guild's id looks for itself in the list,
\* and meets None where an object is listed and not cached.
channel_delete ==
    /\ Take("channel", "delete")
    /\ LET id == Only
           s == Pop(store, id)
           knows == Holds(store, id) => Item(store, id).gid
       IN  IF ~knows /\ guildCached /\ \E other \in listed : ~Holds(s, other)
           THEN Raise(s)
           ELSE Unlist(s, id, knows)

\* The id is removed from the ids of the channels, where it never is.
thread_delete ==
    /\ Take("thread", "delete")
    /\ IF guildCached THEN Raise(Pop(store, Only))
       ELSE /\ store' = Pop(store, Only) /\ UNCHANGED listed
            /\ Goes /\ Note(Told, GoneNow) /\ Right(Told)

Forgets(k, op) ==
    /\ Take(k, op)
    /\ store' = Each("pop", store, Built(Objs))
    /\ Goes /\ UNCHANGED listed /\ Note(Told, GoneNow) /\ Right(Told)

message_delete == Forgets("message", "delete")
message_delete_bulk == Forgets("message", "bulk")
guild_scheduled_event_delete == Forgets("event", "delete")

\* _delete_event() is called without one of its arguments.
guild_delete == Take("guild", "delete") /\ Raise(store)
guild_role_delete == Take("role", "delete") /\ Raise(store)
stage_instance_delete == Take("stage", "delete") /\ Raise(store)

Processors ==
    \/ guild_create \/ guild_update \/ guild_delete
    \/ channel_create \/ channel_update \/ channel_delete
    \/ thread_create \/ thread_update \/ thread_delete
    \/ stage_instance_create \/ stage_instance_update \/ stage_instance_delete
    \/ guild_role_create \/ guild_role_update \/ guild_role_delete
    \/ guild_member_add \/ guild_member_update \/ guild_member_remove \/ guild_members_chunk
    \/ guild_emojis_update \/ guild_stickers_update
    \/ message_create \/ message_update \/ message_delete \/ message_delete_bulk
    \/ guild_scheduled_event_create \/ guild_scheduled_event_update \/ guild_scheduled_event_delete
    \/ voice_state_update \/ presence_update \/ user_update

CacheInit ==
    /\ kind \in Kinds
    /\ \E list \in Lists[kind] : discord = [id \in Ids |->
          IF id = 1 THEN [at |-> "alive", name |-> 0, tag |-> list] ELSE [at |-> "unborn", name |-> 0, tag |-> {}]]
    /\ events = <<GuildCreate(View(Alive))>>
    /\ store = << >> /\ listed = {} /\ guildCached = FALSE /\ raised = FALSE
    /\ known = [id \in Ids |-> 0] /\ astray = {} /\ grown = {}
=============================================================================
