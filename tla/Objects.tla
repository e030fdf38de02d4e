------------------------------- MODULE Objects -------------------------------
(***************************************************************************)
(* The methods of the API models (api/models/*.py): each awaits a request  *)
(* (Endpoints) and then keeps the answer in the cache in a way of its own, *)
(* while Discord's events about the same objects arrive over the gateway.  *)
(* A method is what it does to the kind of object that the behaviour       *)
(* follows; its checks of arguments only make it raise before it starts.   *)
(***************************************************************************)
EXTENDS Cache, Endpoints

CONSTANTS Tasks,        \* tasks of the bot, one call at a time each
          MaxCalls      \* per kind, bound: calls under way at the same time

VARIABLE calls          \* per task: the method that it is in

vars == <<cacheVars, calls>>

Idle == [at |-> "idle"]
All == 0                \* in the place of an id: the request is about all objects

Giving == {"grant", "grantOwn"}
Taking == {"revoke", "revokeOwn"}
\* The role that a member is to get or to lose.
Named(keep) == IF keep \in Giving \cup Taking THEN {{item} : item \in Items} ELSE {{}}

\* The method asks for endpoint and, when answered, keeps the answer by keep:
\*   add     cache.add_<kind>(): merged and listed      merge, put  stored, not listed
\*   update  self.update(): the caller's own object     forget      cache.remove_<kind>()
\*   drop    popped, not unlisted                       grant, revoke  an item of its list
\*   guild   cache.add_guild()
Begin(t, k, endpoint, keep, id) ==
    /\ kind = k /\ calls[t] = Idle /\ ~raised
    /\ Cardinality({u \in Tasks : calls[u] # Idle}) < MaxCalls[kind]
    /\ \E items \in Named(keep) : calls' = [calls EXCEPT ![t] =
          [at |-> "sent", effect |-> Effect[endpoint], keep |-> keep, id |-> id, items |-> items]]
    /\ UNCHANGED <<kind, discord, events, guildCached, listed, raised, known, grown>>

CallFor(t, k, endpoint, keep, who) ==
    /\ kind = k /\ calls[t] = Idle
    /\ \E id \in who :
          /\ Begin(t, k, endpoint, keep, id) /\ UNCHANGED astray
          /\ \/ UNCHANGED store
             \/ /\ keep \in {"update", "grantOwn", "revokeOwn"} /\ Holds(store, id)
                /\ store' = SetItem(store, [Item(store, id) EXCEPT !.refs = @ \cup {t}])

\* The caller's object is changed before Discord is asked to change it.
EditOwn(t, k, endpoint) == \E id \in Ids, list \in Lists[kind] :
    /\ Begin(t, k, endpoint, "update", id)
    /\ Holds(store, id)
    /\ store' = SetItem(store, [Item(store, id) EXCEPT !.refs = @ \cup {t}, !.tag = Once(list)])
    /\ astray' = astray \cup {id}

Call(t, k, endpoint, keep) == CallFor(t, k, endpoint, keep, Ids)
CallAll(t, k, endpoint, keep) == CallFor(t, k, endpoint, keep, {All})
Create(t, k, endpoint, keep) == CallAll(t, k, endpoint, keep)

----------------------------------------------------------------------------
(* Discord's side of a request *)

About(id) == IF id = All THEN Alive ELSE {id} \cap Alive

\* A role that the member has, or has not, changes nothing.
SetTo(id, list) ==
    IF list = discord[id].tag THEN id \in Alive /\ UNCHANGED <<discord, events>> ELSE Change(id, {list})

\* What the request about id, or about All, does to the objects; Then says what
\* becomes of the answer.
Effected(effect, id, items, Then(_)) ==
    \/ effect = "read" /\ Then(View(About(id))) /\ UNCHANGED <<discord, events>>
    \/ effect = "create" /\ \E new \in Ids : Appear(new) /\ Then(View({new})')
    \/ \E old \in Ids \cap {id} :
          /\ \/ effect = "modify" /\ Change(old, Lists[kind])
             \/ effect = "grant" /\ SetTo(old, discord[old].tag \cup items)
             \/ effect = "revoke" /\ SetTo(old, discord[old].tag \ items)
             \/ effect = "remove" /\ Vanish(old)
          /\ Then(View({old})')
    \/ effect = "act" /\ Then(<< >>) /\ UNCHANGED <<discord, events>>

Serve(t) ==
    LET c == calls[t]
        Answer(objs) == calls' = [calls EXCEPT ![t] =
            [at |-> "answered", keep |-> c.keep, id |-> c.id, items |-> c.items, objs |-> objs]]
    IN  /\ c.at = "sent" /\ ~raised /\ UNCHANGED cached
        /\ Effected(c.effect, c.id, c.items, Answer)

\* A request whose answer is not kept.
Ask(t, k, endpoint) ==
    LET Ignored(objs) == UNCHANGED calls
    IN  /\ kind = k /\ ~raised /\ calls[t] = Idle /\ UNCHANGED cached
        /\ \E id \in Ids : Effected(Effect[endpoint], id, {}, Ignored)

\* Discord refuses, or the object is gone: the method raises.
Refuse(t) ==
    /\ calls[t].at = "sent" /\ ~raised
    /\ calls' = [calls EXCEPT ![t] = Idle]
    /\ store' = [i \in DOMAIN store |-> [store[i] EXCEPT !.refs = @ \ {t}]]
    /\ UNCHANGED <<kind, discord, events, guildCached, listed, raised, known, astray, grown>>

----------------------------------------------------------------------------
(* What the method does with the answer *)

Late(objs) == {id \in DOMAIN objs : objs[id].name < known[id]}
Strays(objs) == astray' = astray \cup Late(objs)
MergesIn(objs) ==
    /\ astray' = astray \cup Late(objs) \cup Left(store, objs)
    /\ grown' = grown \cup Grows(store, objs)
Own(t, id) == Holds(store, id) /\ t \in Item(store, id).refs

\* list.remove() takes one of them, or raises ValueError, after which nothing follows.
Fewer(n) == CASE n < 2 -> {0} [] OTHER -> {1, 2}
Removed(list, items) ==
    {less \in [Items -> 0..2] : \A i \in Items :
        less[i] \in (IF i \in items THEN Fewer(list[i]) ELSE {list[i]})}

Keep(t, c) ==
    \/ /\ c.keep = "add"
       /\ store' = Each("merge", store, Built(c.objs)) /\ List(DOMAIN c.objs)
       /\ MergesIn(c.objs) /\ UNCHANGED guildCached
    \/ /\ c.keep = "guild"
       /\ LET objs == IF kind \in {"role"} \cup Emojis THEN c.objs ELSE << >>
          IN  /\ store' = Each("merge", store, Built(objs)) /\ List(DOMAIN objs)
              /\ MergesIn(objs)
       /\ guildCached' = TRUE
    \/ /\ c.keep = "merge"
       /\ store' = Each("merge", store, FromGuild(c.objs))
       /\ MergesIn(c.objs) /\ UNCHANGED <<listed, guildCached>>
    \/ /\ c.keep = "put"
       /\ store' = Each("set", store, Built(c.objs)) /\ Strays(c.objs)
       /\ UNCHANGED <<listed, guildCached, grown>>
    \/ /\ c.keep = "update"
       /\ IF Own(t, c.id)
          THEN /\ store' = SetItem(store, [Obj(c.id, c.objs[c.id]) EXCEPT !.refs = Item(store, c.id).refs \ {t}])
               /\ astray' = (astray \ {c.id}) \cup Late(c.objs) /\ grown' = grown \ {c.id}
          ELSE UNCHANGED <<store, astray, grown>>
       /\ UNCHANGED <<listed, guildCached>>
    \/ /\ c.keep \in Giving \cup Taking
       /\ IF (IF c.keep \in {"grant", "revoke"} THEN Holds(store, c.id) ELSE Own(t, c.id))
          THEN LET own == Item(store, c.id)
               IN  /\ \E list \in IF c.keep \in Giving THEN {Appended(own.tag, Once(c.items))}
                                  ELSE Removed(own.tag, c.items) :
                         store' = SetItem(store, [own EXCEPT !.tag = list, !.refs = @ \ {t}])
                   /\ Strays(c.objs)
                   /\ grown' = IF c.keep \in Giving THEN grown \cup {c.id} ELSE grown
          ELSE UNCHANGED <<store, astray, grown>>
       /\ UNCHANGED <<listed, guildCached>>
    \/ /\ c.keep = "forget"    \* the caller gets a KeyError when the id is not listed
       /\ store' = IF kind = "sticker" THEN store ELSE Pop(store, c.id)
       /\ listed' = listed \ {c.id}
       /\ UNCHANGED <<astray, grown, guildCached>>
    \/ /\ c.keep = "drop"
       /\ store' = Pop(store, c.id)
       /\ UNCHANGED <<listed, astray, grown, guildCached>>

Return(t) ==
    /\ calls[t].at = "answered" /\ ~raised
    /\ Keep(t, calls[t])
    /\ calls' = [calls EXCEPT ![t] = Idle]
    /\ UNCHANGED <<kind, discord, events, raised, known>>
=============================================================================
