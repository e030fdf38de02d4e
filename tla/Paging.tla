------------------------------- MODULE Paging -------------------------------
(***************************************************************************)
(* The methods that read a long list of Discord's page by page: the        *)
(* asynchronous iterators AsyncHistoryIterator (api/models/channel.py) and *)
(* AsyncMembersIterator (api/models/guild.py), whose caller takes objects  *)
(* one at a time, and the methods that return a whole list.  Discord's     *)
(* list changes between the requests.                                      *)
(***************************************************************************)
EXTENDS Integers, Sequences, FiniteSets, SequencesExt

CONSTANTS MaxId,        \* bound: ids are 1..MaxId, in the order of creation
          First, More,  \* sizes of the first page and of the later ones
          Low,          \* the next page is asked for when fewer objects remain
          Infinity,     \* the default maximum
          Maxima,       \* maxima that callers give
          Rejections,   \* sets of objects that a check rejects
          Cachings,     \* sets of messages that are in the cache
          MaxChanges    \* bound: changes of Discord's list during one method

Ids == 1..MaxId
ASSUME PagingAssumption ==
    /\ MaxId \in Nat /\ First \in Nat \ {0} /\ More \in 1..First /\ Low \in 1..More
    /\ Maxima \subseteq 1..Infinity /\ Infinity \in Nat /\ Infinity > 2 * MaxId + First
    /\ Rejections \subseteq SUBSET Ids /\ Cachings \subseteq SUBSET Ids /\ MaxChanges \in Nat

Iterators == {"history", "history_reverse", "members"}
Lists == {"get_all_bans", "get_all_members", "get_users_from_reaction", "get_full_audit_logs"}
Descending == {"history", "get_full_audit_logs"}
Messages == {"history", "history_reverse"}

VARIABLES method,       \* the method, and its arguments
          maximum, check, rejected,
          list,         \* Discord's objects
          stayed,       \* ghost: those that were there from the start on
          changes,
          cached,       \* messages in the cache
          objects,      \* objects fetched and not yet yielded, or None
          object_count, stop,
          edge,         \* before or after: the last id of the last page
          obj,          \* the object that __anext__ has popped
          yielded,      \* what the caller has received, None where an object was not found
          at            \* where the method is

config == <<method, maximum, check, rejected>>
world == <<list, stayed, changes, cached>>
iterator == <<objects, object_count, stop, edge, obj>>
vars == <<config, world, iterator, yielded, at>>

None == << >>           \* no object, and objects before the first page
Nothing == [id |-> 0, found |-> FALSE]
Least(a, b) == IF a < b THEN a ELSE b

----------------------------------------------------------------------------
(* Discord *)

Beyond(x, y) == IF method \in Descending THEN x < y ELSE x > y

\* The answer to a request for limit objects beyond the edge, in their order.
Page(limit) ==
    LET there == {x \in list : Beyond(x, edge)}
        before(x) == Cardinality({y \in there : Beyond(x, y)})
    IN  [i \in 1..Least(limit, Cardinality(there)) |-> CHOOSE x \in there : before(x) = i - 1]

Deleted == \E x \in list :
    /\ list' = list \ {x} /\ stayed' = stayed \ {x} /\ cached' = cached \ {x}

\* A new message is the latest; a member or a user that is added may be anyone.
Created == \E x \in Ids \ list :
    /\ method \in {"history", "history_reverse", "get_full_audit_logs"} => \A y \in list : x > y
    /\ list' = list \cup {x} /\ cached' = cached \cup {x} /\ UNCHANGED stayed

Changed ==
    /\ changes < MaxChanges /\ at \notin {"done", "raised"}
    /\ changes' = changes + 1
    /\ Deleted \/ Created
    /\ UNCHANGED <<config, iterator, yielded, at>>

----------------------------------------------------------------------------
(* The iterators *)

Init ==
    /\ method \in Iterators \cup Lists
    /\ maximum \in IF method \in Iterators THEN Maxima ELSE {Infinity}
    /\ check \in IF method \in Iterators THEN {"none", "sync", "async"} ELSE {"none"}
    /\ rejected \in IF check = "none" THEN {{}} ELSE Rejections
    /\ \E n \in 0..MaxId : list = 1..n
    /\ stayed = list /\ changes = 0
    /\ cached \in IF method \in Messages THEN Cachings ELSE {Ids}
    /\ objects = None /\ object_count = 0 /\ stop = FALSE /\ obj = Nothing
    /\ edge = IF method \in Descending THEN MaxId + 1 ELSE 0
    /\ yielded = << >> /\ at = "start"

\* get_first_objects(): the first page's objects are built from the answer.  Of the
\* two iterators only the history's catches the IndexError of an empty page here.
get_first_objects ==
    LET limit == Least(maximum, First)
        page == Page(limit)
    IN  /\ at = "start" /\ method \in Iterators
        /\ IF page = << >>
           THEN /\ at' = IF method = "members" THEN "raised" ELSE "done"
                /\ stop' = (maximum = limit)
                /\ UNCHANGED <<objects, object_count, edge>>
           ELSE /\ at' = "pop"
                /\ edge' = Last(page)
                /\ stop' = (maximum = limit \/ Len(page) < First)
                /\ object_count' = object_count + limit
                /\ objects' = [i \in DOMAIN page |-> [id |-> page[i], found |-> TRUE]]
        /\ UNCHANGED <<config, world, obj, yielded>>

\* A message of a later page is looked up in the cache, in which nothing has put it.
Found(id) == method # "members" => id \in cached

PageDue == ~stop /\ Len(objects) < Low

NextLimit == Least(More, maximum - object_count)
FirstOfPage(page) == Head(page)             \* mutant: the page is not in order
NextEdge(page) == Last(page)

\* get_objects(); an empty page raises IndexError, which ends the iteration, whatever
\* has been popped and fetched.
get_objects(then) ==
    LET limit == NextLimit
        page == Page(limit)
    IN  IF page = << >>
        THEN at' = "done" /\ UNCHANGED <<objects, object_count, stop, edge>>
        ELSE /\ at' = then
             /\ edge' = NextEdge(page)
             /\ stop' = (Len(page) < limit \/ limit = maximum - object_count)
             /\ object_count' = object_count + limit
             /\ objects' = objects \o [i \in DOMAIN page |-> [id |-> page[i], found |-> Found(page[i])]]

GetObjectsIf(due, then) ==
    /\ IF due THEN get_objects(then) ELSE at' = then /\ UNCHANGED <<objects, object_count, stop, edge>>
    /\ UNCHANGED <<config, world, obj, yielded>>

\* self.objects.pop(0), of which the IndexError ends the iteration.
Pop(then) ==
    IF objects = << >>
    THEN at' = "done" /\ UNCHANGED <<objects, obj>>
    ELSE at' = then /\ obj' = Head(objects) /\ objects' = Tail(objects)

Start ==
    /\ at = "pop"
    /\ Pop(IF check = "none" THEN "end" ELSE "check")
    /\ UNCHANGED <<config, world, object_count, stop, edge, yielded>>

\* The first call of the check is awaited; None makes it raise.
Passes(o) == o.id \notin rejected

\* Mutant: a rejected object is not popped.
CheckForever ==
    /\ at = "check"
    /\ at' = IF ~obj.found THEN "raised" ELSE IF Passes(obj) THEN "end" ELSE "check"
    /\ UNCHANGED <<config, world, iterator, yielded>>

Check ==
    /\ at = "check"
    /\ at' = IF ~obj.found THEN "raised" ELSE IF Passes(obj) THEN "end" ELSE "skip"
    /\ UNCHANGED <<config, world, iterator, yielded>>

\* One round of the loop that skips a rejected object.
Skip == at = "skip" /\ GetObjectsIf(PageDue /\ object_count >= maximum, "next")

\* Here the call of an asynchronous check is not awaited: a coroutine counts as passed.
NotChecked == "end"                         \* mutant: the next object is not checked
Rechecked == IF check = "async" THEN "end" ELSE "check"
CountTwice == object_count - 2              \* mutant: a rejected object counts as two
CountLess == object_count - 1

SkipNext ==
    /\ at = "next"
    /\ Pop(Rechecked)
    /\ object_count' = CountLess
    /\ UNCHANGED <<config, world, stop, edge, yielded>>

End == at = "end" /\ GetObjectsIf(PageDue /\ object_count <= maximum, "return")

\* __anext__ returns, and the caller asks for the next object, sooner or later.
Return ==
    /\ at = "return" /\ at' = "pop"
    /\ yielded' = Append(yielded, obj)
    /\ UNCHANGED <<config, world, iterator>>

----------------------------------------------------------------------------
(* The methods that return a list: in one call, page after page *)

Received(page) == yielded' = yielded \o [i \in DOMAIN page |-> [id |-> page[i], found |-> TRUE]]

ReadPage(Full(_)) ==
    LET page == Page(First)
    IN  /\ at = "start" /\ Received(page)
        /\ IF Len(page) < First THEN at' = "done" /\ UNCHANGED edge ELSE Full(page)
        /\ UNCHANGED <<config, world, objects, object_count, stop, obj>>

OnePage(page) == at' = "done" /\ UNCHANGED edge     \* mutant: the first page only
Onward(page) == edge' = Last(page) /\ at' = "start"
Raises(page) == at' = "raised" /\ UNCHANGED edge

get_all_bans == method = "get_all_bans" /\ ReadPage(Onward)
get_users_from_reaction == method = "get_users_from_reaction" /\ ReadPage(Onward)

\* A member's id is under "user": after=_members[-1]["id"] raises KeyError.
get_all_members == method = "get_all_members" /\ ReadPage(Raises)

\* _audit_log_dict[key] becomes the first entry itself: `in` then looks for a dict
\* among its keys, which raises TypeError.
get_full_audit_logs == method = "get_full_audit_logs" /\ ReadPage(Raises)

----------------------------------------------------------------------------

Step == get_first_objects \/ Start \/ Check \/ Skip \/ SkipNext \/ End \/ Return
        \/ get_all_bans \/ get_users_from_reaction \/ get_all_members \/ get_full_audit_logs
Ended == at \in {"done", "raised"} /\ UNCHANGED vars
Next == Step \/ Changed \/ Ended
Spec == Init /\ [][Next]_vars
FairSpec == Spec /\ WF_vars(Step)

----------------------------------------------------------------------------
(* Properties *)

Yielded == {yielded[i].id : i \in DOMAIN yielded}
Hidden == {yielded[i].id : i \in {j \in DOMAIN yielded : ~yielded[j].found}}  \* None came instead
Obtained == Yielded \ Hidden
Wanted == {x \in stayed : x \notin rejected}
Ahead == [i \in DOMAIN yielded |-> yielded[i].id]
         \o (IF at \in {"check", "skip", "end", "return"} THEN <<obj.id>> ELSE << >>)
         \o [i \in DOMAIN objects |-> objects[i].id]

\* The iterator's count of what it has asked for stays within the maximum, it never
\* asks for an empty page, never holds more than a page and a remainder, and never
\* yields more than the maximum, although an object that the check rejects makes room
\* for another one.
TypeOK ==
    /\ at \in {"start", "pop", "check", "skip", "next", "end", "return", "done", "raised"}
    /\ list \subseteq Ids /\ stayed \subseteq list /\ changes \in 0..MaxChanges
    /\ edge \in 0..(MaxId + 1) /\ obj.id \in 0..MaxId
    /\ object_count <= maximum
    /\ ~stop => object_count < maximum
    /\ Len(objects) <= First + Low
    /\ Len(yielded) <= maximum

\* Pages join: what has been yielded and fetched is in order, without duplicates, and
\* no object that stayed in Discord's list is left out before the last one yielded,
\* whatever was deleted or created between the requests: the caller has received it, or
\* None in its place (unless the check is said to reject it).
PagesJoin ==
    /\ \A i \in 1..(Len(Ahead) - 1) : Beyond(Ahead[i + 1], Ahead[i])
    /\ yielded # << >> => \A x \in Wanted : Beyond(Last(yielded).id, x) => x \in Obtained \cup Hidden

\* An object that the check rejects is yielded only after another one that was
\* rejected, and only when the check is asynchronous.
Unchecked == \A i \in DOMAIN yielded :
    yielded[i].id \in rejected =>
        /\ check = "async"
        /\ \E x \in rejected : Beyond(yielded[i].id, x) /\ x \notin Yielded

\* What an iteration without a check costs its caller: at the end at most Low objects
\* that stayed are missing from as many as were asked for (the last page was empty), and
\* None comes in place of messages of the later pages only, there of each that is not
\* cached.  get_all_bans() and get_users_from_reaction() lose nothing; nothing is said of
\* the two methods that raise when a page is full.
LosesFew == at = "done" /\ check = "none" =>
    /\ method \in Iterators =>
         Cardinality(stayed \ (Obtained \cup Hidden)) <= Low \/ Len(yielded) >= maximum - Low
    /\ \A i \in DOMAIN yielded : ~yielded[i].found => method \in Messages /\ i > First
    /\ method \in {"get_all_bans", "get_users_from_reaction"} => stayed \subseteq Obtained

\* flatten() "Returns all remaining items as list" (api/models/channel.py).
FlattenReturnsAll == at = "done" /\ check = "none" /\ maximum = Infinity => stayed \subseteq Obtained

\* A loop over the iterator, and a method that returns a list, ends or raises.
Ends == <>(at \in {"done", "raised"})

----------------------------------------------------------------------------
=============================================================================
