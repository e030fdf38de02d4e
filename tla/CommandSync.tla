----------------------------- MODULE CommandSync -----------------------------
(***************************************************************************)
(* Client.__sync(): reads the commands that Discord has, globally and per  *)
(* guild, compares them with those registered, and overwrites what         *)
(* differs.  Every start of it is a task of its own; they interleave at    *)
(* each request and share __global_commands and __guild_commands.          *)
(***************************************************************************)
EXTENDS Registry

CONSTANTS MaxSyncs,     \* bound: synchronisations
          Existing,     \* what Discord may have in a place at the start
          MaxFaults     \* bound: requests that Discord refuses

\* Discord has a name once in each place.
ASSUME SyncAssumption ==
    /\ MaxSyncs \in Nat /\ MaxFaults \in Nat
    /\ \A E \in Existing : IsFiniteSet(E) /\ \A d, e \in E : d.name = e.name => d = e

Syncs == 1..MaxSyncs

VARIABLES pool,         \* __global_commands and __guild_commands: commands, clean
          discord,      \* the commands that Discord has
          syncs,        \* the synchronisations, by number
          faults,
          overlapped, failed,   \* ghosts: since one last started alone, two have been under
                        \* way at once; one has raised
          shut          \* ghost: guilds that the last one had no access to

syncVars == <<pool, discord, syncs, faults, overlapped, failed, shut>>

Data(c) == [name |-> c.name, ver |-> c.ver]
Running(s) == syncs[s].at # "idle"
Overwriting == {s \in Syncs : syncs[s].at \in {"put", "done"}}
Unused == {s \in Syncs : syncs[s].at = "idle" /\ ~syncs[s].used}

SyncInit ==
    /\ pool = [p \in Places |-> [cmds |-> << >>, clean |-> TRUE]]
    /\ discord \in [Places -> Existing]
    /\ syncs = [s \in Syncs |-> [at |-> "idle", used |-> FALSE, raised |-> FALSE]]
    /\ faults = 0 /\ overlapped = FALSE /\ failed = FALSE /\ shut = {}

Finish == [at |-> "idle", used |-> TRUE, raised |-> FALSE]
Raise(s) ==
    /\ syncs' = [syncs EXCEPT ![s] = [Finish EXCEPT !.raised = TRUE]]
    /\ failed' = TRUE

\* What becomes of syncs when a synchronisation starts: its first request is
\* for the guilds, whose number does not change here.
Started(s) == [syncs EXCEPT ![s] =
    [at |-> "get", todo |-> <<Global>> \o Guilds, check |-> [p \in Places |-> {}],
     blocked |-> {}]]
OverlapsNow == \E s \in Syncs : Running(s)

----------------------------------------------------------------------------
(* Discord *)

\* Requests for one place wait for each other at the lock of their endpoint (HttpRequest),
\* which is held until the answer is read.
ServeGet(s) ==
    /\ syncs[s].at = "get"
    /\ \A t \in Syncs : syncs[t].at = "got" => Head(syncs[t].todo) # Head(syncs[s].todo)
    /\ syncs' = [syncs EXCEPT ![s] = [at |-> "got", got |-> SetToSeq(discord[Head(@.todo)]), todo |-> @.todo,
                                      check |-> @.check, blocked |-> @.blocked]]
    /\ UNCHANGED <<registry, pool, discord, faults, overlapped, failed, shut>>

\* Overwrites of one place are served in the order of their tickets; Discord refuses a
\* list that has a name twice.
ServePut(s) ==
    /\ syncs[s].at = "put"
    /\ \A t \in Overwriting : syncs[t].place = syncs[s].place => syncs[t].ticket >= syncs[s].ticket
    /\ LET data == syncs[s].data
       IN  IF \A i, j \in DOMAIN data : data[i].name = data[j].name => i = j
           THEN /\ discord' = [discord EXCEPT ![syncs[s].place] = Range(data)]
                /\ syncs' = [syncs EXCEPT ![s].at = "done"] /\ UNCHANGED failed
           ELSE Raise(s) /\ UNCHANGED discord
    /\ UNCHANGED <<registry, pool, faults, overlapped, shut>>

\* A request that fails ends the synchronisation.
Refused(s) ==
    /\ syncs[s].at \in {"get", "put"} /\ faults < MaxFaults
    /\ faults' = faults + 1 /\ Raise(s)
    /\ UNCHANGED <<registry, pool, discord, overlapped, shut>>

----------------------------------------------------------------------------
(* Comparing: one step, from the last answer to the first overwrite *)

\* __compare_sync(): TRUE when no command of the name differs from the data.
NeverDiffers(cmds, data) == cmds # << >> \/ data.name \in Names
Clean(cmds, data) == \A i \in DOMAIN cmds : cmds[i].name = data.name => cmds[i] = data

\* The data of the registered commands of a place, up to the first that is to be in a
\* guild without access, which raises.
Refusing(blocked) == {i \in DOMAIN coros : Range(ScopeOf[coros[i].name]) \cap blocked # {}}
Of(p) == {i \in DOMAIN coros : p \in Range(ScopeOf[coros[i].name])}
Mine(p, blocked) == {Data(coros[i]) : i \in {j \in Of(p) : \A r \in Refusing(blocked) : j < r}}

\* The commands of a place when all have been compared: the first of the name of one that
\* differs is replaced, and what is not among the names that were read is appended.
First(cmds, i) == \A j \in 1..i - 1 : cmds[j].name # cmds[i].name
Differing(cmds, names, mine) == {d \in mine : d.name \in names /\ ~Clean(cmds, d)}
Missing(names, mine) == {d \in mine : d.name \notin names}
Matched(cmds, names, mine) ==
    LET new(i) == {d \in Differing(cmds, names, mine) : d.name = cmds[i].name}
        replaced == [i \in DOMAIN cmds |->
            IF First(cmds, i) /\ new(i) # {} THEN CHOOSE d \in new(i) : TRUE ELSE cmds[i]]
    IN  replaced \o SetToSeq(Missing(names, mine))

\* The first of each of the names is deleted.
Without(cmds, names) ==
    LET upTo[n \in 0..Len(cmds)] ==
            IF n = 0 THEN << >>
            ELSE IF cmds[n].name \in names /\ First(cmds, n) THEN upTo[n - 1]
            ELSE Append(upTo[n - 1], cmds[n])
    IN  upTo[Len(cmds)]
Put(old, cmds, same) == [cmds |-> cmds, clean |-> old.clean /\ same]

\* The pool now, when the names in check have been read: names that no command has taken
\* are deleted, and one that is not there any more raises.  Without any command of its
\* own the client deletes all, and looks for what it has read only where nothing is left.
\* (What a comparison that raises leaves in the pool is read only by one that overlaps:
\* here all that was matched, and nothing deleted.)
Strays(p, check, blocked) == check[p] \ {d.name : d \in Mine(p, blocked)}
Vanished(now, check, blocked) == {p \in Places \ blocked :
    /\ ~ Strays(p, check, blocked) \subseteq NamesIn(now[p].cmds)
    /\ coros = << >> => now[p].cmds = << >>}
Raises(now, check, blocked) == Refusing(blocked) # {} \/ Vanished(now, check, blocked) # {}

Compared(now, check, blocked) ==
    [p \in Places |->
        LET old == now[p]
            mine == Mine(p, blocked)
            matched == Matched(old.cmds, check[p], mine)
            same == Differing(old.cmds, check[p], mine) \cup Missing(check[p], mine) = {}
            strays == Strays(p, check, blocked)
        IN  IF p \in blocked THEN old
            ELSE IF coros = << >> THEN Put(old, << >>, old.cmds = << >>)
            ELSE IF Raises(now, check, blocked) THEN Put(old, matched, same)
            ELSE Put(old, Without(matched, strays), same /\ strays = {})]

Ticket(s) == 1 + Max({0} \cup {syncs[t].ticket : t \in Overwriting \ {s}})

\* The next place that is not clean is overwritten, or the synchronisation ends.
Overwrite(s, todo, now, blocked) ==
    LET k == SelectInSeq(todo, LAMBDA p : p \notin blocked /\ ~now[p].clean)
    IN  syncs' = [syncs EXCEPT ![s] =
            IF k = 0 THEN Finish
            ELSE [at |-> "put", place |-> todo[k], data |-> now[todo[k]].cmds, blocked |-> blocked,
                  todo |-> SubSeq(todo, k + 1, Len(todo)), ticket |-> Ticket(s)]]

\* The answer to a request for the commands of one place; after the last one all is
\* compared.  A guild without the scope is left out.
Received(s, known, blocked) ==
    LET here == syncs[s]
        p == Head(here.todo)
        now == IF p \in blocked THEN pool ELSE [pool EXCEPT ![p] = [cmds |-> known, clean |-> TRUE]]
        check == [here.check EXCEPT ![p] = NamesIn(known)]
    IN  IF Len(here.todo) > 1
        THEN /\ pool' = now
             /\ syncs' = [syncs EXCEPT ![s] = [at |-> "get", todo |-> Tail(here.todo), check |-> check, blocked |-> blocked]]
             /\ UNCHANGED <<failed, loadedLate, shut>>
        ELSE /\ pool' = Compared(now, check, blocked) /\ loadedLate' = FALSE /\ shut' = blocked
             /\ IF Raises(now, check, blocked) THEN Raise(s)
                ELSE /\ Overwrite(s, <<Global>> \o Guilds, pool', blocked) /\ UNCHANGED failed

Got(s) ==
    /\ syncs[s].at = "got" /\ Received(s, syncs[s].got, syncs[s].blocked)
    /\ UNCHANGED <<commands, coros, handlers, discord, faults, overlapped>>

\* LibraryException 50001 for a guild.
MissingAccess(s) ==
    /\ syncs[s].at = "get" /\ Head(syncs[s].todo) # Global /\ faults < MaxFaults
    /\ faults' = faults + 1
    /\ Received(s, << >>, syncs[s].blocked \cup {Head(syncs[s].todo)})
    /\ UNCHANGED <<commands, coros, handlers, discord, overlapped>>

OverwrittenAgain(s) ==
    LET here == syncs[s]
        now == [pool EXCEPT ![here.place] = [cmds |-> here.data, clean |-> FALSE]]
    IN  /\ here.at = "done" /\ pool' = now
        /\ Overwrite(s, <<here.place>> \o here.todo, now, here.blocked)
        /\ UNCHANGED <<registry, discord, faults, overlapped, failed, shut>>

\* The answer to an overwrite: it marks whatever list is now in the place.
Overwritten(s) ==
    LET here == syncs[s]
        now == [pool EXCEPT ![here.place] = [cmds |-> here.data, clean |-> TRUE]]
    IN  /\ here.at = "done" /\ pool' = now
        /\ Overwrite(s, here.todo, now, here.blocked)
        /\ UNCHANGED <<registry, discord, faults, overlapped, failed, shut>>

SyncStep == \E s \in Syncs : ServeGet(s) \/ ServePut(s) \/ Got(s) \/ Overwritten(s)
SyncFault == \E s \in Syncs : Refused(s) \/ MissingAccess(s)
=============================================================================
