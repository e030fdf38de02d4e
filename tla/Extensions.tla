----------------------------- MODULE Extensions -----------------------------
(***************************************************************************)
(* Client.load(), remove() and reload() of an extension, and what its      *)
(* instances register and tear down (client/bot.py).  The extension is a   *)
(* module with one class, which has one listener and one command; its file *)
(* is edited while the bot runs.                                           *)
(***************************************************************************)
EXTENDS CommandSync

CONSTANTS Versions,     \* versions of the command's data in the file
          MaxLoads      \* bound: instances of the extension

ASSUME ExtensionsAssumption == Versions \subseteq Nat /\ 1 \in Versions /\ MaxLoads \in Nat

VARIABLES phase,        \* of the client: off, starting, ready, ended
          first,        \* the synchronisation of the start
          file,         \* the version in the file
          module,       \* _extensions has the module
          class,        \* _extensions[<class>]: the latest instance, or 0
          insts,        \* the instances: the commands that each has registered
          torn,         \* those whose teardown has removed their listeners
          teardowns,    \* the teardowns that are tasks not yet run
          listeners,    \* events[<listener>]
          loadFailed    \* ghost

instances == <<module, class, insts, torn, teardowns, listeners, loadFailed>>
extension == <<phase, first, file, instances>>
vars == <<registry, syncVars, extension>>

Init ==
    /\ RegistryInit
    /\ SyncInit
    /\ phase = "off" /\ first = 0 /\ file = 1 /\ module = FALSE /\ class = 0
    /\ insts = << >> /\ torn = {} /\ teardowns = << >> /\ listeners = << >> /\ loadFailed = FALSE

----------------------------------------------------------------------------
(* Synchronisations: who starts them *)

Sync(s) ==
    /\ \A t \in Unused : s <= t
    /\ syncs' = Started(s) /\ overlapped' = OverlapsNow /\ failed' = FALSE

\* _ready(): a command that is bad ends the client before its synchronisation.
Ready ==
    /\ phase = "off" /\ Resolve(commands)
    /\ IF Resolves(commands)
       THEN \E s \in Unused : Sync(s) /\ first' = s /\ phase' = "starting"
       ELSE phase' = "ended" /\ UNCHANGED <<syncs, overlapped, failed, first>>
    /\ UNCHANGED <<pool, discord, faults, shut, file, instances>>

\* The client logs in only if that synchronisation has not raised.
Login ==
    /\ phase = "starting" /\ ~Running(first)
    /\ phase' = IF syncs[first].raised THEN "ended" ELSE "ready"
    /\ UNCHANGED <<registry, syncVars, first, file, instances>>

----------------------------------------------------------------------------
(* load() *)

\* Extension.__new__: a command whose name the client already has is passed over.
Declared(i) == IF Ext \in NamesIn(commands) THEN commands ELSE Append(commands, Command(Ext, file, i))
Registers == IF Ext \in NamesIn(commands) THEN {} ELSE {Ext}

\* The instance stays registered as far as it came when __resolve_commands() raises.
New ==
    LET i == Len(insts) + 1
    IN  /\ i <= MaxLoads
        /\ listeners' = Append(listeners, i)
        /\ insts' = Append(insts, Registers)
        /\ class' = i
        /\ Resolve(Declared(i))
        /\ IF Resolves(Declared(i))
           THEN /\ module' = TRUE /\ UNCHANGED loadFailed
                /\ IF phase = "ready" THEN \E s \in Unused : Sync(s) ELSE UNCHANGED <<syncs, overlapped, failed>>
           ELSE /\ module' = FALSE /\ loadFailed' = TRUE /\ UNCHANGED <<syncs, overlapped, failed>>
        /\ UNCHANGED <<pool, discord, faults, shut, phase, first, file, torn>>

\* load(): an extension that is loaded is not loaded again.
load == phase # "ended" /\ ~module /\ New /\ UNCHANGED teardowns

----------------------------------------------------------------------------
(* remove(), reload() and the teardown, which is a task of its own *)

\* Without an instance there is none to tear down.
RequestedAnyway(remove_commands) == teardowns' = Append(teardowns, [inst |-> class, sync |-> remove_commands])
Requested(remove_commands) ==
    teardowns' = IF class = 0 THEN teardowns ELSE Append(teardowns, [inst |-> class, sync |-> remove_commands])

\* remove() of the module: the class keeps its entry in _extensions.
remove == \E remove_commands \in BOOLEAN :
    /\ phase # "ended" /\ module /\ module' = FALSE
    /\ Requested(remove_commands)
    /\ UNCHANGED <<registry, syncVars, phase, first, file, class, insts, torn, listeners, loadFailed>>

\* remove() of the instance, by the name of its class.
remove_instance == \E remove_commands \in BOOLEAN :
    /\ phase # "ended" /\ class # 0 /\ class' = 0
    /\ Requested(remove_commands)
    /\ UNCHANGED <<registry, syncVars, phase, first, file, module, insts, torn, listeners, loadFailed>>

\* reload(): the new instance is made before the teardown of the old one has run.
reload == \E remove_commands \in BOOLEAN :
    /\ phase # "ended" /\ module
    /\ Requested(remove_commands)
    /\ New

\* Extension.teardown() up to its first await.  It removes the command by its name,
\* from the place 0 of its handlers; the listener of an instance that has already been
\* torn down is not there any more, which raises.
TearDown(t) ==
    LET i == t.inst
        mine == insts[i]
    IN  IF i \in torn THEN UNCHANGED <<commands, coros, handlers, loadedLate, listeners, torn, syncs, overlapped, failed>>
        ELSE /\ listeners' = RemoveFirst(listeners, i)
             /\ torn' = torn \cup {i}
             /\ commands' = IF Ext \in mine THEN DropNamed(commands, Ext) ELSE commands
             /\ coros' = IF Ext \in mine THEN DropNamed(coros, Ext) ELSE coros
             /\ handlers' = IF Ext \in mine /\ handlers[Ext] # << >> THEN [handlers EXCEPT ![Ext] = Tail(@)] ELSE handlers
             /\ loadedLate' = (loadedLate \/ coros' # coros)
             /\ IF t.sync /\ (Ext \in mine => handlers[Ext] # << >>)
                THEN \E s \in Unused : Sync(s)
                ELSE UNCHANGED <<syncs, overlapped, failed>>

teardown ==
    /\ teardowns # << >>
    /\ teardowns' = Tail(teardowns)
    /\ TearDown(Head(teardowns))
    /\ UNCHANGED <<pool, discord, faults, shut, phase, first, file, module, class, insts, loadFailed>>

\* The user edits the file.
Edit == \E v \in Versions \ {file} :
    /\ phase # "ended" /\ file' = v /\ Len(insts) < MaxLoads
    /\ UNCHANGED <<registry, syncVars, phase, first, instances>>

----------------------------------------------------------------------------

\* When _ready() has ended, start() logs out and the event loop stops.
Run == phase # "ended" /\ ((SyncStep /\ UNCHANGED extension) \/ Ready \/ Login \/ teardown)
Room(more) == Cardinality(Unused) >= Len(teardowns) + more + (IF phase = "off" THEN 1 ELSE 0)    \* bound
User == \/ Room(1) /\ (load \/ remove \/ remove_instance \/ Edit)
        \/ Room(2) /\ reload
Next == Run \/ User \/ (phase # "ended" /\ SyncFault /\ UNCHANGED extension)
Spec == Init /\ [][Next]_vars
FairSpec == Spec /\ WF_vars(Run)

----------------------------------------------------------------------------
(* Properties *)

TypeOK ==
    /\ phase \in {"off", "starting", "ready", "ended"} /\ first \in 0..MaxSyncs /\ file \in Versions
    /\ class \in 0..Len(insts) /\ torn \subseteq 1..Len(insts)
    /\ faults \in 0..MaxFaults
    /\ \A k \in DOMAIN teardowns : teardowns[k].inst \in DOMAIN insts
    /\ \A s \in Syncs : syncs[s].at \in {"idle", "get", "got", "put", "done"}

\* Of every command that is to be synchronised there is one handler, of the same
\* instance, which has not been torn down; each is declared; and the listeners are those of
\* the instances that have not been torn down, each once: whatever order loads,
\* removals and teardowns run in, and whatever raises.
RegistryAgrees ==
    /\ \A i, j \in DOMAIN coros : coros[i].name = coros[j].name => i = j
    /\ \A i \in DOMAIN coros : handlers[coros[i].name] = <<coros[i].inst>> /\ coros[i].inst \notin torn
    /\ \A n \in Names \ NamesIn(coros) : handlers[n] = << >>
    /\ Range(coros) \subseteq Range(commands)
    /\ Range(listeners) = (1..Len(insts)) \ torn /\ IsInjective(listeners)

\* At rest, Discord has the commands that are registered, in their versions and no
\* other, if the last synchronisation overlapped no other, has not raised, and followed the
\* last change: it repairs what any before it left half done, or undid for each other; but
\* for guilds that it had no access to.
Rest == phase = "ready" /\ teardowns = << >> /\ \A s \in Syncs : ~Running(s)
Registered(p) == {Data(coros[i]) : i \in Of(p)}
Synced == Rest /\ ~overlapped /\ ~failed /\ ~loadedLate => \A p \in Places \ shut : discord[p] = Registered(p)

\* Synchronisations, which start each other's work anew, and teardowns come to an end; unless
\* the start has raised, which ends the client.
Settles == <>[](Rest \/ phase = "ended")

\* reload(): "This will remove and re-add application commands" (client/bot.py).
ReloadReadds == Rest /\ module /\ class # 0 /\ ~loadFailed => Ext \in NamesIn(coros)
=============================================================================
