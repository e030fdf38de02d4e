------------------------------ MODULE Registry ------------------------------
(***************************************************************************)
(* The commands of a Client (client/bot.py) in the three lists that it     *)
(* keeps of them, _commands, __command_coroutines and the listeners of     *)
(* api/dispatch.py; __resolve_commands() carries them from the first to    *)
(* the others.                                                             *)
(***************************************************************************)
EXTENDS Integers, Sequences, FiniteSets, SequencesExt

CONSTANTS Own,          \* name of a command of the client's own script
          Ext,          \* name of the command of an extension
          Guilds,       \* guilds of the bot, as a sequence
          ScopeOf       \* per name: where it is registered, <<Global>> or guilds

Global == "global"
Names == {Own, Ext}
Places == {Global} \cup Range(Guilds)

ASSUME RegistryAssumption ==
    /\ Own # Ext /\ Guilds \in Seq(Range(Guilds))
    /\ \A n \in Names : ScopeOf[n] = <<Global>> \/ Range(ScopeOf[n]) \subseteq Range(Guilds)

VARIABLES commands,     \* _commands: what has been declared
          coros,        \* __command_coroutines: what is to be synchronised
          handlers,     \* events["command_<name>"]: who answers, by name
          loadedLate    \* ghost: coros has changed since a synchronisation has read it

registry == <<commands, coros, handlers, loadedLate>>

\* A command: its name, the version of its data (BadData does not pass
\* __check_command), and the instance of the extension, 0 for the client's own.
BadData == 0
Command(name, ver, inst) == [name |-> name, ver |-> ver, inst |-> inst]
NamesIn(s) == {s[i].name : i \in DOMAIN s}
DropNamed(s, name) == RemoveFirstMatch(s, LAMBDA c : c.name = name)

RegistryInit ==
    /\ commands = <<Command(Own, 1, 0)>> /\ coros = << >>
    /\ handlers = [n \in Names |-> << >>] /\ loadedLate = FALSE

register(h, c) == [h EXCEPT ![c.name] = Append(@, c.inst)]

\* One command of __resolve_commands(), of which __check_command() raises when its data
\* are bad.  The name stands for the qualified name that it looks for.
ResolveAnyway(r, c) ==
    IF r.raised \/ c.ver = BadData THEN [r EXCEPT !.raised = TRUE]
    ELSE [coros |-> Append(r.coros, c), handlers |-> register(r.handlers, c), raised |-> FALSE]
ResolveOne(r, c) ==
    IF r.raised \/ c.name \in NamesIn(r.coros) THEN r
    ELSE IF c.ver = BadData THEN [r EXCEPT !.raised = TRUE]
    ELSE [coros |-> Append(r.coros, c), handlers |-> register(r.handlers, c), raised |-> FALSE]

\* All of them in their order: those before the bad one have been registered.
Resolved(declared) ==
    LET upTo[n \in 0..Len(declared)] ==
            IF n = 0 THEN [coros |-> coros, handlers |-> handlers, raised |-> FALSE]
            ELSE ResolveOne(upTo[n - 1], declared[n])
    IN  upTo[Len(declared)]

Resolve(declared) ==
    /\ commands' = declared
    /\ coros' = Resolved(declared).coros
    /\ handlers' = Resolved(declared).handlers
    /\ loadedLate' = (loadedLate \/ coros' # coros)
Resolves(declared) == ~Resolved(declared).raised
=============================================================================
