--------------------------- MODULE MCAdminConsole ---------------------------
(***************************************************************************)
(* The two areas of the admin API, which share no state: a behaviour of    *)
(* this module is a behaviour of one of them while the other rests.        *)
(*                                                                         *)
(* Sessions: four calls, an account locked by two wrong guesses for two    *)
(* units of time, sessions of one. Assistants: one assistant, two pages,   *)
(* two requests under way, four versions of the behaviour.                 *)
(***************************************************************************)
EXTENDS AdminSessions, AssistantBehaviours, TLC

CONSTANTS renamed

VARIABLES
    area    \* what this behaviour is about

MCUpdates == {[name |-> renamed], [public |-> TRUE]}

ConsoleInit ==
    /\ Init
    /\ BehavioursInit
    /\ area \in {"sessions", "assistants"}

ConsoleNext ==
    \/ area = "sessions" /\ Next /\ UNCHANGED <<behaviourVars, area>>
    \/ area = "assistants" /\ BehavioursNext /\ UNCHANGED <<adminVars, area>>

ConsoleSpec == ConsoleInit /\ [][ConsoleNext]_<<adminVars, behaviourVars, area>>

Interchangeable == Permutations(Calls)
=============================================================================
