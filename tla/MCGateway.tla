------------------------------ MODULE MCGateway ------------------------------
(***************************************************************************)
(* What a request passes before its handler, side by side: the check of    *)
(* its token and the permissions.  What is modelled of the two shares no   *)
(* state, so that a behaviour exercises one of them and leaves the other   *)
(* at a single initial state.                                              *)
(***************************************************************************)
EXTENDS Access, TLC

CONSTANTS
  Tokens, NoToken, NoRow, AccessTTL, RefreshTTL, BlacklistTTL, MaxTokenFaults

VARIABLES
  part,   \* the check that this behaviour is about
  tok, mem, tbl, spc, op, shown, cookie, shield, unsaved, guarded, slipped, tokenFaults

sessionsVars == <<tok, mem, tbl, spc, op, shown, cookie, shield, unsaved, guarded, slipped, tokenFaults>>

Session == INSTANCE Sessions

ASSUME SessionsAssumption == Session!SessionsAssumption

Symmetry == Permutations(Requests) \cup Permutations(Tokens) \cup Permutations(Users)

\* A part that is not the subject begins in one of its initial states.
SumInit ==
  /\ part \in {"access", "sessions"}
  /\ Init /\ (part # "access" => rows = {} /\ role = [u \in Users |-> "normal_user"])
  /\ Session!Init

AccessStep   == part = "access" /\ Next /\ UNCHANGED sessionsVars
SessionsStep == part = "sessions" /\ Session!Next /\ UNCHANGED vars

SumNext == UNCHANGED part /\ (AccessStep \/ SessionsStep)

SumSpec == SumInit /\ [][SumNext]_<<part, vars, sessionsVars>>
-----------------------------------------------------------------------------
(* The properties of the parts, by their names                              *)

\* Each variable keeps its type.
TypesOK == TypeOK /\ Session!TypeOK

\* A token that a logout has blacklisted is refused (Sessions).
RevokedStaysOut == Session!RevokedStaysOut

\* Refreshing prolongs neither a session for ever nor the life of a role (Sessions).
SessionsEnd == Session!SessionsEnd
==============================================================================
