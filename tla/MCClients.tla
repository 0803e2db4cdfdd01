------------------------------ MODULE MCClients ------------------------------
(***************************************************************************)
(* The protocols of the clients with the server, and the terminal's        *)
(* editor, each on its own: the first state picks one instance, the part,  *)
(* and only that one moves.  The parts share no state in the code but the  *)
(* document, of which TuiConnection keeps the operations and TuiEditor the *)
(* content.  AuthSessions is extended for the part rotate, whose constants *)
(* the cfg gives, and instantiated for the other three: its properties are *)
(* about the same variables in all four.  TuiConnection and TuiEditor are  *)
(* extended.                                                               *)
(*                                                                         *)
(*   web     two browsers that sign in and out by Google                   *)
(*   dev     the test-only sign-in                                         *)
(*   tui     a terminal client: device code, keyring, reuse                *)
(*   rotate  two holders of refresh tokens                                 *)
(*   conn    a terminal's connection to a room                             *)
(*   edit    a terminal's editor                                           *)
(***************************************************************************)
EXTENDS AuthSessions, TuiConnection, TuiEditor

CONSTANTS e1, e2, b1, b2, d1, a1

VARIABLE part

\* What the user types.
MCLetters == <<"a", "b">>

Web == INSTANCE AuthSessions WITH
    Emails <- {e1, e2}, Allowed <- {e1}, Browsers <- {b1, b2}, Devices <- {d1},
    Callers <- {}, SessionTtl <- 1, AccessTtl <- 2,
    RefreshTtl <- 2, CodeTtl <- 1, Skew <- 1, Timeout <- 1,
    DevSignIn <- FALSE, MaxNow <- 1, MaxEra <- 1, MaxUsers <- 2,
    MaxCodes <- 0, MaxSessions <- 3, MaxPairs <- 1

Dev == INSTANCE AuthSessions WITH
    Emails <- {e1, e2}, Allowed <- {e1}, Browsers <- {b1}, Devices <- {d1},
    Callers <- {}, SessionTtl <- 1, AccessTtl <- 2,
    RefreshTtl <- 2, CodeTtl <- 1, Skew <- 1, Timeout <- 1, DevSignIn <- TRUE,
    MaxNow <- 1, MaxEra <- 1, MaxUsers <- 1, MaxCodes <- 0, MaxSessions <- 1,
    MaxPairs <- 0

Device == INSTANCE AuthSessions WITH
    Emails <- {e1}, Allowed <- {e1}, Browsers <- {b1}, Devices <- {d1},
    Callers <- {a1}, SessionTtl <- 2, AccessTtl <- 2,
    RefreshTtl <- 2, CodeTtl <- 2, Skew <- 1, Timeout <- 1,
    DevSignIn <- FALSE, MaxNow <- 2, MaxEra <- 1, MaxUsers <- 1,
    MaxCodes <- 1, MaxSessions <- 1, MaxPairs <- 2

auth == vars
clientVars == <<part, auth, connVars, editVars>>

ClientsInit ==
    /\ part \in {"web", "dev", "tui", "rotate", "conn", "edit"}
    /\ CASE part = "web" -> Web!Init
         [] part = "dev" -> Dev!Init
         [] part = "tui" -> Device!Init
         [] OTHER -> Init
    /\ ConnInit
    /\ EditInit
    /\ part # "edit" => depth = 1

ClientsNext ==
    \/ part = "web" /\ Web!Next /\ UNCHANGED <<part, connVars, editVars>>
    \/ part = "dev" /\ Dev!Next /\ UNCHANGED <<part, connVars, editVars>>
    \/ part = "tui" /\ Device!Next /\ UNCHANGED <<part, connVars, editVars>>
    \/ part = "rotate" /\ Next /\ UNCHANGED <<part, connVars, editVars>>
    \/ part = "conn" /\ ConnNext /\ UNCHANGED <<part, auth, editVars>>
    \/ part = "edit" /\ EditNext /\ UNCHANGED <<part, auth, connVars>>

ClientsSpec == ClientsInit /\ [][ClientsNext]_clientVars /\ ConnFairness

ASSUME Instances ==
    /\ Web!AuthAssumption /\ Dev!AuthAssumption /\ Device!AuthAssumption
    /\ AuthAssumption
    /\ Device!TimeoutWithinSkew
    /\ ConnectionAssumption
    /\ EditAssumption

------------------------------------------------------------------------------
(* Properties: those of the three modules as they stand, and the type       *)
(* invariant of the part that moves.                                       *)

\* The type invariant of every part.
TypesOK ==
    CASE part = "web" -> Web!TypeOK
      [] part = "dev" -> Dev!TypeOK
      [] part = "tui" -> Device!TypeOK
      [] part = "rotate" -> TypeOK
      [] part = "conn" -> ConnTypeOK
      [] part = "edit" -> EditTypeOK
==============================================================================
