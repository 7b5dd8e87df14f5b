----------------------- MODULE MCDatabasesAndAccounts -----------------------
(***************************************************************************)
(* The sandbox of SQL checks, the databases of customers and an account.    *)
(* They share nothing: a behaviour moves one of the three and the others    *)
(* rest as they start, so the run has the states of each and not of their   *)
(* product.  Of the checks and requests r1 and r2 are of one user and may   *)
(* be exchanged, r3 is of another; those of the account are r1 and r2.      *)
(***************************************************************************)
EXTENDS SqlSandbox, CustomerBases, Accounts, TLC

CONSTANTS r1, r2, r3, u1, u2, s1, s2

VARIABLE side   \* the component that moves

TwoOfOneUser == r1 :> u1 @@ r2 :> u1 @@ r3 :> u2

\* Every change of the login names the other server.
OtherServer == [c \in Configs |-> IF c % 2 = 1 THEN s1 ELSE s2]

Symmetry == Permutations({r1, r2}) \union Permutations(Sessions)

\* Bound: the check of the other user has no more than its second block to check.
OneBlockOfTheOther ==
    check[r3].at = "select" \/ check[r3].blocks[1] \notin Unfinished

\* Bound: two requests to the databases at once, of one user or of both; a third may begin.
TwoAtOnce == Cardinality({r \in Requests : ~At(r, "idle")}) <= 2

\* Bound: a third password or a second key of the application, not both.
PasswordsOrKeys == user.hash <= 2 \/ user.keys <= 1

AllInit ==
    /\ side \in {"sandbox", "databases", "account"}
    /\ SandboxInit /\ Init /\ AccountInit

\* Nobody has to ask for a database of a customer again.
AllNext ==
    \/ side = "sandbox" /\ SandboxNext /\ UNCHANGED <<vars, accountVars, side>>
    \/ side = "databases" /\ [Next]_vars /\ UNCHANGED <<sandboxVars, accountVars, side>>
    \/ side = "account" /\ AccountNext /\ UNCHANGED <<sandboxVars, vars, side>>

AllSpec == AllInit /\ [][AllNext]_<<sandboxVars, vars, accountVars, side>>
=============================================================================
