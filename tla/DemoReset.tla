------------------------------ MODULE DemoReset ------------------------------
(***************************************************************************)
(* The operator's commands for the demonstration database: db:seed adds    *)
(* what is missing, demo:reset rebuilds everything and proves it by        *)
(* logging in, demo:check compares without writing.  People may be using   *)
(* the site meanwhile, and the identity provider may fail.                 *)
(***************************************************************************)
EXTENDS Naturals, FiniteSets

Account == {"customer@example.test", "admin@example.test"}

\* demoPermissions and the counts that verifyDemoState expects
DemoPermissions == {"catalogue:manage", "inventory:manage", "promotions:manage", "reporting:read", "reviews:moderate"}
ExpectedPermissions == 5

\* The permissions that seedCanonicalRecords writes and grants to the demo role
SeededPermissions == DemoPermissions \union {"orders:read"}

\* The schema's foreign keys to the administrators and permissions
References == {<<"IdentitySession", "AdminAccount">>, <<"RolePermission", "Permission">>,
               <<"AdminPasskeyCredential", "AdminAccount">>, <<"WebAuthnChallenge", "AdminAccount">>}

\* Of the tables named here, those of applicationTables
ApplicationTables == {"IdentitySession", "RolePermission", "Permission", "AdminAccount"}

VARIABLES
    rows,   \* the database
    reset   \* the command that is running

drVars == <<rows, reset>>

\* bound[a]: the provider identity of a; sessions: accounts logged in;
\* evidence: rows that the fixtures do not have, or fixtures changed or missing.
Empty == [permissions |-> {}, granted |-> {}, bound |-> [a \in Account |-> FALSE], sessions |-> {}, evidence |-> TRUE]

NoCommand == [pc |-> "idle", disturbed |-> FALSE]

DrInit ==
    /\ rows = Empty
    /\ reset = NoCommand

Goto(pc) == reset' = [reset EXCEPT !.pc = pc]

-----------------------------------------------------------------------------
\* seedCanonicalRecords: insert what is missing; what exists keeps its values.
Seeded(r, emptied) ==
    [r EXCEPT !.permissions = @ \union SeededPermissions, !.granted = @ \union SeededPermissions,
              !.evidence = @ /\ ~emptied]

\* db:seed.  Rows that exist may differ from the fixtures.
Seed(wasEmpty) ==
    /\ reset.pc = "idle" /\ wasEmpty => rows = Empty
    /\ rows' = Seeded(rows, wasEmpty)
    /\ UNCHANGED reset

\* The site is used: somebody logs in, orders, asks the assistant.
SiteUsed(a) ==
    /\ rows' = [rows EXCEPT !.evidence = TRUE, !.sessions = IF rows.bound[a] THEN @ \union {a} ELSE @]
    /\ reset' = [reset EXCEPT !.disturbed = reset.pc # "idle"]

-----------------------------------------------------------------------------
(* demo:reset *)

\* demoTargetFromEnvironment and assertDevelopmentDatabase: nothing is touched
\* unless the environment is isolated and its targets match.
StartReset(isolated) ==
    /\ reset.pc = "idle"
    /\ reset' = [pc |-> IF isolated THEN "provision" ELSE "refused", disturbed |-> ~isolated]
    /\ UNCHANGED rows

\* reconcileDemoAuthUser for each account: found and updated, or created.
Provision(failed) ==
    /\ reset.pc = "provision"
    /\ IF failed THEN reset' = [pc |-> "failed", disturbed |-> TRUE] ELSE Goto("rebuild")
    /\ UNCHANGED rows

\* PostgreSQL refuses to truncate a table that a table outside the list refers
\* to, empty or not, unless CASCADE is given.
TruncateRefused == \E r \in References : r[2] \in ApplicationTables /\ r[1] \notin ApplicationTables

\* resetApplicationData: one transaction
Rebuild ==
    /\ reset.pc = "rebuild"
    /\ IF TruncateRefused
       THEN Goto("failed") /\ UNCHANGED rows
       ELSE /\ rows' = [Seeded(Empty, TRUE) EXCEPT !.bound = [a \in Account |-> TRUE]]
            /\ Goto("verify")

\* verifyDemoState
Canonical ==
    /\ Cardinality(rows.permissions) = ExpectedPermissions
    /\ Cardinality(rows.granted) = ExpectedPermissions
    /\ rows.granted = DemoPermissions
    /\ \A a \in Account : rows.bound[a]
    /\ rows.sessions = {} /\ ~rows.evidence

Verify(at, next) ==
    /\ reset.pc = at
    /\ Goto(IF Canonical THEN next ELSE "failed")
    /\ UNCHANGED rows

\* validateDemoAccounts: both accounts log in and the administrator's permissions
\* are compared; every session ends, whatever came of it.
ValidateAccounts(failed) ==
    /\ reset.pc = "validate"
    /\ rows' = [rows EXCEPT !.sessions = {}]
    /\ reset' = [pc |-> IF ~failed /\ rows.granted = DemoPermissions THEN "verify again" ELSE "failed",
                 disturbed |-> reset.disturbed \/ failed]

\* demo:check
Check ==
    /\ reset.pc = "idle"
    /\ reset' = [pc |-> IF Canonical THEN "passed" ELSE "differs", disturbed |-> FALSE]
    /\ UNCHANGED rows

Finish ==
    /\ reset.pc \in {"refused", "failed", "passed", "differs"}
    /\ reset' = NoCommand
    /\ UNCHANGED rows

DrNext ==
    \/ Rebuild \/ Check \/ Finish
    \/ Verify("verify", "validate") \/ Verify("verify again", "passed")
    \/ \E a \in Account : SiteUsed(a)
    \/ \E b \in BOOLEAN : Seed(b) \/ StartReset(b) \/ Provision(b) \/ ValidateAccounts(b)

DrSpec == DrInit /\ [][DrNext]_drVars

-----------------------------------------------------------------------------
\* demo:reset "reseeds, verifies and validates login/RBAC"
\* (docs/srs/development-environment.md:143): a reset in an isolated environment
\* that nobody disturbs, with a provider that answers, passes.
UndisturbedResetPasses == reset.pc = "failed" => reset.disturbed
=============================================================================
