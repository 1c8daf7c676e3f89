------------------------------ MODULE BatchDesk ------------------------------
(***************************************************************************)
(* The administrator's inventory screen: the stock (AdminInventory) and,   *)
(* under it, the production batches with their release                     *)
(* (AdminProductionBatches).  Answers come late, in any order, or not at   *)
(* all, and other administrators release batches too.                      *)
(***************************************************************************)
EXTENDS Naturals, FiniteSets

CONSTANTS
    Batch,
    Unreleased,
    MaxLoads        \* bound: reads of the two lists

ASSUME BatchDeskAssumption ==
    MaxLoads \in Nat \ {0} /\ IsFiniteSet(Batch) /\ Unreleased \notin Nat

VARIABLES
    releasedWith,   \* releasedWith[b]: the idempotency key of b's release, 0 for a key of others
    desk,           \* the batches: their list, the open confirmation, the keys made, the notice
    balances,       \* the balances on the screen
    asked           \* requests of the screen that it has not seen answered

bdVars == <<releasedWith, desk, balances, asked>>

Released == {b \in Batch : releasedWith[b] # Unreleased}

NoReply == [status |-> "none"]
Read(list, load) == [op |-> list, load |-> load, reply |-> NoReply]

BdInit ==
    /\ releasedWith = [b \in Batch |-> Unreleased]
    /\ desk = [status |-> "loading", load |-> 1, released |-> {}, selected |-> Unreleased,
               pending |-> FALSE, key |-> [b \in Batch |-> 0], told |-> {}]
    /\ balances = [status |-> "loading", load |-> 1, includes |-> {}]
    /\ asked = {Read("batches", 1), Read("stock", 1)}

-----------------------------------------------------------------------------
(* The service *)

ReleasedElsewhere(b) ==
    /\ releasedWith[b] = Unreleased
    /\ releasedWith' = [releasedWith EXCEPT ![b] = 0]
    /\ UNCHANGED <<desk, balances, asked>>

Reply(c, r) == asked' = (asked \ {c}) \union {[c EXCEPT !.reply = r]}

ServeRead(c) ==
    /\ c.op # "release" /\ c.reply = NoReply
    /\ Reply(c, [status |-> "ok", released |-> Released])
    /\ UNCHANGED <<releasedWith, desk, balances>>

\* releaseBatch: a released batch is DONE whatever the key; the key is unique.
ServeRelease(c) ==
    LET b == c.batch
        taken == \E o \in Batch \ {b} : releasedWith[o] = c.key
    IN  /\ c.op = "release" /\ c.reply = NoReply
        /\ releasedWith' = IF b \in Released \/ taken THEN releasedWith ELSE [releasedWith EXCEPT ![b] = c.key]
        /\ Reply(c, [status |-> IF b \notin Released /\ taken THEN "CONFLICT" ELSE "ok"])
        /\ UNCHANGED <<desk, balances>>

\* The request or its answer is lost, or the caller's session has ended.
RequestFails(c) ==
    /\ c.reply.status \in {"none", "ok"}
    /\ Reply(c, [status |-> "error"])
    /\ UNCHANGED <<releasedWith, desk, balances>>

-----------------------------------------------------------------------------
(* The stock *)

Reloaded == [balances EXCEPT !.status = "loading", !.load = @ + 1]
StockRead == Read("stock", balances.load + 1)

\* Refresh, another page, or the retry of an error
RefreshStock ==
    /\ balances.load + desk.load < MaxLoads
    /\ balances' = Reloaded /\ asked' = asked \union {StockRead}
    /\ UNCHANGED <<releasedWith, desk>>

\* The effect's `active`: only the read of the present page and reload token is shown.
ActiveLoad(c, load) == c.load = load

StockAnswered(c) ==
    /\ c.op = "stock" /\ c.reply # NoReply
    /\ asked' = asked \ {c}
    /\ balances' = IF ~ActiveLoad(c, balances.load) THEN balances
                   ELSE IF c.reply.status = "ok" THEN [balances EXCEPT !.status = "ready", !.includes = c.reply.released]
                   ELSE [balances EXCEPT !.status = "error"]
    /\ UNCHANGED <<releasedWith, desk>>

-----------------------------------------------------------------------------
(* The batches *)

RefreshBatches ==
    /\ ~desk.pending /\ desk.status # "loading" /\ balances.load + desk.load < MaxLoads
    /\ desk' = [desk EXCEPT !.status = "loading", !.load = @ + 1, !.selected = Unreleased]
    /\ asked' = asked \union {Read("batches", desk.load + 1)}
    /\ UNCHANGED <<releasedWith, balances>>

BatchesAnswered(c) ==
    /\ c.op = "batches" /\ c.reply # NoReply
    /\ asked' = asked \ {c}
    /\ desk' = IF ~ActiveLoad(c, desk.load) THEN desk
               ELSE IF c.reply.status = "ok" THEN [desk EXCEPT !.status = "ready", !.released = c.reply.released]
               ELSE [desk EXCEPT !.status = "error"]
    /\ UNCHANGED <<releasedWith, balances>>

\* Review release, or Cancel for no batch
SelectBatch(b) ==
    /\ desk.status = "ready" /\ ~desk.pending /\ desk.selected # b
    /\ b # Unreleased => b \notin desk.released
    /\ desk' = [desk EXCEPT !.selected = b, !.told = IF b = Unreleased THEN @ ELSE {}]
    /\ UNCHANGED <<releasedWith, balances, asked>>

\* Mutant: one key for everything released from this screen.
KeyOfTheScreen(b) == 1

\* releaseKeys: the key of a batch is made once and sent with every attempt.
KeyOf(b) == IF desk.key[b] # 0 THEN desk.key[b] ELSE Cardinality({o \in Batch : desk.key[o] # 0}) + 1

ConfirmRelease ==
    LET b == desk.selected IN
    /\ b # Unreleased /\ desk.status = "ready" /\ ~desk.pending
    /\ desk' = [desk EXCEPT !.pending = TRUE, !.key[b] = KeyOf(b), !.told = {}]
    /\ asked' = asked \union {[op |-> "release", batch |-> b, key |-> KeyOf(b), reply |-> NoReply]}
    /\ UNCHANGED <<releasedWith, balances>>

\* A confirmed release marks the row, tells the administrator, and reads the stock again.
ReleaseAnswered(c) ==
    /\ c.op = "release" /\ c.reply # NoReply
    /\ IF c.reply.status = "ok"
       THEN /\ balances.load + desk.load < MaxLoads
            /\ desk' = [desk EXCEPT !.pending = FALSE, !.selected = Unreleased,
                                    !.released = @ \union {c.batch}, !.told = {c.batch}]
            /\ balances' = Reloaded /\ asked' = (asked \ {c}) \union {StockRead}
       ELSE /\ desk' = [desk EXCEPT !.pending = FALSE] /\ asked' = asked \ {c}
            /\ UNCHANGED balances
    /\ UNCHANGED releasedWith

BdNext ==
    \/ RefreshStock \/ RefreshBatches \/ ConfirmRelease
    \/ \E b \in Batch : ReleasedElsewhere(b)
    \/ \E b \in Batch \union {Unreleased} : SelectBatch(b)
    \/ \E c \in asked :
            \/ ServeRead(c) \/ ServeRelease(c) \/ RequestFails(c)
            \/ StockAnswered(c) \/ BatchesAnswered(c) \/ ReleaseAnswered(c)

BdSpec == BdInit /\ [][BdNext]_bdVars

-----------------------------------------------------------------------------
\* No release from the screen is refused, through lost answers, retries and
\* other administrators' releases of the same batch.
ReleaseNeverRefused == \A c \in asked : c.reply.status # "CONFLICT"
=============================================================================
