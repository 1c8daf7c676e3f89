----------------------------- MODULE Population -----------------------------
(***************************************************************************)
(* The scripts that install the approved catalogue and its quiz.  A run is *)
(* a process; it reads the manifest of its checkout of the repository, and *)
(* writes in one transaction while administrators edit and customers buy.  *)
(* A row that a run wrote is locked until it commits.  A product has one   *)
(* variant here.                                                           *)
(***************************************************************************)
EXTENDS Server, Integers, FiniteSets

CONSTANTS
    Product,        \* the products of the manifest, by identifier
    Demo,           \* the synthetic demo product, retired by a run
    Note,           \* managed relations: notes, suitability, collections, images
    Missing,
    MaxEditions,    \* bound: editions of the manifest
    MaxSales        \* bound: units sold of a product

ASSUME PopulationAssumption ==
    Demo \notin Product /\ {MaxEditions, MaxSales} \subseteq Nat /\ Missing \notin Nat

VARIABLES
    manifest,   \* the manifest as the repository has it
    catalog,    \* catalog[f]: the perfume's row with its relations, or Missing
    balance,    \* balance[f]: units on hand, or Missing
    movements,  \* movements[f]: what has been booked: the opening stock, or Missing, and sales
    quiz,       \* the edition of the active quiz, or Missing
    run         \* run[p]: the run that p makes; of no manifest when it makes none

pnRows == <<catalog, balance, movements, quiz>>
pnVars == <<manifest, pnRows, run>>

PnGoto(p, r) == run' = [run EXCEPT ![p] = r]
NoRun == [of |-> Missing, rows |-> <<>>, checked |-> {}, quiz |-> Missing]
Writing(g) == \E p \in Process : g \in DOMAIN run[p].rows

Availability == {"AVAILABLE", "OUT_OF_STOCK", "UNAVAILABLE"}
InstalledRow ==
    [slug : Product \union {Demo}, active : BOOLEAN, edition : Nat, notes : SUBSET Note, availability : Availability]

ASSUME MissingIsNoPerfume == Missing \notin InstalledRow

Entries == [notes : SUBSET Note, availability : Availability, stock : 0 .. 2]

PnInit ==
    /\ \E entry \in [Product -> [notes : {Note}, availability : {"AVAILABLE", "OUT_OF_STOCK"}, stock : {0, 1}]] :
            manifest = [edition |-> 1, entry |-> entry]
    /\ catalog = [g \in Product \union {Demo} |-> IF g # Demo THEN Missing ELSE
                    [slug |-> Demo, active |-> TRUE, edition |-> 0, notes |-> {}, availability |-> "AVAILABLE"]]
    /\ balance = [f \in Product |-> Missing]
    /\ movements = [f \in Product |-> [opening |-> Missing, sold |-> 0]]
    /\ quiz = Missing
    /\ run = [p \in Process |-> NoRun]

-----------------------------------------------------------------------------
(* What else changes the store *)

\* The manifest is edited in the repository.
ReviseManifest(f, e) ==
    /\ manifest.edition < MaxEditions
    /\ manifest' = [edition |-> manifest.edition + 1, entry |-> [manifest.entry EXCEPT ![f] = e]]
    /\ UNCHANGED <<pnRows, run>>

\* An administrator saves or archives a perfume; the slug stays unique.
AdministratorSaves(g, slug, notes, active) ==
    /\ catalog[g] # Missing /\ catalog[g].active /\ ~Writing(g) /\ ~Writing(slug)
    /\ \A h \in DOMAIN catalog \ {g} : catalog[h] # Missing => catalog[h].slug # slug
    /\ catalog' = [catalog EXCEPT ![g] = [@ EXCEPT !.slug = slug, !.notes = notes, !.active = active, !.edition = 0]]
    /\ UNCHANGED <<manifest, balance, movements, quiz, run>>

Sell(f) ==
    /\ balance[f] # Missing /\ balance[f] > 0 /\ movements[f].sold < MaxSales
    /\ balance' = [balance EXCEPT ![f] = @ - 1]
    /\ movements' = [movements EXCEPT ![f].sold = @ + 1]
    /\ UNCHANGED <<manifest, catalog, quiz, run>>

-----------------------------------------------------------------------------
(* A run *)

\* validateApprovedCatalogueManifest, as far as an entry may be wrong here
ValidManifest(m) == \A f \in Product :
    /\ m.entry[f].availability = "AVAILABLE" => m.entry[f].stock > 0
    /\ m.entry[f].availability = "OUT_OF_STOCK" => m.entry[f].stock = 0

Validate(p) ==
    /\ run[p] = NoRun /\ ValidManifest(manifest)
    /\ PnGoto(p, [NoRun EXCEPT !.of = manifest])
    /\ UNCHANGED <<manifest, pnRows>>

\* The vocabulary is written first, so another run waits here.
Holds(p) == \A q \in Process \ {p} : run[q].checked = {}

\* The catalogue with the rows of a run written over it.
Over(rows, base) == [g \in DOMAIN rows \union DOMAIN base |-> IF g \in DOMAIN rows THEN rows[g] ELSE base[g]]

Seen(p) == Over(run[p].rows, catalog)

\* assertCatalogueIdentity: the identifier has its slug, and the slug its identifier.
SameIdentity(seen, f) == \A g \in DOMAIN seen : seen[g] # Missing => (g = f <=> seen[g].slug = f)

\* assertManagedProductRelations: no relation that is not declared.
NoDrift(seen, f, e) == seen[f] = Missing \/ seen[f].notes \subseteq e.notes

CheckProduct(p, f) ==
    /\ run[p] # NoRun /\ f \notin run[p].checked /\ run[p].checked = DOMAIN run[p].rows /\ Holds(p)
    /\ IF SameIdentity(Seen(p), f) /\ NoDrift(Seen(p), f, run[p].of.entry[f])
       THEN PnGoto(p, [run[p] EXCEPT !.checked = @ \union {f}])
       ELSE PnGoto(p, NoRun)
    /\ UNCHANGED <<manifest, pnRows>>

\* The opening movement is there already, and is the declared one.
MovementFits(f, e) == e.stock = 0 \/ movements[f].opening \in {Missing, e.stock}

RowFor(p, f) ==
    LET e == run[p].of.entry[f]
        kept == IF Seen(p)[f] = Missing THEN {} ELSE Seen(p)[f].notes
    IN  [slug |-> f, active |-> TRUE, edition |-> run[p].of.edition, notes |-> kept \union e.notes,
         availability |-> e.availability]

\* The product and its variant; the unique slug and the movement may refuse them.
WriteProduct(p, f) ==
    /\ run[p] # NoRun /\ f \in run[p].checked \ DOMAIN run[p].rows
    /\ IF \/ ~MovementFits(f, run[p].of.entry[f])
          \/ \E g \in DOMAIN catalog \ {f} : catalog[g] # Missing /\ catalog[g].slug = f
       THEN PnGoto(p, NoRun)
       ELSE PnGoto(p, [run[p] EXCEPT !.rows = Over([g \in {f} |-> RowFor(p, f)], @)])
    /\ UNCHANGED <<manifest, pnRows>>

Answerable(seen) == \E g \in DOMAIN seen : seen[g] # Missing /\ seen[g].active /\ seen[g].availability # "UNAVAILABLE"

\* populateApprovedQuizInTransaction: every option needs a product that may be recommended.
WriteQuiz(p) ==
    /\ run[p] # NoRun /\ DOMAIN run[p].rows = Product /\ run[p].quiz = Missing
    /\ IF Answerable(Seen(p)) THEN PnGoto(p, [run[p] EXCEPT !.quiz = run[p].of.edition]) ELSE PnGoto(p, NoRun)
    /\ UNCHANGED <<manifest, pnRows>>

\* Mutant: the declared stock is written to a balance that exists.
Restocked(f, e) == e.stock

\* upsert with an empty update: a balance that exists is left alone.
OpenedOrKept(f, e) == IF balance[f] = Missing THEN e.stock ELSE balance[f]

WithQuiz(p) == run[p].quiz

\* archiveSyntheticDemoProducts, and the commit of it all
CommitRun(p) ==
    /\ run[p] # NoRun /\ run[p].quiz # Missing
    /\ catalog' = [Seen(p) EXCEPT ![Demo].active = FALSE]
    /\ balance' = [f \in Product |-> OpenedOrKept(f, run[p].of.entry[f])]
    /\ movements' = [f \in Product |->
            LET e == run[p].of.entry[f]
            IN  IF e.stock = 0 THEN movements[f] ELSE [movements[f] EXCEPT !.opening = e.stock]]
    /\ quiz' = WithQuiz(p)
    /\ PnGoto(p, NoRun)
    /\ UNCHANGED manifest

\* The process ends or the transaction times out: nothing of it stays.
RollBack(p) == run[p] # NoRun /\ PnGoto(p, NoRun) /\ UNCHANGED <<manifest, pnRows>>

PnNext ==
    \/ \E f \in Product : Sell(f) \/ \E e \in Entries : ReviseManifest(f, e)
    \/ \E g, slug \in Product \union {Demo}, notes \in SUBSET Note, active \in BOOLEAN :
            AdministratorSaves(g, slug, notes, active)
    \/ \E p \in Process :
            \/ Validate(p) \/ WriteQuiz(p) \/ CommitRun(p) \/ RollBack(p)
            \/ \E f \in Product : CheckProduct(p, f) \/ WriteProduct(p, f)

PnSpec == PnInit /\ [][PnNext]_pnVars

-----------------------------------------------------------------------------
\* Units come on hand once, with the opening movement of the run that installs
\* the product: later runs neither give back what was sold nor raise what is
\* there, whatever editions declare in between.  A product that was installed
\* without stock has none, also when a later edition declares some: the next run
\* books that opening movement, but it leaves the balance alone.
StockIsOpenedOnce ==
    \A f \in Product : balance[f] # Missing =>
        \/ movements[f].opening # Missing /\ balance[f] = movements[f].opening - movements[f].sold
        \/ balance[f] = 0 /\ movements[f].sold = 0
=============================================================================
