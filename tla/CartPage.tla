------------------------------- MODULE CartPage -------------------------------
(***************************************************************************)
(* The cart page (CartPage with CartView) in several tabs of one customer, *)
(* over the cart service: a tab sends one change at a time, named after    *)
(* what it shows, and reads the cart again when the service refuses it.    *)
(***************************************************************************)
EXTENDS Naturals

CONSTANTS
    Tab, Row,           \* tabs; items that the cart may hold
    Blank,
    MaxQuantityOfRow,   \* MAX_QUANTITY of the cart service
    MaxCartRevision     \* bound: revisions of the cart

ASSUME CartPageAssumption == MaxQuantityOfRow \in Nat \ {0} /\ MaxCartRevision \in Nat \ {0}

VARIABLES
    held,   \* the cart that the service holds: revision, and quantity of each row, 0 for none
    tab,    \* tab[t]: the cart it shows, or Blank, and the step of its request
    sent    \* sent[t]: the change it sent last, or Blank

cgVars == <<held, tab, sent>>

CgInit ==
    /\ held = [revision |-> 1, of |-> [r \in Row |-> 0]]
    /\ tab = [t \in Tab |-> [cart |-> Blank, at |-> "loading"]]
    /\ sent = [t \in Tab |-> Blank]

Cart(revision, quantities) == [revision |-> revision, of |-> quantities]
Step(t, at) == tab' = [tab EXCEPT ![t] = [@ EXCEPT !.at = at]]

-----------------------------------------------------------------------------
\* The page loads, or is loaded again, whatever was under way.
LoadTab(t) ==
    /\ tab' = [tab EXCEPT ![t] = [cart |-> Blank, at |-> "loading"]]
    /\ sent' = [sent EXCEPT ![t] = Blank]
    /\ UNCHANGED held

\* The product page adds an item; it opens the cart afresh.
AddFromProduct(r) ==
    /\ held.of[r] < MaxQuantityOfRow /\ held.revision < MaxCartRevision
    /\ held' = Cart(held.revision + 1, [held.of EXCEPT ![r] = @ + 1])
    /\ UNCHANGED <<tab, sent>>

\* + and -, Remove, and - of the last piece, which removes: the buttons are
\* disabled while a change or the reading after a conflict is under way.
ClickRow(t, r, quantity) ==
    LET shown == tab[t].cart IN
    /\ tab[t].at = "idle" /\ shown # Blank /\ shown.of[r] > 0
    /\ quantity \in {shown.of[r] + 1, shown.of[r] - 1, 0}
    /\ sent' = [sent EXCEPT ![t] = [row |-> r, quantity |-> quantity, revision |-> shown.revision,
                                    saw |-> shown.of[r]]]
    /\ Step(t, "sent")
    /\ UNCHANGED held

\* updateQuantity and removeItem: the cart's revision must be the one shown.
CartClaims(c) == c.revision = held.revision

ServeChange(t) ==
    LET c == sent[t] IN
    /\ tab[t].at = "sent"
    /\ IF c.quantity > MaxQuantityOfRow THEN Step(t, "refused") /\ UNCHANGED held
       ELSE IF ~CartClaims(c) THEN Step(t, "conflict") /\ UNCHANGED held
       ELSE /\ held.revision < MaxCartRevision
            /\ held' = Cart(held.revision + 1, [held.of EXCEPT ![c.row] = c.quantity])
            /\ Step(t, "changed")
    /\ UNCHANGED sent

\* The request is lost before it is served or its answer after it.
ChangeLost(t) ==
    /\ tab[t].at \in {"sent", "changed", "conflict"}
    /\ Step(t, "refused")
    /\ UNCHANGED <<held, sent>>

\* Mutant: after a conflict the page sends the same quantity again.
SendsAgain(t) ==
    /\ tab' = [tab EXCEPT ![t] = [cart |-> held, at |-> "sent"]]
    /\ sent' = [sent EXCEPT ![t].revision = held.revision]

\* After a conflict the page shows the cart and leaves the click to the customer.
ShowsCart(t) ==
    /\ tab' = [tab EXCEPT ![t] = [cart |-> held, at |-> "idle"]]
    /\ sent' = [sent EXCEPT ![t] = Blank]

\* refreshCart, when it answers or fails
CartRead(t, failed) ==
    /\ tab[t].at = "conflict"
    /\ IF failed THEN Step(t, "idle") /\ sent' = [sent EXCEPT ![t] = Blank] ELSE ShowsCart(t)
    /\ UNCHANGED held

\* The answer of a change is the cart read after it, others' changes included.
ChangeAnswered(t) ==
    /\ tab[t].at \in {"changed", "refused"}
    /\ tab' = [tab EXCEPT ![t] = [cart |-> IF tab[t].at = "changed" THEN held ELSE @.cart, at |-> "idle"]]
    /\ sent' = [sent EXCEPT ![t] = Blank]
    /\ UNCHANGED held

\* The page's first read; after a failure only loading the page again helps.
TabLoaded(t, failed) ==
    /\ tab[t].at = "loading"
    /\ tab' = [tab EXCEPT ![t] = [cart |-> IF failed THEN Blank ELSE held, at |-> "idle"]]
    /\ UNCHANGED <<held, sent>>

CgNext ==
    \/ \E r \in Row : AddFromProduct(r)
    \/ \E t \in Tab :
            \/ LoadTab(t) \/ ServeChange(t) \/ ChangeLost(t) \/ ChangeAnswered(t)
            \/ \E failed \in BOOLEAN : CartRead(t, failed) \/ TabLoaded(t, failed)
            \/ \E r \in Row, quantity \in 0 .. MaxQuantityOfRow + 1 : ClickRow(t, r, quantity)

CgSpec == CgInit /\ [][CgNext]_cgVars

-----------------------------------------------------------------------------
\* A click changes a row by what the customer saw: + adds one piece and - takes
\* one, never more, whatever other tabs did and however often it is retried.
ClickMeansWhatItShowed ==
    [][\A t \in Tab : tab[t].at = "sent" /\ tab'[t].at = "changed" =>
            held.of[sent[t].row] = sent[t].saw]_cgVars
=============================================================================
