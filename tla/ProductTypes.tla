---------------------------- MODULE ProductTypes ----------------------------
(***************************************************************************)
(* The products a company sells (product-types.repository.ts).  The first  *)
(* read on a company without products writes the default list; a product   *)
(* is removed by a date, and comes back under its code when it is created  *)
(* again.                                                                  *)
(*                                                                         *)
(* Every request writes in its last statement only, so that write and its  *)
(* commit are one step; what it read before may be old by then.            *)
(***************************************************************************)
EXTENDS Integers, FiniteSets

CONSTANTS
  Codes, Defaults,  \* the codes there are, those of the default list
  Prices,           \* 0 stands for a default price
  Requests,         \* the requests, each made at most once
  None

VARIABLES
  product,  \* code -> price and whether it is listed, None where no row is
  req,      \* request -> what it does and has read
  removed   \* whether a product was ever removed

vars == <<product, req, removed>>

Row(price, listed) == [price |-> price, listed |-> listed]
Listed == {c \in Codes : product[c] # None /\ product[c].listed}
Rows == {c \in Codes : product[c] # None}
Step(r, pc, e) == req' = [req EXCEPT ![r] = [e EXCEPT !.pc = pc]]

Init ==
  /\ product = [c \in Codes |-> None]
  /\ req = [r \in Requests |-> [pc |-> "new", code |-> None, price |-> 0,
                                clash |-> None, answer |-> None, got |-> {}]]
  /\ removed = FALSE

-----------------------------------------------------------------------------
(* list: the products, and on none at all the seed.  A code another reader *)
(* wrote first is skipped, and only the rows inserted are returned.        *)
StartList(r) ==
  /\ req[r].pc = "new"
  /\ IF Listed # {} THEN Step(r, "done", [req[r] EXCEPT !.answer = "list", !.got = Listed])
     ELSE Step(r, "any", req[r])
  /\ UNCHANGED <<product, removed>>

FindAny(r) ==
  /\ req[r].pc = "any"
  /\ IF Rows # {} THEN Step(r, "done", [req[r] EXCEPT !.answer = "list"])
     ELSE Step(r, "seed", req[r])
  /\ UNCHANGED <<product, removed>>

\* Mutant: the default list updates the products it meets.
ConflictUpdates(c) == IF c \in Defaults THEN Row(0, TRUE) ELSE product[c]
OnConflict(c) ==
  IF product[c] = None /\ c \in Defaults THEN Row(0, TRUE) ELSE product[c]

Seed(r) ==
  /\ req[r].pc = "seed"
  /\ product' = [c \in Codes |-> OnConflict(c)]
  /\ Step(r, "done", [req[r] EXCEPT !.answer = "list", !.got = Defaults \ Rows])
  /\ UNCHANGED removed

-----------------------------------------------------------------------------
(* create: the code is looked up, then inserted or brought back.           *)
StartCreate(r) ==
  /\ req[r].pc = "new"
  /\ \E c \in Codes, p \in Prices :
       LET e == [req[r] EXCEPT !.code = c, !.price = p, !.clash = product[c]]
       IN IF c \in Listed THEN Step(r, "done", [e EXCEPT !.answer = "conflict"])
          ELSE Step(r, "create", e)
  /\ UNCHANGED <<product, removed>>

EndCreate(r) ==
  LET c == req[r].code
  IN /\ req[r].pc = "create"
     /\ IF req[r].clash = None /\ product[c] # None
        THEN Step(r, "done", [req[r] EXCEPT !.answer = "failed"]) /\ UNCHANGED product
        ELSE /\ product' = [product EXCEPT ![c] = Row(req[r].price, TRUE)]
             /\ Step(r, "done", [req[r] EXCEPT !.answer = "created"])
     /\ UNCHANGED removed

(* The one statement of an edit or a removal finds only a listed product.  *)
Editable(c) == product[c] # None /\ product[c].listed

Update(r) ==
  /\ req[r].pc = "new"
  /\ \E c \in Rows, p \in Prices :
       IF Editable(c)
       THEN /\ product' = [product EXCEPT ![c] = [@ EXCEPT !.price = p]]
            /\ Step(r, "done", [req[r] EXCEPT !.code = c, !.answer = "updated"])
       ELSE /\ Step(r, "done", [req[r] EXCEPT !.answer = "missing"])
            /\ UNCHANGED product
  /\ UNCHANGED removed

Remove(r) ==
  /\ req[r].pc = "new"
  /\ \E c \in Rows :
       IF Editable(c)
       THEN /\ product' = [product EXCEPT ![c] = [@ EXCEPT !.listed = FALSE]]
            /\ Step(r, "done", [req[r] EXCEPT !.code = c, !.answer = "removed"])
            /\ removed' = TRUE
       ELSE /\ Step(r, "done", [req[r] EXCEPT !.answer = "missing"])
            /\ UNCHANGED <<product, removed>>

Next == \E r \in Requests :
  \/ StartList(r) \/ FindAny(r) \/ Seed(r)
  \/ StartCreate(r) \/ EndCreate(r) \/ Update(r) \/ Remove(r)

Spec == Init /\ [][Next]_vars

-----------------------------------------------------------------------------
(* Properties                                                              *)

TypeOK ==
  /\ \A c \in Codes : product[c] # None => product[c].price \in Prices \cup {0}
  /\ \A r \in Requests :
       /\ req[r].pc \in {"new", "any", "seed", "create", "done"}
       /\ req[r].answer \in {None, "conflict", "failed", "created", "updated", "missing",
                             "removed", "list"}

Did(r, answer) == req[r].pc # "done" /\ req'[r].pc = "done" /\ req'[r].answer = answer

(* A default list written by a reader that saw none neither resets a price *)
(* nor brings back a product that was removed since: only somebody who     *)
(* says so changes a product, and a removed one stays as it was until it   *)
(* is created again (list, update).                                        *)
LeavesSettings ==
  \A c \in Rows :
    product'[c] # product[c] =>
      IF product[c].listed
      THEN \E r \in Requests :
             req'[r].code = c /\ (Did(r, "updated") \/ Did(r, "removed") \/ Did(r, "created"))
      ELSE \E r \in Requests : req'[r].code = c /\ Did(r, "created")

(* No list is empty before a product has been removed (list).              *)
NeverNothingToSell ==
  \A r \in Requests : req[r].answer = "list" /\ req[r].got = {} => removed

(* A product is created only where none of its code is listed (create).    *)
CreatedWhereNoneIs ==
  [][\A r \in Requests : Did(r, "created") => req[r].code \notin Listed]_vars
=============================================================================
