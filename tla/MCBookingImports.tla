-------------------------- MODULE MCBookingImports --------------------------
(* Model-checking instance of BookingImports.  Hashes of different kinds of *)
(* import never meet, so a behaviour is of one of four mixes, chosen in    *)
(* its initial state: files of two rows, one of them rejected or repeated, *)
(* "fresh" for a ledger that is empty and loses nothing, "files" for one   *)
(* that has an earlier row and may lose any; a job of orders, committed by *)
(* two requests; cash files that overlap.                                  *)
EXTENDS BookingImports

CONSTANTS rent, sale    \* two row contents

VARIABLE mix

Row(l, bad) == [line |-> l, bad |-> bad]
Order(l, free) == [line |-> l, bad |-> FALSE, free |-> free]

MixedFiles == {<<Row(rent, FALSE), Row(sale, FALSE)>>,
               <<Row(sale, TRUE), Row(sale, FALSE)>>,
               <<Row(rent, FALSE), Row(rent, FALSE)>>}

FetchedFiles == {<<Order(rent, FALSE), Order(sale, FALSE)>>,
                 <<Order(sale, FALSE)>>,
                 <<Order(rent, TRUE), Order(sale, FALSE)>>,
                 <<Order(rent, FALSE), [line |-> sale, bad |-> TRUE, free |-> FALSE]>>}

CashRows == {<<Row(rent, FALSE), Row(sale, FALSE)>>,
             <<Row(rent, FALSE)>>,
             <<Row(rent, FALSE), Row(sale, TRUE)>>}

MCInit ==
    /\ Init
    /\ \/ mix = "fresh" /\ ledger = {}
       \/ mix = "files" /\ ledger # {}
       \/ mix \in {"orders", "cash"}

MCNext ==
    /\ UNCHANGED mix
    /\ \/ mix \in {"fresh", "files"} /\ LedgerNext
       \/ mix = "orders" /\ OrdersNext
       \/ mix = "cash" /\ CashNext
       \/ mix = "fresh" /\ \E w \in Workers : Die(w)
       \/ mix # "fresh" /\ Interrupt

MCvars == <<vars, mix>>
MCSpec ==
    MCInit /\ [][MCNext]_MCvars
    /\ \A w \in Workers : WF_MCvars(Proceed(w) /\ UNCHANGED mix)
=============================================================================
