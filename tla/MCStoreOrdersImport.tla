------------------------ MODULE MCStoreOrdersImport ------------------------
(* Model-checking instances of StoreOrdersImport: a few CSV lines over two  *)
(* months and the files made of them.                                       *)
EXTENDS StoreOrdersImport, TLC

CONSTANTS
    order1, order2, order3, fee1,   \* lines
    jan, feb,                       \* months
    direct, nickname,               \* SKU labels: a skuCode, and an alias
    s1                              \* the SKU of both

Line(module, month, label, quantity) ==
    [module |-> module, month |-> month, label |-> label, quantity |-> quantity]

\* order1 is an order of January and order2 of February, order3 has no readable
\* date, and fee1 is a January charge of a store-operation file.
MCLines == {order1, order2, order3, fee1}
MCLineInfo ==
    order1 :> Line("store-orders", jan, direct, 1) @@
    order2 :> Line("store-orders", feb, nickname, 2) @@
    order3 :> Line("store-orders", NoMonth, direct, 1) @@
    fee1 :> Line("store-operation", jan, NoLabel, 0)

MCDirectSku == direct :> s1

OneOrder == {<<order1>>}
NicknameOrder == {<<order2>>}
MixedFiles == {<<order1, order1>>, <<order2, order3>>, <<fee1>>}

JobSymmetry == Permutations(Jobs)
JobWorkerSymmetry == Permutations(Jobs) \cup Permutations(Workers)
=============================================================================
