----------------------------- MODULE MCPayments -----------------------------
(* Instances of Payments for TLC. *)
EXTENDS Payments, TLC

\* Within each of these sets the members are interchangeable.
Symmetry == Permutations(Payment) \union Permutations(Request)
              \union Permutations(Key) \union Permutations(Txn)
              \union Permutations(Topup)
=============================================================================
