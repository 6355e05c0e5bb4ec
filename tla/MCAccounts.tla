----------------------------- MODULE MCAccounts -----------------------------
(***************************************************************************)
(* An instance of Accounts and Sessions for TLC: two mailboxes, each       *)
(* spelled in two ways, two handlers that reset passwords, a client that   *)
(* signs in, and tokens of both kinds that expire after one tick of three. *)
(***************************************************************************)
EXTENDS Sessions, TLC

CONSTANTS m1, m2, p1, p2, h1, h2, c1

MCSymmetry == Permutations(Handlers) \cup Permutations(Mailboxes)
                \cup Permutations(Passwords)

=============================================================================
