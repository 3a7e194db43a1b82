----------------------------- MODULE MCAccounts -----------------------------
(* Small instances of Accounts. *)
EXTENDS Accounts, TLC

Interchangeable ==
    Permutations(User) \cup Permutations(Invite) \cup Permutations(Token)
        \cup Permutations(Recovery) \cup Permutations(Handler)
        \cup Permutations(Command)

(* Addresses are interchangeable as well where none is the operator's. *)
InterchangeableEmails == Interchangeable \cup Permutations(Email)
=============================================================================
