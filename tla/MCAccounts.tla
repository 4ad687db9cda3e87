----------------------------- MODULE MCAccounts -----------------------------
EXTENDS Accounts, TLC

\* One username in two spellings.
CONSTANTS ann, Ann

MCNames == {ann, Ann}

MCLower == [n \in MCNames |-> ann]

\* Ids, addresses, passwords, tokens and calls are interchangeable.
Symmetry == Permutations(Ids) \cup Permutations(Emails) \cup Permutations(Passwords)
            \cup Permutations(Tokens) \cup Permutations(Calls)
=============================================================================
