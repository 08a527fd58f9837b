----------------------------- MODULE MCAccounts -----------------------------
(***************************************************************************)
(* Small sets of requests for the checks of Accounts.tla.                  *)
(***************************************************************************)
EXTENDS AccountsProperties, TLC

CONSTANTS ann, bob, empty, long, other, short, text1, text2

Symmetry ==
    Permutations(Requests) \cup Permutations(Users) \cup Permutations(Companies)
    \cup Permutations(Sessions)

Enter(op, name, password) ==
    [op |-> op, cookie |-> NULL, name |-> name, password |-> password]

Logins ==
    { Enter("register", ann, long) } \cup { Enter("login", name, long) : name \in {ann, bob} }

(* Everything: users, one of them without a name, their logins, sessions   *)
(* and companies.                                                          *)
AccountForms ==
    { Enter("register", ann, long), Enter("register", empty, other),
      Enter("register", empty, short) }
    \cup { Enter("login", ann, long) }
    \cup { [op |-> "logout", cookie |-> k] : k \in Sessions }
    \cup { [op |-> "select", cookie |-> k, company |-> c] :
              k \in Sessions, c \in Companies }
    \cup { [op |-> "company", cookie |-> k, company |-> NULL, data |-> data] :
              k \in Sessions, data \in {text1, NULL} }
    \cup { [op |-> "company", cookie |-> k, company |-> c, data |-> text2] :
              k \in Sessions, c \in Companies }

=============================================================================
