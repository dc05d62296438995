------------------------------ MODULE MCUpload ------------------------------
(***************************************************************************)
(* Instance of Upload for TLC: requests with and without a file, a type    *)
(* and a limit, a file of exactly the limit, a file with a part behind it, *)
(* and callers that give hash and size themselves.                         *)
(***************************************************************************)
EXTENDS Upload, TLC

CONSTANTS w1, w2, a, b, c, g

field == [file |-> FALSE, size |-> 0, typed |-> FALSE]
File(n, t) == [file |-> TRUE, size |-> n, typed |-> t]

Send(parts, limit, t) ==
    [form |-> TRUE, parts |-> parts, limit |-> limit, tag |-> t,
     says |-> None]

Claim(r, h) == [r EXCEPT !.says = h]

SomeRequests ==
    { Claim(Send(<<field, File(2, TRUE)>>, -1, a), g),
      Claim(Send(<<File(1, FALSE)>>, 2, b), c),
      Send(<<File(2, FALSE)>>, 2, b),
      Send(<<File(3, FALSE), field>>, 4, a),
      Send(<<File(1, TRUE)>>, 0, b),
      Send(<<field>>, -1, None),
      [form |-> FALSE, parts |-> <<>>, limit |-> -1, tag |-> None,
       says |-> None] }

SomeOptions ==
    { [want |-> a, where |-> None, tags |-> FALSE, mode |-> "both"],
      [want |-> a, where |-> None, tags |-> FALSE, mode |-> "only"],
      [want |-> None, where |-> a, tags |-> FALSE, mode |-> "both"],
      [want |-> None, where |-> None, tags |-> TRUE, mode |-> "no"] }

Symmetry == Permutations(Writers)

=============================================================================
