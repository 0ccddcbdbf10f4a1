------------------------------- MODULE MCHttp -------------------------------
(***************************************************************************)
(* Small instances of the controller layer for TLC.                        *)
(***************************************************************************)
EXTENDS HttpProperties, TLC

M(method, target, body) == [method |-> method, target |-> target, body |-> body]

(* One message for each way through handle_request, and those that differ  *)
(* from one of them in a single respect.                                   *)
MixedMessages ==
  {M("get", "get_description", "malformed"), M("get", "buy", "mistyped"),
   M("post", "buy", "good"), M("post", "buy", "lacking"),
   M("post", "make_order", "good"), M("post", "elsewhere", "lacking"),
   M("delete", "remove", "mistyped"), M("delete", "remove", "malformed"),
   M("put", "buy", "good")}

(* For progress: messages that end in each of the ways a handler can.      *)
ProgressMessages ==
  {M("post", "make_order", "good"), M("post", "elsewhere", "good"),
   M("delete", "remove", "mistyped"), M("post", "buy", "malformed")}

(* README.md:25, 28 and 31 name the parameters itemId, itemCount and "total *)
(* sum"; the code reads id, count and order_sum, so they are missing.      *)
DocumentedMessages ==
  {M("post", "buy", "lacking"), M("delete", "remove", "lacking"),
   M("post", "make_order", "lacking")}

ConnectionSymmetry == Permutations(Connections)
=============================================================================
