------------------------------- MODULE IronAjax -------------------------------
(***************************************************************************)
(* The iron-ajax element of Polymer, as the pages of src/client use it.    *)
(*                                                                         *)
(* The element remembers its last request.  A page that asks anew aborts   *)
(* that request first, `if (ajax.lastRequest) ajax.lastRequest.abort()`,   *)
(* and then generates another.  To abort a request in flight fires its     *)
(* error event in a microtask, before any other event; to abort one that   *)
(* has ended does nothing.  The `loading` property tells whether the last  *)
(* request is still in flight, and is cleared before the handler of its    *)
(* event runs.                                                             *)
(*                                                                         *)
(* The state of an element is the set of its requests in flight: what each *)
(* is for, and whether it is the last.                                     *)
(***************************************************************************)

Request(Target) == [of : Target, last : BOOLEAN]

NoRequests == {}

Abort(ajax) == {r \in ajax : ~r.last}

GenerateRequest(ajax, of) ==
    {[r EXCEPT !.last = FALSE] : r \in ajax} \union {[of |-> of, last |-> TRUE]}

Loading(ajax) == \E r \in ajax : r.last
=============================================================================
