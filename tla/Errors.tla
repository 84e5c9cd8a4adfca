------------------------------- MODULE Errors -------------------------------
(***************************************************************************)
(* The errors of src/error.c: what the library raises, which names it      *)
(* publishes in the table mtint.error, and which of them a program finds   *)
(* in a message.  A message is a record of the name and the details; the   *)
(* program compares it with err:match(mtint.error.<key>).                  *)
(***************************************************************************)

\* The names of MTINT_ERROR_*: each is a key of mtint.error and, with the
\* prefix "mtint.error.", the value under that key.
Published == {"not_supported", "object_exists", "object_closed",
              "unknown_object", "interrupted", "out_of_memory"}

\* throwError, throwErrorMessage: the message that lua_error raises.
Message(name, details) == [name |-> name, details |-> details]

\* What the hook raises for a state without a handler: no details.
Interrupted == Message("interrupted", "")

\* err:match(mtint.error.key) finds the published name in the message.  An
\* unpublished key is nil and matches nothing.
Matches(err, key) == key \in Published /\ err.name = key
=============================================================================
