------------------------------ MODULE Sessions ------------------------------
(***************************************************************************)
(* The conversation histories in Redis (src/src/app/stores/sessions.py): a  *)
(* list of turns per session, capped at every append and dropped as a whole *)
(* when the session expires.                                               *)
(***************************************************************************)
EXTENDS Integers, Sequences

CONSTANTS
  SessionIds,  \* the sessions clients use
  MaxTurns     \* MAX_TURNS

ASSUME SessionsAssumption == MaxTurns \in Nat \ {0}

VARIABLE turns  \* session:{session_id}: its turns, oldest first

SessionsInit == turns = [s \in SessionIds |-> <<>>]

\* Faulty: keeps one turn too many.
NewestPlusOne(list, n) ==
  SubSeq(list, IF Len(list) > n THEN Len(list) - n ELSE 1, Len(list))

\* LTRIM key -n -1
Newest(list, n) == SubSeq(list, IF Len(list) > n THEN Len(list) - n + 1 ELSE 1, Len(list))

\* append_turn: push, cap and restart the expiry clock in one pipeline.
AppendTurn(s, turn) == turns' = [turns EXCEPT ![s] = Newest(Append(@, turn), MaxTurns)]

ExpireSession(s) ==
  /\ turns[s] # <<>>
  /\ turns' = [turns EXCEPT ![s] = <<>>]

\* get_history(session_id, limit)
History(s, limit) == Newest(turns[s], limit)

=============================================================================
