-------------------------- MODULE PatchTransaction --------------------------
(***************************************************************************)
(* What applying a patch promises (SPEC-002, D3): every target is replaced *)
(* or none stays replaced, only contents the patch was prepared from are   *)
(* replaced, and only the patch's own results are ever taken back.  There  *)
(* are two ways out: a verdict that says the rollback is unresolved, and   *)
(* an edit at the last moment (14.3 and 14.4), which may be overwritten.   *)
(***************************************************************************)
CONSTANT Files

VARIABLES content,  \* each target: "before", "result" or "foreign"
          written,  \* the targets that the transaction replaced and not restored
          raced,    \* the targets that were edited at the last moment
          verdict   \* "open", then what the caller is told

transactionVars == <<content, written, raced, verdict>>

Init ==
  /\ content = [f \in Files |-> "before"]
  /\ written = {} /\ raced = {}
  /\ verdict = "open"

\* Other programs change any targets, at any time, the last moment included.
Edit ==
  /\ content' \in [Files -> {"before", "result", "foreign"}]
  /\ \A f \in Files : content'[f] = "result" => content[f] = "result"
  /\ raced \subseteq raced'
  /\ raced' \subseteq raced \cup {f \in Files : content'[f] # content[f]}
  /\ UNCHANGED <<written, verdict>>

Replace(f) ==
  /\ verdict = "open"
  /\ content[f] = "before" \/ f \in raced
  /\ content' = [content EXCEPT ![f] = "result"]
  /\ written' = written \cup {f}
  /\ UNCHANGED <<raced, verdict>>

Restore(f) ==
  /\ verdict = "open"
  /\ content[f] = "result" \/ f \in raced
  /\ content' = [content EXCEPT ![f] = "before"]
  /\ written' = written \ {f}
  /\ UNCHANGED <<raced, verdict>>

Conclude ==
  /\ verdict = "open"
  /\ \/ verdict' = "applied" /\ written = Files
     \/ verdict' = "restored" /\ written = {} /\ \A f \in Files : content[f] # "result"
     \/ verdict' = "unresolved"
  /\ UNCHANGED <<content, written, raced>>

Next ==
  \/ Edit
  \/ \E f \in Files : Replace(f) \/ Restore(f)
  \/ Conclude

Spec == Init /\ [][Next]_transactionVars
=============================================================================
