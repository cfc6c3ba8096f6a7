---------------------------- MODULE FolderService ----------------------------
(***************************************************************************)
(* What a game directory promises to those who ask it for files.  While it *)
(* is in service a key (a name or an identifier) that was answered keeps   *)
(* its answer, a request changes the answer of no other key, and an answer *)
(* is never taken back.  Out of service, while a client is loaded, anything*)
(* may change.                                                             *)
(***************************************************************************)
CONSTANTS Keys, Answers, Nothing

VARIABLES serving, answer

svars == <<serving, answer>>

Init == /\ serving \in BOOLEAN
        /\ answer \in [Keys -> Answers \cup {Nothing}]

\* A client is loaded: before, meanwhile or after, nobody asks.
Load == /\ ~serving \/ ~serving'
        /\ serving' \in BOOLEAN
        /\ answer' \in [Keys -> Answers \cup {Nothing}]

Ask(k) == /\ serving /\ answer[k] = Nothing
          /\ answer'[k] \in Answers
          /\ answer' = [answer EXCEPT ![k] = answer'[k]]
          /\ UNCHANGED serving

Next == Load \/ \E k \in Keys : Ask(k)

Spec == Init /\ [][Next]_svars
=============================================================================
