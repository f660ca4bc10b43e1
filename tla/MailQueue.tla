----------------------------- MODULE MailQueue -----------------------------
(***************************************************************************)
(* What a mailbox promises its consumer: the oldest mail first, in batches *)
(* that are handed out again until acknowledged as a whole, and handed     *)
(* back when another consumer takes the mailbox over.  Nothing else is     *)
(* struck off but a message answered and those a report supersedes.        *)
(***************************************************************************)
EXTENDS Naturals

VARIABLES
  mail,    \* unread messages, by sequence
  batch,   \* those handed out and not acknowledged
  holder,  \* the consumer, by its generation
  open     \* the mailbox has a consumer to come

vars == <<mail, batch, holder, open>>

Init == mail = {} /\ batch = {} /\ holder \in Nat /\ open = TRUE

OldestOf(S, b) == b \subseteq S /\ \A n \in b, m \in S : m < n => m \in b

Arrive == mail \subseteq mail' /\ UNCHANGED <<batch, holder, open>>

\* A message is struck off by answering it; the answer may arrive here
Answer ==
  \E n \in mail :
    /\ mail \ {n} \subseteq mail' /\ n \notin mail'
    /\ batch' = batch \ {n}
    /\ UNCHANGED <<holder, open>>

\* What arrives takes the place of older mail
Supersede ==
  /\ \E n \in mail' : \A m \in mail : m < n
  /\ batch' = batch \cap mail'
  /\ UNCHANGED <<holder, open>>

HandOut ==
  /\ open /\ batch = {}
  /\ batch' # {} /\ OldestOf(mail, batch')
  /\ UNCHANGED <<mail, holder, open>>

\* The next batch may be handed out with the acknowledgement of this one
Acknowledge ==
  /\ open /\ batch # {}
  /\ mail' = mail \ batch
  /\ OldestOf(mail', batch')
  /\ UNCHANGED <<holder, open>>

Replace ==
  /\ holder' > holder
  /\ batch' = {} /\ mail \subseteq mail'
  /\ UNCHANGED open

Close == open /\ ~open' /\ UNCHANGED <<mail, batch, holder>>

\* Nobody will read it here: it goes to another mailbox
Forward ==
  /\ ~open
  /\ mail' \subseteq mail /\ batch' = batch \cap mail'
  /\ UNCHANGED <<holder, open>>

Next ==
  \/ Arrive \/ Answer \/ Supersede \/ HandOut \/ Acknowledge
  \/ Replace \/ Close \/ Forward

Spec == Init /\ [][Next]_vars
=============================================================================
