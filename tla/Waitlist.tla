------------------------------ MODULE Waitlist ------------------------------
(***************************************************************************)
(* The waiting list: the form of app/waitlist and the route behind it,     *)
(* which keeps the submissions in one JSON file of the instance's /tmp.    *)
(* The route reads, checks and writes the file without an await in         *)
(* between, so one submission is handled at a time; but the process may    *)
(* die in the middle of the write, an instance starts with an empty /tmp,  *)
(* and a form whose answer is lost is sent again by hand.                  *)
(*                                                                         *)
(* A submission is the number it has in the order they were sent.          *)
(***************************************************************************)
EXTENDS Integers, Sequences, FiniteSets

CONSTANTS
    Forms,            \* pages open at the form
    Emails,           \* addresses, as sanitizeEmail returns them
    NoEmail,          \* what is no address
    MaxSubmissions,   \* MAX_SUBMISSIONS
    MaxSent,          \* bound on the submissions sent
    MaxLosses         \* bound on the losses of the file

ASSUME WaitlistAssumption ==
    /\ NoEmail \notin Emails
    /\ MaxSubmissions \in Nat \ {0} /\ MaxSent \in Nat /\ MaxLosses \in Nat

VARIABLES
    form,     \* form -> [status, submission] as the page shows it
    sent,     \* the submissions: [form, email, state, answer, lossesSeen]
    file,     \* what the JSON file holds: [readable, list]
    stdout,   \* the submissions logged
    losses    \* how often the file's content was lost
waitlistVars == <<form, sent, file, stdout, losses>>

NoFile == [readable |-> FALSE, list |-> <<>>]

WaitlistInit ==
    /\ form = [f \in Forms |-> [status |-> "idle", submission |-> 0]]
    /\ sent = <<>>
    /\ file = NoFile
    /\ stdout = {}
    /\ losses = 0

(* handleSubmit; the button is disabled while the status is "loading". *)
HandleSubmit(f) ==
    /\ form[f].status # "loading"
    /\ \E e \in Emails \cup {NoEmail} :
          IF e = NoEmail
            THEN /\ form' = [form EXCEPT ![f].status = "error"]
                 /\ UNCHANGED sent
            ELSE /\ Len(sent) < MaxSent
                 /\ sent' = Append(sent, [form |-> f, email |-> e, state |-> "sent",
                                          answer |-> "none", lossesSeen |-> 0])
                 /\ form' = [form EXCEPT ![f] = [status |-> "loading", submission |-> Len(sent) + 1]]
    /\ UNCHANGED <<file, stdout, losses>>

-----------------------------------------------------------------------------
Arrived(n) == n \in DOMAIN sent /\ sent[n].state = "sent"

Answered(n, answer) ==
    sent' = [sent EXCEPT ![n].state = "answered", ![n].answer = answer, ![n].lossesSeen = losses]

(* A file that is missing or does not parse is an empty list. *)
Parsed == IF file.readable THEN file.list ELSE <<>>

Registered(e) == \E i \in DOMAIN Parsed : sent[Parsed[i]].email = e
ListFull == Len(Parsed) >= MaxSubmissions

(* 429, 400, 500: nothing is written. *)
RefuseSubmission(n) ==
    /\ Arrived(n)
    /\ Answered(n, "refused")
    /\ UNCHANGED <<form, file, stdout, losses>>

(* 409, then 503. *)
RefuseDuplicate(n) ==
    /\ Arrived(n) /\ Registered(sent[n].email)
    /\ Answered(n, "duplicate")
    /\ UNCHANGED <<form, file, stdout, losses>>

RefuseWhenFull(n) ==
    /\ Arrived(n) /\ ~Registered(sent[n].email) /\ ListFull
    /\ Answered(n, "full")
    /\ UNCHANGED <<form, file, stdout, losses>>

Accepted(n) == Arrived(n) /\ ~Registered(sent[n].email) /\ ~ListFull

(* A plausible slip: the file is written with the submission alone. *)
WithoutTheOthers(n) == <<n>>

(* list.push(submission), and the whole list is written. *)
WithTheOthers(n) == Append(Parsed, n)

Written(n) == file' = [readable |-> TRUE, list |-> WithTheOthers(n)]

Register(n) ==
    /\ Accepted(n)
    /\ Written(n)
    /\ stdout' = stdout \cup {n}
    /\ Answered(n, "registered")
    /\ UNCHANGED <<form, losses>>

Dies(n) == sent' = [sent EXCEPT ![n].state = "lost"]

(* The process dies after the write, before it logs and answers ... *)
DieAfterWrite(n) ==
    /\ Accepted(n)
    /\ Written(n)
    /\ Dies(n)
    /\ UNCHANGED <<form, stdout, losses>>

(* ... or in its middle: what is left does not parse. *)
DieInWrite(n) ==
    /\ Accepted(n) /\ losses < MaxLosses
    /\ file' = NoFile
    /\ losses' = losses + 1
    /\ Dies(n)
    /\ UNCHANGED <<form, stdout>>

(* The next request is served by a new instance. *)
ColdStart ==
    /\ losses < MaxLosses
    /\ file' = NoFile
    /\ losses' = losses + 1
    /\ UNCHANGED <<form, sent, stdout>>

-----------------------------------------------------------------------------
Waits(f) == form[f].status = "loading"

AnswerReachesForm(f) ==
    /\ Waits(f) /\ sent[form[f].submission].state = "answered"
    /\ form' = [form EXCEPT ![f].status =
                   IF sent[form[f].submission].answer = "registered" THEN "success" ELSE "error"]
    /\ UNCHANGED <<sent, file, stdout, losses>>

(* The request or its answer is lost; the submission may be handled yet. *)
FormGivesUp(f) ==
    /\ Waits(f)
    /\ form' = [form EXCEPT ![f].status = "error"]
    /\ UNCHANGED <<sent, file, stdout, losses>>

WaitlistNext ==
    \/ \E f \in Forms : HandleSubmit(f) \/ AnswerReachesForm(f) \/ FormGivesUp(f)
    \/ \E n \in DOMAIN sent :
          \/ RefuseSubmission(n) \/ RefuseDuplicate(n) \/ RefuseWhenFull(n)
          \/ Register(n) \/ DieAfterWrite(n) \/ DieInWrite(n)
    \/ ColdStart

WaitlistSpec == WaitlistInit /\ [][WaitlistNext]_waitlistVars

-----------------------------------------------------------------------------
IsListed(n) == \E i \in DOMAIN Parsed : Parsed[i] = n

(* Nobody is registered twice, however often a lost answer makes a form be
   sent again, and the list keeps its limit.  A page that says "success" is
   believed: the submission is in the log, whatever becomes of the file, and
   on the list for as long as the file was not lost.  One that was told
   "already registered" was: an earlier submission with its address was on the
   list. *)
RegistrationsAreKept ==
    /\ \A i, j \in DOMAIN Parsed : i # j => sent[Parsed[i]].email # sent[Parsed[j]].email
    /\ Len(Parsed) <= MaxSubmissions
    /\ \A f \in Forms : form[f].status = "success" =>
          LET n == form[f].submission IN
          /\ n \in stdout
          /\ sent[n].lossesSeen = losses => IsListed(n)
    /\ \A n \in DOMAIN sent : sent[n].answer = "duplicate" /\ sent[n].lossesSeen = losses =>
          \E m \in DOMAIN sent : m # n /\ sent[m].email = sent[n].email /\ IsListed(m)
=============================================================================
