----------------------------- MODULE Fulfilment -----------------------------
(***************************************************************************)
(* What follows an order's verdict: pdf-service writes a receipt file and  *)
(* announces it, notification-service sends the mails.                     *)
(*                                                                         *)
(* A worker is a consumer process of one of the services.  There is one of *)
(* each, but for the time of a rebalance or a restart two may hold the     *)
(* same message.  A message that was published may be delivered again at   *)
(* any time.  A handler is not atomic: a worker may crash between any two  *)
(* of its steps, and pdf-service keeps its state in the file system, where *)
(* nothing is rolled back.                                                 *)
(***************************************************************************)
EXTENDS Naturals

CONSTANTS Orders,      \* order ids
          Workers,     \* processes of each service
          MaxAttempts  \* attempts of the consumer's dispatch loop

ASSUME FulfilmentAssumption == MaxAttempts \in Nat \ {0}

VARIABLES verdict,   \* verdict[o]: the event order-service published
          file,      \* file[o]: the receipt on disk
          pdf,       \* pdf[w]: what worker w of pdf-service is doing
          pdfReady,  \* orders with a PDF_GENERATED event
          broken,    \* history: orders a writer of whose receipt failed or died
          notified,  \* notified[o]: the event types in notification_log
          mail,      \* mail[w]: the mail worker w has logged and not yet sent
          mails      \* mails[o][t]: mails sent for event type t of order o

vars == <<verdict, file, pdf, pdfReady, broken, notified, mail, mails>>
pdfVars == <<file, pdf, pdfReady, broken>>
mailVars == <<notified, mail, mails>>

EventTypes == {"ORDER_CONFIRMED", "ORDER_CANCELLED", "PDF_GENERATED"}

Stages == {"start", "absent", "writing", "overtaken", "publishing"}
Idle == [stage |-> "idle"]
NoMail == [type |-> "none"]

TypeOK ==
    /\ verdict \in [Orders -> {"open", "ORDER_CONFIRMED", "ORDER_CANCELLED"}]
    /\ file \in [Orders -> {"none", "partial", "whole"}]
    /\ pdf \in [Workers -> {Idle} \cup [stage : Stages, order : Orders, attempt : 1..MaxAttempts]]
    /\ pdfReady \in SUBSET Orders
    /\ broken \in SUBSET Orders
    /\ notified \in [Orders -> SUBSET EventTypes]
    /\ mail \in [Workers -> {NoMail} \cup [type : EventTypes, order : Orders]]
    /\ mails \in [Orders -> [EventTypes -> Nat]]

Init ==
    /\ verdict = [o \in Orders |-> "open"]
    /\ file = [o \in Orders |-> "none"]
    /\ pdf = [w \in Workers |-> Idle]
    /\ pdfReady = {}
    /\ broken = {}
    /\ notified = [o \in Orders |-> {}]
    /\ mail = [w \in Workers |-> NoMail]
    /\ mails = [o \in Orders |-> [t \in EventTypes |-> 0]]

\* order-service publishes its verdict, once (OneVerdict of OrderSaga).
OrderSettled(o, v) ==
    /\ verdict[o] = "open"
    /\ verdict' = [verdict EXCEPT ![o] = v]
    /\ UNCHANGED <<pdfVars, mailVars>>

-----------------------------------------------------------------------------
(***************************************************************************)
(* pdf-service: generateOrderPdf                                           *)
(***************************************************************************)

Doing(w, stage) == pdf[w].stage = stage

\* w has the receipt of order o open for writing.
Writing(w, o) == pdf[w].stage \in {"writing", "overtaken"} /\ pdf[w].order = o

GoTo(w, stage) == pdf' = [pdf EXCEPT ![w].stage = stage]

\* Slip: the service subscribes to both verdicts.
ReceiveAnyVerdict(w, o) ==
    /\ Doing(w, "idle")
    /\ verdict[o] # "open"
    /\ pdf' = [pdf EXCEPT ![w] = [stage |-> "start", order |-> o, attempt |-> 1]]
    /\ UNCHANGED <<verdict, file, pdfReady, broken, mailVars>>

\* ORDER_CONFIRMED is delivered, for the first time or again.
ReceiveConfirmed(w, o) ==
    /\ Doing(w, "idle")
    /\ verdict[o] = "ORDER_CONFIRMED"
    /\ pdf' = [pdf EXCEPT ![w] = [stage |-> "start", order |-> o, attempt |-> 1]]
    /\ UNCHANGED <<verdict, file, pdfReady, broken, mailVars>>

\* fsp.access: a file that exists is taken for a finished receipt.
CheckExists(w) ==
    /\ Doing(w, "start")
    /\ GoTo(w, IF file[pdf[w].order] = "none" THEN "absent" ELSE "publishing")
    /\ UNCHANGED <<verdict, file, pdfReady, broken, mailVars>>

\* createWriteStream creates the file or empties it, also under a worker that
\* is writing it: what that one has written so far is gone.
OpenFile(w) ==
    /\ Doing(w, "absent")
    /\ file' = [file EXCEPT ![pdf[w].order] = "partial"]
    /\ pdf' = [v \in Workers |->
                  IF v = w THEN [pdf[w] EXCEPT !.stage = "writing"]
                  ELSE IF Writing(v, pdf[w].order) THEN [pdf[v] EXCEPT !.stage = "overtaken"]
                  ELSE pdf[v]]
    /\ UNCHANGED <<verdict, pdfReady, broken, mailVars>>

\* Slip: writePdf resolves at doc.end() instead of the stream's finish event.
FinishFileEarly(w) ==
    /\ Doing(w, "writing") \/ Doing(w, "overtaken")
    /\ GoTo(w, "publishing")
    /\ UNCHANGED <<verdict, file, pdfReady, broken, mailVars>>

\* The stream's finish event.  The last worker to open the file has written
\* all of it.
FinishFile(w) ==
    /\ \/ /\ Doing(w, "writing")
          /\ file' = [file EXCEPT ![pdf[w].order] = "whole"]
       \/ /\ Doing(w, "overtaken")
          /\ UNCHANGED file
    /\ GoTo(w, "publishing")
    /\ UNCHANGED <<verdict, pdfReady, broken, mailVars>>

\* The event is sent directly, not through an outbox.
PublishPdfGenerated(w) ==
    /\ Doing(w, "publishing")
    /\ pdfReady' = pdfReady \cup {pdf[w].order}
    /\ pdf' = [pdf EXCEPT ![w] = Idle]
    /\ UNCHANGED <<verdict, file, broken, mailVars>>

\* A file that is left while it is written stays as it is.
Abandon(w) ==
    broken' = IF \E o \in Orders : Writing(w, o) THEN broken \cup {pdf[w].order} ELSE broken

LastAttempt(w) == pdf[w].attempt = MaxAttempts

\* The opening, the stream or the publication fails: dispatch calls the handler
\* again, and after the last attempt sends the message to the dead-letter topic.
HandlerFails(w) ==
    /\ pdf[w].stage \in {"absent", "writing", "overtaken", "publishing"}
    /\ Abandon(w)
    /\ pdf' = [pdf EXCEPT ![w] =
                  IF LastAttempt(w)
                  THEN Idle
                  ELSE [stage |-> "start", order |-> pdf[w].order, attempt |-> pdf[w].attempt + 1]]
    /\ UNCHANGED <<verdict, file, pdfReady, mailVars>>

PdfCrash(w) ==
    /\ ~Doing(w, "idle")
    /\ Abandon(w)
    /\ pdf' = [pdf EXCEPT ![w] = Idle]
    /\ UNCHANGED <<verdict, file, pdfReady, mailVars>>

-----------------------------------------------------------------------------
(***************************************************************************)
(* notification-service: notifyOrderConfirmed, notifyOrderCancelled and    *)
(* notifyPdfReady.                                                         *)
(***************************************************************************)

\* The event types published for order o.
Events(o) == ({verdict[o]} \cup (IF o \in pdfReady THEN {"PDF_GENERATED"} ELSE {})) \ {"open"}

\* Slip: the log is read first and written after the mail.
NotifyUnmarked(w, o, t) ==
    /\ mail[w] = NoMail
    /\ t \in Events(o) \ notified[o]
    /\ mail' = [mail EXCEPT ![w] = [type |-> t, order |-> o]]
    /\ UNCHANGED <<verdict, pdfVars, notified, mails>>

\* markSent inserts the log row; the unique (orderId, eventType) turns every
\* later delivery away.
MarkSent(w, o, t) ==
    /\ mail[w] = NoMail
    /\ t \in Events(o) \ notified[o]
    /\ notified' = [notified EXCEPT ![o] = @ \cup {t}]
    /\ mail' = [mail EXCEPT ![w] = [type |-> t, order |-> o]]
    /\ UNCHANGED <<verdict, pdfVars, mails>>

SendMail(w) ==
    /\ mail[w] # NoMail
    /\ mails' = [mails EXCEPT ![mail[w].order][mail[w].type] = @ + 1]
    /\ mail' = [mail EXCEPT ![w] = NoMail]
    /\ UNCHANGED <<verdict, pdfVars, notified>>

\* The row is committed and the mail is lost.
MailCrash(w) ==
    /\ mail[w] # NoMail
    /\ mail' = [mail EXCEPT ![w] = NoMail]
    /\ UNCHANGED <<verdict, pdfVars, notified, mails>>

-----------------------------------------------------------------------------

PdfNext(w) ==
    \/ \E o \in Orders : ReceiveConfirmed(w, o)
    \/ CheckExists(w) \/ OpenFile(w) \/ FinishFile(w)
    \/ PublishPdfGenerated(w) \/ HandlerFails(w) \/ PdfCrash(w)

MailNext(w) ==
    \/ \E o \in Orders, t \in EventTypes : MarkSent(w, o, t)
    \/ SendMail(w) \/ MailCrash(w)

Next ==
    \/ \E o \in Orders, v \in {"ORDER_CONFIRMED", "ORDER_CANCELLED"} : OrderSettled(o, v)
    \/ \E w \in Workers : PdfNext(w) \/ MailNext(w)

Spec == Init /\ [][Next]_vars

-----------------------------------------------------------------------------
(***************************************************************************)
(* Properties                                                              *)
(***************************************************************************)

\* No customer gets a mail twice, however often the event is delivered and
\* however many workers are handed it at the same time.
MailedAtMostOnce == \A o \in Orders, t \in EventTypes : mails[o][t] <= 1

\* The customer of a cancelled order gets neither a confirmation nor a
\* receipt, at any time.
MailsTellOneStory ==
    \A o \in Orders : mails[o]["ORDER_CANCELLED"] > 0 =>
        mails[o]["ORDER_CONFIRMED"] = 0 /\ mails[o]["PDF_GENERATED"] = 0

\* An announced receipt is on disk, and whole, unless a worker is writing it or
\* one failed or died while it did: a crash anywhere else, a repeated event or
\* a failed publication leaves a complete file (generateOrderPdf).
ReceiptIsWhole ==
    \A o \in pdfReady :
        \/ file[o] = "whole"
        \/ file[o] = "partial" /\ (o \in broken \/ \E w \in Workers : Doing(w, "writing") /\ Writing(w, o))

\* What happens to an order after its verdict follows from that verdict.
VerdictRules ==
    /\ \A w \in Workers : ~Doing(w, "idle") => verdict[pdf[w].order] = "ORDER_CONFIRMED"
    /\ \A o \in pdfReady : verdict[o] = "ORDER_CONFIRMED"
    /\ \A o \in Orders : notified[o] \subseteq Events(o)

\* A mail has its row in the log before it is sent, and one worker to send it.
MailsAreLogged ==
    /\ \A o \in Orders, t \in EventTypes : mails[o][t] > 0 => t \in notified[o]
    /\ \A w \in Workers : mail[w] # NoMail =>
          /\ mail[w].type \in notified[mail[w].order]
          /\ mails[mail[w].order][mail[w].type] = 0
    /\ \A v, w \in Workers : mail[v] = mail[w] /\ mail[w] # NoMail => v = w

\* Who announces a receipt, or has announced it, has a file.
FilesAreThere ==
    /\ \A w \in Workers :
          pdf[w].stage \in {"writing", "overtaken", "publishing"} => file[pdf[w].order] # "none"
    /\ \A o \in pdfReady : file[o] # "none"
    /\ \A o \in Orders : file[o] = "partial" =>
          o \in broken \/ \E w \in Workers : Doing(w, "writing") /\ Writing(w, o)

\* The inductive invariant: the log, the files and the workers of both services
\* agree with the verdict and with each other.
FulfilmentInv == VerdictRules /\ MailsAreLogged /\ MailedAtMostOnce /\ FilesAreThere

=============================================================================
