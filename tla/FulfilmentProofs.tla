-------------------------- MODULE FulfilmentProofs --------------------------
(***************************************************************************)
(* Proofs about the receipts and the mails, for any number of orders and   *)
(* workers and any number of attempts.                                     *)
(***************************************************************************)
EXTENDS Fulfilment, TLAPS

\* No worker that does something is idle, and a mail in hand is a mail.
LEMMA WorkerTypes ==
    ASSUME TypeOK
    PROVE  /\ \A w \in Workers : ~Doing(w, "idle") =>
                pdf[w] \in [stage : Stages, order : Orders, attempt : 1..MaxAttempts]
           /\ \A w \in Workers : mail[w] # NoMail => mail[w] \in [type : EventTypes, order : Orders]
BY DEF TypeOK, Doing, Idle

\* An attempt that is not the last one has a successor.
LEMMA AttemptCounted ==
    ASSUME NEW a \in 1..MaxAttempts, a # MaxAttempts
    PROVE  a + 1 \in 1..MaxAttempts
BY FulfilmentAssumption

\* The initial state satisfies the inductive invariant.
LEMMA FulfilmentInitially == Init => TypeOK /\ FulfilmentInv
BY FulfilmentAssumption DEF Init, TypeOK, FulfilmentInv, VerdictRules, MailsAreLogged,
    MailedAtMostOnce, FilesAreThere, Doing, Writing, Idle, NoMail, EventTypes

\* A step that leaves notification-service alone keeps what is said of the mails.
LEMMA MailsUntouched ==
    ASSUME MailsAreLogged, MailedAtMostOnce, UNCHANGED mailVars
    PROVE  MailsAreLogged' /\ MailedAtMostOnce'
BY DEF MailsAreLogged, MailedAtMostOnce, mailVars

\* A step that leaves pdf-service and the verdicts alone keeps what is said of
\* the files.
LEMMA FilesUntouched ==
    ASSUME FilesAreThere, UNCHANGED pdfVars
    PROVE  FilesAreThere'
BY DEF FilesAreThere, pdfVars, Doing, Writing

\* Events are only added, so that a published event stays one.
LEMMA EventsGrow ==
    ASSUME VerdictRules, UNCHANGED notified, pdfReady \subseteq pdfReady',
           \A o \in Orders : verdict[o] # "open" => verdict'[o] = verdict[o]
    PROVE  \A o \in Orders : notified'[o] \subseteq Events(o)'
BY DEF VerdictRules, Events

\* Every step of order-service, pdf-service and notification-service keeps the
\* inductive invariant.
LEMMA FulfilmentStep == TypeOK /\ FulfilmentInv /\ [Next]_vars => TypeOK' /\ FulfilmentInv'
<1> SUFFICES ASSUME TypeOK, FulfilmentInv, [Next]_vars
             PROVE  TypeOK' /\ FulfilmentInv'
    OBVIOUS
<1> USE FulfilmentAssumption
<1>0. VerdictRules /\ MailsAreLogged /\ MailedAtMostOnce /\ FilesAreThere
    BY DEF FulfilmentInv
<1>1. CASE UNCHANGED vars
    BY <1>1 DEF vars, TypeOK, FulfilmentInv, VerdictRules, MailsAreLogged, MailedAtMostOnce,
        FilesAreThere, Doing, Writing, Events
<1>2. ASSUME NEW o \in Orders, NEW v \in {"ORDER_CONFIRMED", "ORDER_CANCELLED"}, OrderSettled(o, v)
      PROVE  TypeOK' /\ FulfilmentInv'
    <2>1. TypeOK'
        BY <1>2 DEF OrderSettled, TypeOK, pdfVars, mailVars
    <2>2. \A q \in Orders : verdict[q] # "open" => verdict'[q] = verdict[q]
        BY <1>2 DEF OrderSettled, TypeOK
    <2>3. VerdictRules'
        BY <1>0, <1>2, <2>2, EventsGrow, WorkerTypes DEF OrderSettled, VerdictRules, TypeOK, pdfVars, mailVars, Doing
    <2> QED BY <1>0, <1>2, <2>1, <2>3, MailsUntouched, FilesUntouched DEF OrderSettled, FulfilmentInv
<1>3. ASSUME NEW w \in Workers, PdfNext(w)
      PROVE  TypeOK' /\ FulfilmentInv'
    <2> UNCHANGED <<verdict, mailVars>> /\ pdfReady \subseteq pdfReady'
        BY <1>3 DEF PdfNext, ReceiveConfirmed, CheckExists, OpenFile, FinishFile,
            PublishPdfGenerated, HandlerFails, PdfCrash
    <2>1. MailsAreLogged' /\ MailedAtMostOnce'
        BY <1>0, MailsUntouched
    <2>2. \A o \in Orders : notified'[o] \subseteq Events(o)'
        BY <1>0, EventsGrow DEF mailVars
    <2> SUFFICES TypeOK' /\ VerdictRules' /\ FilesAreThere'
        BY <2>1 DEF FulfilmentInv
    <2>3. ASSUME NEW o \in Orders, ReceiveConfirmed(w, o)
          PROVE  TypeOK' /\ VerdictRules' /\ FilesAreThere'
        <3> USE <1>0, <2>3 DEF ReceiveConfirmed, TypeOK, mailVars, Doing
        <3>1. TypeOK'
            BY DEF Stages
        <3>2. VerdictRules'
            BY <2>2 DEF VerdictRules
        <3>3. FilesAreThere'
            BY DEF FilesAreThere, Writing
        <3> QED BY <3>1, <3>2, <3>3
    <2>4. ASSUME CheckExists(w)
          PROVE  TypeOK' /\ VerdictRules' /\ FilesAreThere'
        <3> USE <1>0, <2>4, WorkerTypes DEF CheckExists, GoTo, TypeOK, mailVars, Doing
        <3>1. TypeOK'
            BY SMTT(30) DEF Stages
        <3>2. VerdictRules'
            BY <2>2 DEF VerdictRules
        <3>3. FilesAreThere'
            BY DEF FilesAreThere, Writing
        <3> QED BY <3>1, <3>2, <3>3
    <2>5. ASSUME OpenFile(w)
          PROVE  TypeOK' /\ VerdictRules' /\ FilesAreThere'
        <3> USE <1>0, <2>5, WorkerTypes DEF OpenFile, TypeOK, mailVars, Doing, Writing
        <3>1. TypeOK'
            BY SMTT(30) DEF Stages
        <3>2. VerdictRules'
            BY <2>2 DEF VerdictRules
        <3>3. FilesAreThere'
            <4>1. \A v \in Workers : pdf'[v].stage \in {"writing", "overtaken", "publishing"}
                     => file'[pdf'[v].order] # "none"
                BY DEF FilesAreThere, Stages
            <4>2. \A o \in pdfReady' : file'[o] # "none"
                BY DEF FilesAreThere
            <4>3. pdf'[w].stage = "writing" /\ pdf'[w].order = pdf[w].order
                BY DEF Stages
            <4>4. \A v \in Workers : v # w /\ ~Writing(v, pdf[w].order) => pdf'[v] = pdf[v]
                OBVIOUS
            <4>5. \A o \in Orders : file'[o] = "partial" =>
                     o \in broken' \/ \E v \in Workers : Doing(v, "writing")' /\ Writing(v, o)'
                BY <4>3, <4>4 DEF FilesAreThere
            <4> QED BY <4>1, <4>2, <4>5 DEF FilesAreThere
        <3> QED BY <3>1, <3>2, <3>3
    <2>6. ASSUME FinishFile(w)
          PROVE  TypeOK' /\ VerdictRules' /\ FilesAreThere'
        <3> USE <1>0, <2>6, WorkerTypes DEF FinishFile, GoTo, TypeOK, mailVars, Doing
        <3>1. TypeOK'
            BY ZenonT(30) DEF Stages
        <3>2. VerdictRules'
            BY <2>2 DEF VerdictRules
        <3>3. FilesAreThere'
            BY DEF FilesAreThere, Writing
        <3> QED BY <3>1, <3>2, <3>3
    <2>7. ASSUME PublishPdfGenerated(w)
          PROVE  TypeOK' /\ VerdictRules' /\ FilesAreThere'
        <3> USE <1>0, <2>7, WorkerTypes DEF PublishPdfGenerated, TypeOK, mailVars, Doing, Idle
        <3>1. TypeOK'
            OBVIOUS
        <3>2. VerdictRules'
            BY <2>2 DEF VerdictRules
        <3>3. FilesAreThere'
            BY DEF FilesAreThere, Writing
        <3> QED BY <3>1, <3>2, <3>3
    <2>8. ASSUME HandlerFails(w)
          PROVE  TypeOK' /\ VerdictRules' /\ FilesAreThere'
        <3> USE <1>0, <2>8, WorkerTypes DEF HandlerFails, LastAttempt, Abandon, TypeOK, mailVars, Doing, Idle, Writing
        <3>1. TypeOK'
            <4>1. pdf[w] \in [stage : Stages, order : Orders, attempt : 1..MaxAttempts]
                OBVIOUS
            <4>2. CASE LastAttempt(w)
                BY <4>1, <4>2
            <4>3. CASE ~LastAttempt(w)
                <5>0. pdf[w].attempt \in 1..MaxAttempts /\ pdf[w].attempt # MaxAttempts
                    BY <4>1, <4>3
                <5>1. pdf[w].attempt + 1 \in 1..MaxAttempts
                    BY <5>0, AttemptCounted
                <5>2. [stage |-> "start", order |-> pdf[w].order, attempt |-> pdf[w].attempt + 1]
                         \in [stage : Stages, order : Orders, attempt : 1..MaxAttempts]
                    BY <4>1, <5>1 DEF Stages
                <5> QED BY <4>1, <4>3, <5>2
            <4> QED BY <4>2, <4>3
        <3>2. VerdictRules'
            BY <2>2 DEF VerdictRules
        <3>3. FilesAreThere'
            BY DEF FilesAreThere
        <3> QED BY <3>1, <3>2, <3>3
    <2>9. ASSUME PdfCrash(w)
          PROVE  TypeOK' /\ VerdictRules' /\ FilesAreThere'
        <3> USE <1>0, <2>9, WorkerTypes DEF PdfCrash, Abandon, TypeOK, mailVars, Doing, Idle, Writing
        <3>1. TypeOK'
            OBVIOUS
        <3>2. VerdictRules'
            BY <2>2 DEF VerdictRules
        <3>3. FilesAreThere'
            BY DEF FilesAreThere
        <3> QED BY <3>1, <3>2, <3>3
    <2> QED BY <1>3, <2>3, <2>4, <2>5, <2>6, <2>7, <2>8, <2>9 DEF PdfNext
<1>4. ASSUME NEW w \in Workers, MailNext(w)
      PROVE  TypeOK' /\ FulfilmentInv'
    <2> UNCHANGED <<verdict, pdfVars>>
        BY <1>4 DEF MailNext, MarkSent, SendMail, MailCrash
    <2>1. FilesAreThere'
        BY <1>0, FilesUntouched
    <2> SUFFICES TypeOK' /\ VerdictRules' /\ MailsAreLogged' /\ MailedAtMostOnce'
        BY <2>1 DEF FulfilmentInv
    <2>2. ASSUME NEW o \in Orders, NEW t \in EventTypes, MarkSent(w, o, t)
          PROVE  TypeOK' /\ VerdictRules' /\ MailsAreLogged' /\ MailedAtMostOnce'
        <3> USE <1>0, <2>2, WorkerTypes DEF MarkSent, TypeOK, pdfVars
        <3>1. TypeOK'
            OBVIOUS
        <3>2. VerdictRules'
            BY DEF VerdictRules, Events, Doing
        <3>3. MailsAreLogged'
            BY DEF MailsAreLogged, NoMail, EventTypes
        <3> QED BY <3>1, <3>2, <3>3 DEF MailedAtMostOnce
    <2>3. ASSUME SendMail(w)
          PROVE  TypeOK' /\ VerdictRules' /\ MailsAreLogged' /\ MailedAtMostOnce'
        <3> USE <1>0, <2>3, WorkerTypes DEF SendMail, TypeOK, pdfVars
        <3>1. TypeOK'
            BY DEF NoMail
        <3>2. VerdictRules'
            BY DEF VerdictRules, Events, Doing
        <3>3. \A v \in Workers : mail[v] # NoMail /\ mail[v].order = mail[w].order /\ mail[v].type = mail[w].type
                 => mail[v] = mail[w]
            OBVIOUS
        <3>4. \A v \in Workers \ {w} : mail[v] # NoMail =>
                 mails'[mail[v].order][mail[v].type] = mails[mail[v].order][mail[v].type]
            BY <3>3 DEF MailsAreLogged
        <3>5. MailsAreLogged'
            <4>1. \A o \in Orders, t \in EventTypes : mails'[o][t] > 0 => t \in notified[o]
                BY DEF MailsAreLogged
            <4>2. \A v \in Workers : mail'[v] # NoMail => v # w /\ mail'[v] = mail[v]
                OBVIOUS
            <4>3. \A v \in Workers : mail'[v] # NoMail =>
                     /\ mail'[v].type \in notified[mail'[v].order]
                     /\ mails'[mail'[v].order][mail'[v].type] = 0
                BY <3>4, <4>2 DEF MailsAreLogged
            <4>4. \A u, v \in Workers : mail'[u] = mail'[v] /\ mail'[v] # NoMail => u = v
                BY <4>2 DEF MailsAreLogged
            <4> QED BY <4>1, <4>3, <4>4 DEF MailsAreLogged
        <3>6. MailedAtMostOnce'
            BY DEF MailsAreLogged, MailedAtMostOnce
        <3> QED BY <3>1, <3>2, <3>5, <3>6
    <2>4. ASSUME MailCrash(w)
          PROVE  TypeOK' /\ VerdictRules' /\ MailsAreLogged' /\ MailedAtMostOnce'
        <3> USE <1>0, <2>4 DEF MailCrash, TypeOK, pdfVars
        <3>1. TypeOK'
            BY DEF NoMail
        <3>2. VerdictRules'
            BY DEF VerdictRules, Events, Doing
        <3>3. MailsAreLogged' /\ MailedAtMostOnce'
            BY DEF MailsAreLogged, MailedAtMostOnce
        <3> QED BY <3>1, <3>2, <3>3
    <2> QED BY <1>4, <2>2, <2>3, <2>4 DEF MailNext
<1> QED BY <1>1, <1>2, <1>3, <1>4 DEF Next

\* The log of notification-service, the files and events of pdf-service and
\* the workers of both agree with the orders' verdicts, always.
THEOREM FulfilmentInvariant == Spec => [](TypeOK /\ FulfilmentInv)
<1>1. Init => TypeOK /\ FulfilmentInv
    BY FulfilmentInitially
<1>2. TypeOK /\ FulfilmentInv /\ [Next]_vars => (TypeOK /\ FulfilmentInv)'
    BY FulfilmentStep
<1> QED BY <1>1, <1>2, PTL DEF Spec

\* No mail is sent twice.
THEOREM MailedOnceTheorem == Spec => []MailedAtMostOnce
<1>1. FulfilmentInv => MailedAtMostOnce
    BY DEF FulfilmentInv
<1> QED BY <1>1, FulfilmentInvariant, PTL

\* No customer is told that an order is cancelled and also that it is confirmed
\* or that its receipt is ready.
THEOREM OneStoryTheorem == Spec => []MailsTellOneStory
<1>1. TypeOK /\ FulfilmentInv => MailsTellOneStory
    BY DEF TypeOK, FulfilmentInv, VerdictRules, MailsAreLogged, MailsTellOneStory, Events, EventTypes
<1> QED BY <1>1, FulfilmentInvariant, PTL

\* An announced receipt is whole unless its writing was disturbed.
THEOREM ReceiptTheorem == Spec => []ReceiptIsWhole
<1>1. TypeOK /\ FulfilmentInv => ReceiptIsWhole
    BY DEF TypeOK, FulfilmentInv, FilesAreThere, ReceiptIsWhole
<1> QED BY <1>1, FulfilmentInvariant, PTL

=============================================================================
