--------------------------- MODULE ControlledRecords ---------------------------
(***************************************************************************)
(* Two registers of one project: controlled documents, numbered when they  *)
(* are registered, with revisions under codes their authors choose; and    *)
(* clarifications, questions that are answered, reopened and answered      *)
(* again.                                                                  *)
(*                                                                         *)
(* A command is one step: it runs under the organisation's row lock and    *)
(* re-reads what it decides on (DurableProjectCommand).  One that expects  *)
(* another version than the current is refused, which changes nothing.     *)
(***************************************************************************)
EXTENDS Naturals, Sequences, FiniteSets, NoValue

CONSTANTS
  Documents, Questions,  \* identifiers
  Series,                \* discipline and type, which a document's number names
  Codes,                 \* revision codes
  LegacyNumbers,         \* sequence numbers of documents from before the register
  MaxAnswers             \* bound: responses to one question

DocumentRow ==
  [series: Series, sequence: Nat \ {0}, legacy: BOOLEAN, version: Nat \ {0}, revisions: Nat]

QuestionRow == [version: Nat \ {0}, status: {"open", "answered"}, latest: Nat \cup {None}]

ASSUME RecordsAssumption ==
  /\ IsFiniteSet(Documents) /\ LegacyNumbers \subseteq Nat \ {0}
  /\ None \notin Nat \cup DocumentRow \cup QuestionRow

VARIABLES
  document,   \* controlled_documents
  revision,   \* controlled_document_revisions
  question,   \* clarifications
  response,   \* clarification_responses of each question, by record version
  history     \* clarification_history of each question

documentVars == <<document, revision>>
questionVars == <<question, response, history>>
recordVars == <<documentVars, questionVars>>

-----------------------------------------------------------------------------
(* Documents. *)

InRegister == {d \in Documents : document[d] # None}

Number(d) == <<document[d].series, document[d].sequence>>

\* Broken variant: the number follows from the count alone.
CountPlusOne(series) == Cardinality(InRegister) + 1

\* The first number of the series, counting on from the number of documents of
\* all series, that no document has; the documents cannot have all of as many
\* numbers again and one.
NextSequence(series) ==
  LET count == Cardinality(InRegister)
      Taken(n) == <<series, n>> \in {Number(d) : d \in InRegister}
  IN CHOOSE n \in count + 1 .. 2 * count + 1 : ~Taken(n) /\ \A m \in count + 1 .. n - 1 : Taken(m)

Register(d, series) ==
  /\ document[d] = None
  /\ document' = [document EXCEPT ![d] =
       [series |-> series, sequence |-> NextSequence(series), legacy |-> FALSE,
        version |-> 1, revisions |-> 0]]
  /\ UNCHANGED <<revision, questionVars>>

AddRevision(d, code) ==
  /\ d \in InRegister
  /\ \A r \in revision : r.document = d => r.code # code
  /\ revision' = revision \cup {[document |-> d, code |-> code, at |-> document[d].version + 1]}
  /\ document' = [document EXCEPT ![d].revisions = @ + 1, ![d].version = @ + 1]
  /\ UNCHANGED questionVars

-----------------------------------------------------------------------------
(* Clarifications.  A response is known by the record version it made. *)

Event(action, version, answer) == [action |-> action, version |-> version, response |-> answer]

Noted(q, event) == history' = [history EXCEPT ![q] = Append(@, event)]

Ask(q) ==
  /\ question[q] = None
  /\ question' = [question EXCEPT ![q] = [version |-> 1, status |-> "open", latest |-> None]]
  /\ Noted(q, Event("created", 1, None))
  /\ UNCHANGED <<response, documentVars>>

Respond(q) ==
  /\ question[q] # None /\ question[q].status = "open"
  /\ Cardinality(response[q]) < MaxAnswers
  /\ LET version == question[q].version + 1
     IN /\ response' = [response EXCEPT ![q] = @ \cup {version}]
        /\ question' = [question EXCEPT ![q] =
             [version |-> version, status |-> "answered", latest |-> version]]
        /\ Noted(q, Event("responded", version, version))
  /\ UNCHANGED documentVars

\* Broken variant: the answer set aside stays the latest.
ReopenKeepingAnswer(q) ==
  /\ question[q] # None /\ question[q].status = "answered"
  /\ question' = [question EXCEPT ![q].status = "open", ![q].version = @ + 1]
  /\ Noted(q, Event("reopened", question[q].version + 1, question[q].latest))
  /\ UNCHANGED <<response, documentVars>>

Reopen(q) ==
  /\ question[q] # None /\ question[q].status = "answered"
  /\ LET version == question[q].version + 1
     IN /\ question' = [question EXCEPT ![q] =
             [version |-> version, status |-> "open", latest |-> None]]
        /\ Noted(q, Event("reopened", version, question[q].latest))
  /\ UNCHANGED <<response, documentVars>>

-----------------------------------------------------------------------------
\* Documents from before the register have any number and were never revised in it.
RecordsInit ==
  /\ document \in [Documents ->
       {None} \cup [series: Series, sequence: LegacyNumbers, legacy: {TRUE},
                    version: {1}, revisions: {0}]]
  /\ revision = {}
  /\ question = [q \in Questions |-> None]
  /\ response = [q \in Questions |-> {}]
  /\ history = [q \in Questions |-> <<>>]

RecordsNext ==
  \/ \E d \in Documents :
       (\E s \in Series : Register(d, s)) \/ (\E code \in Codes : AddRevision(d, code))
  \/ \E q \in Questions : Ask(q) \/ Respond(q) \/ Reopen(q)

RecordsSpec == RecordsInit /\ [][RecordsNext]_recordVars

-----------------------------------------------------------------------------
(* Properties. *)

\* Rows of the two registers.
RecordsTypeOK ==
  /\ document \in [Documents -> {None} \cup DocumentRow]
  /\ revision \subseteq [document: InRegister, code: Codes, at: Nat \ {0}]
  /\ question \in [Questions -> {None} \cup QuestionRow]
  /\ response \in [Questions -> SUBSET Nat]

\* No other document has the number the register gave to one, not even one numbered
\* before the register; every step of its row version is one revision, under a code
\* of its own.
DocumentsApart ==
  \A d \in InRegister :
    LET mine == {r \in revision : r.document = d}
    IN /\ ~document[d].legacy => \A e \in InRegister \ {d} : Number(e) # Number(d)
       /\ \A r, s \in mine : r.code = s.code => r = s
       /\ {r.at : r \in mine} = 2 .. document[d].version

\* The history has every version of a question once; an answered question shows
\* its last response and an open one none; every other response was set aside by
\* one reopening, before the next response came.
QuestionsWhole ==
  \A q \in Questions : question[q] # None =>
    LET events == history[q]
        SetAside(r) == {i \in DOMAIN events :
                          events[i].action = "reopened" /\ events[i].response = r}
    IN /\ Len(events) = question[q].version
       /\ \A i \in DOMAIN events : events[i].version = i
       /\ question[q].status = "answered" <=> question[q].latest \in response[q]
       /\ \A r \in response[q] \ {question[q].latest} : SetAside(r) = {r + 1}
       /\ \A r \in response[q] : r <= question[q].version

\* Both registers keep their records whole, whatever is registered, revised,
\* answered and reopened in whatever order.
RecordsWhole == DocumentsApart /\ QuestionsWhole
=============================================================================
