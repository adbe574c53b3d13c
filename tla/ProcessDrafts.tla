---------------------------- MODULE ProcessDrafts ----------------------------
(***************************************************************************)
(* From a proposal of the assistant to the process that is deployed: the   *)
(* content of the draft, and the process built from it on top of what the  *)
(* server holds.  Code is a text and the number of markers in front of it. *)
(***************************************************************************)
EXTENDS Naturals, FiniteSetsExt, Functions

Tabs == {"prolog", "metadata", "data", "epilog"}
Order == <<"prolog", "metadata", "data", "epilog">>
Described == {"datasource", "variables", "parameters"}
Fields == Tabs \cup Described \cup {"other"}  \* quote characters, positions, interface data

Code(text) == [text |-> text, marks |-> 0]
NoProcess == [f \in {} |-> Code("")]

\* A new process of TM1py.
Fresh == [f \in Fields |-> Code("")]

\* What a draft's content and a server's process may hold.
SomeCode == {Code(""), Code("old"), [text |-> "old", marks |-> 1]}
Bodies ==
  {b \in [Fields -> SomeCode] :
     /\ \A f \in Fields \ Tabs : b[f].marks = 0
     /\ b["metadata"] = b["data"] /\ b["variables"] = b["parameters"]}
Given ==
  UNION {[D -> {Code(""), Code("new"), [text |-> "new", marks |-> 1]}] :
           D \in {E \in SUBSET (Tabs \cup Described) : Cardinality(E) <= 2}}

-----------------------------------------------------------------------------
\* mark_ai_generated: once, also when the assistant sends back what it read.
mark_ai_generated(c) == IF c.marks > 0 THEN c ELSE [c EXCEPT !.marks = 1]

\* propose_process_update: the first tab of the proposal is marked, an empty one is added
\* to a new process that comes without code.
First(content) == Order[Min({i \in 1 .. 4 : Order[i] \in DOMAIN content})]
propose_process_update(given, new) ==
  LET coded == (DOMAIN given) \cap Tabs # {}
      content == IF ~coded /\ new
                 THEN [f \in DOMAIN given \cup {"prolog"} |->
                         IF f = "prolog" THEN Code("") ELSE given[f]]
                 ELSE given
  IN  IF coded \/ new THEN [content EXCEPT ![First(content)] = mark_ai_generated(@)] ELSE content

\* copy_content: the fields as the review shows them, without what it has no slot for.
copy_content(body) == Restrict(body, Tabs \cup Described)

(***************************************************************************)
(* _build_process: on top of the server's process for an update, of the    *)
(* exact source for a copy, else from nothing.  Tabs come from the         *)
(* content; a copy's description is there for the review only.             *)
(***************************************************************************)
Set(content, f) == f \in DOMAIN content /\ (f = "datasource" => content[f].text # "")
Applied(process, content, fields) ==
  [f \in Fields |-> IF f \in fields /\ Set(content, f) THEN content[f] ELSE process[f]]

build_process(base, source, content) ==
  IF base # NoProcess THEN Applied(base, content, Tabs \cup Described)
  ELSE IF source # NoProcess THEN Applied(source, content, Tabs)
  ELSE Applied(Fresh, content, Tabs \cup Described)

-----------------------------------------------------------------------------
\* A copy is its source to the last field, also those the draft has no slot for.
CopyIsExact == \A body \in Bodies : build_process(NoProcess, body, copy_content(body)) = body

\* An update changes what it names and nothing else, and keeps one marker at most in a tab
\* however often code is read and proposed again.
UpdateChangesWhatItNames ==
  \A body \in Bodies, given \in Given :
    LET p == build_process(body, NoProcess, propose_process_update(given, FALSE))
    IN  \A f \in Fields :
          /\ ~Set(given, f) => p[f] = body[f]
          /\ Set(given, f) => p[f].text = given[f].text
          /\ p[f].marks <= 1

\* Code the assistant wrote is marked in the process it goes into, whichever tab it is in.
AssistantCodeIsMarked ==
  \A given \in Given :
    /\ \E f \in Tabs : build_process(NoProcess, NoProcess, propose_process_update(given, TRUE))[f].marks = 1
    /\ \A body \in Bodies :
         DOMAIN given \cap Tabs # {} =>
           \E f \in Tabs : build_process(body, NoProcess, propose_process_update(given, FALSE))[f].marks = 1
=============================================================================
