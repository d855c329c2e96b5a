------------------------------ MODULE Browser ------------------------------
(* One run's browser: its single page, shared by the run's parallel steps,  *)
(* each with its own allowed_hosts.  A tool call runs inside `operation`    *)
(* (one lock, the step's own policy installed), checks the page, reads it   *)
(* or acts on it, and is fenced: what came from a document nobody checked   *)
(* is withheld.  The page navigates whenever it likes, by its scripts or a  *)
(* server's redirects, and the connector learns of a navigation only when   *)
(* its event arrives, in order, and before the reply to anything run in the *)
(* new document.  Playwright and the sites are the environment; a cancelled *)
(* call releases the lock and answers nothing.                              *)
EXTENDS Naturals, Sequences

CONSTANTS
  Steps,        \* steps that may call the browser at the same time
  Hosts,        \* the hosts a URL can name
  Restricted,   \* the steps some capability layer restricts to hosts
  AllowedHosts, \* per step, the hosts its layers allow
  Nobody,       \* no step
  MaxPages,     \* bound: documents the page goes through by itself
  MaxCalls,     \* bound: tool calls of a step
  MaxHops,      \* bound: redirects of one fetch (_MAX_REDIRECTS is 20)
  MaxFaults     \* bound: launches and cleanings that fail

VARIABLES
  browser,  \* the run's connector: none, open, left behind, failed or closed
  pages,    \* the documents the page held, in order; the last is shown
  known,    \* how many of them the connector was told of (_navigations, url)
  owner,    \* the step that holds _operation_lock
  policy,   \* the step whose policy is installed (_host_allowed)
  asked,    \* per step, its call: tool, phase, documents, fetch target
  reply,    \* per step, what its last finished call answered, and of which
            \* documents when it quotes one
  sent,     \* requests made for a step: <<step, host>>
  files,    \* files in the run's downloads directory: <<step, host>>
  mishaps   \* launches and cleanings that failed

bVars == <<browser, pages, known, owner, policy, asked, reply, sent, files, mishaps>>

-----------------------------------------------------------------------------
(* Tools.  A read is answered with what the page gave ("read": its text, a   *)
(* table or a wait's error), an act with nothing of the page ("click": also *)
(* a fill, an upload and a submit, which run the same way); a download is an *)
(* act whose file is then judged.                                           *)
Reads == {"read", "screenshot"}
Acts  == {"click", "download"}
Tools == Reads \union Acts \union {"navigate", "fetch_url"}

Idle     == [tool |-> "none", phase |-> "idle", checked |-> 0, seen |-> 0,
             ok |-> TRUE, target |-> "blank", hops |-> 0, calls |-> 0]
NoAnswer == [kind |-> "none", seen |-> 1, checked |-> 1]
Places   == Hosts \union {"blank", "error"}

TypeOK ==
  /\ browser \in {"none", "open", "left", "failed", "closed"}
  /\ pages \in Seq(Places) /\ known \in 1 .. Len(pages)
  /\ owner \in Steps \union {Nobody} /\ policy \in Steps \union {Nobody}
  /\ sent \subseteq Steps \X Hosts /\ files \subseteq Steps \X Places

Init ==
  /\ browser = "none" /\ pages = <<"blank">> /\ known = 1
  /\ owner = Nobody /\ policy = Nobody
  /\ asked = [s \in Steps |-> Idle] /\ reply = [s \in Steps |-> NoAnswer]
  /\ sent = {} /\ files = {} /\ mishaps = 0

-----------------------------------------------------------------------------
(* The connector's lifetime.                                               *)

\* Built before the first step.  A launch that fails part-way was never put
\* among the run's connectors, so nothing stops what it had started.
Build ==
  /\ browser = "none"
  /\ \/ browser' = "open" /\ mishaps' = mishaps
     \/ mishaps < MaxFaults /\ mishaps' = mishaps + 1 /\ browser' \in {"failed", "left"}
  /\ UNCHANGED <<pages, known, owner, policy, asked, reply, sent, files>>

\* The run's `finally`: every call has returned or was cancelled.
Teardown ==
  /\ browser = "open" /\ \A s \in Steps : asked[s].phase = "idle"
  /\ browser' = "closed"
  /\ UNCHANGED <<pages, known, owner, policy, asked, reply, sent, files, mishaps>>

-----------------------------------------------------------------------------
(* The page, the policy in force, and what the connector knows.            *)

Governed == policy \in Restricted

\* url_host_allowed under the installed policy.
Permits(host) == Governed => host \in AllowedHosts[policy]

\* Where the page may be left alone; a blank page shows nothing.
Admitted(place) == place = "blank" \/ Permits(place)

\* The page leaves for another document, on its own or pulled by a server:
\* only the first hop of a navigation passes the route handler, so it may
\* land anywhere; a blocked first hop leaves Chromium's error page.
PageMoves(place) ==
  /\ browser = "open" /\ Len(pages) < MaxPages
  /\ place = "error" => Governed
  /\ pages' = Append(pages, place)
  /\ UNCHANGED <<browser, known, owner, policy, asked, reply, sent, files, mishaps>>

\* framenavigated is dispatched.
EventArrives ==
  /\ known < Len(pages) /\ known' = known + 1
  /\ UNCHANGED <<browser, pages, owner, policy, asked, reply, sent, files, mishaps>>

\* What the connector may know at the reply to something run in document d.
KnownAtReply(d) == (IF d > known THEN d ELSE known) .. Len(pages)

\* Mutant of SameDocument: the URL decides, so leaving and coming back is not noticed
MutSameDocument(d, e) == pages[d] = pages[e]

\* _document: the number of navigations decides; the URL alone would not.
SameDocument(d, e) == d = e

-----------------------------------------------------------------------------
(* operation: the lock, the step's policy, the answer.                     *)

Call(s, tool, host) ==
  /\ browser = "open" /\ asked[s].phase = "idle" /\ asked[s].calls < MaxCalls
  /\ asked' = [asked EXCEPT ![s] = [Idle EXCEPT
       !.tool = tool, !.phase = "waiting", !.target = host, !.calls = asked[s].calls + 1]]
  /\ UNCHANGED <<browser, pages, known, owner, policy, reply, sent, files, mishaps>>

\* Mutant of Free: the policy is set without the lock
MutFree == TRUE

Free == owner = Nobody

Enter(s) ==
  /\ asked[s].phase = "waiting" /\ Free
  /\ owner' = s /\ policy' = s
  /\ asked' = [asked EXCEPT ![s].phase = "entered"]
  /\ UNCHANGED <<browser, pages, known, reply, sent, files, mishaps>>

\* The call leaves `operation`; what kind of answer its tool makes of it.
Leave(s) ==
  /\ owner' = Nobody
  /\ asked' = [asked EXCEPT ![s] = [Idle EXCEPT !.calls = asked[s].calls]]

Answer(s, kind) ==
  /\ Leave(s)
  /\ reply' = [reply EXCEPT ![s] =
       IF kind \in {"content", "error"}
         THEN [kind |-> kind, seen |-> asked[s].seen, checked |-> asked[s].checked]
         ELSE [NoAnswer EXCEPT !.kind = kind]]

\* _error: only a vouched error, or any error without a policy, is quoted.
Fails(s, vouched) == Answer(s, IF Governed /\ ~vouched THEN "class" ELSE "error")

\* _enforce_landing on a page that is not admitted: cleaned, or not.
Cleaning ==
  \/ pages' = Append(pages, "blank") /\ known' = Len(pages) + 1 /\ mishaps' = mishaps
  \/ mishaps < MaxFaults /\ mishaps' = mishaps + 1 /\ UNCHANGED <<pages, known>>

Cancel(s) ==
  /\ asked[s].phase # "idle"
  /\ owner' = IF owner = s THEN Nobody ELSE owner
  /\ asked' = [asked EXCEPT ![s] = [Idle EXCEPT !.calls = asked[s].calls]]
  /\ UNCHANGED <<browser, pages, known, policy, reply, sent, files, mishaps>>

-----------------------------------------------------------------------------
(* Reads and acts: guard, run, fence.                                      *)

Guard(s) ==
  /\ asked[s].phase = "entered" /\ asked[s].tool \in Reads \union Acts
  /\ IF Admitted(pages[known])
       THEN /\ asked' = [asked EXCEPT ![s].phase = "running", ![s].checked = known]
            /\ UNCHANGED <<pages, known, owner, reply, mishaps>>
       ELSE Cleaning /\ Answer(s, "denied")
  /\ UNCHANGED <<browser, policy, sent, files>>

\* The library runs it in whatever document the page holds by then.
Runs(s, ok) ==
  asked' = [asked EXCEPT ![s].phase = "returned", ![s].seen = Len(pages), ![s].ok = ok]

RunRead(s) ==
  /\ asked[s].phase = "running" /\ asked[s].tool \in Reads
  /\ \E ok \in BOOLEAN : Runs(s, ok)
  /\ UNCHANGED <<browser, pages, known, owner, policy, reply, sent, files, mishaps>>

\* An act may ask for another document: _route_navigation judges the request.
RunAct(s) ==
  /\ asked[s].phase = "running" /\ asked[s].tool \in Acts
  /\ \E ok \in BOOLEAN : Runs(s, ok)
  /\ \/ UNCHANGED <<pages, sent>>
     \/ \E host \in Hosts : \E place \in Hosts :
          /\ Len(pages) < MaxPages
          /\ pages' = Append(pages, IF Permits(host) THEN place ELSE "error")
          /\ sent' = sent \union (IF Permits(host) THEN {<<s, host>>} ELSE {})
  /\ UNCHANGED <<browser, known, owner, policy, reply, files, mishaps>>

Withhold(s, k) ==
  /\ Answer(s, "withheld")
  /\ IF Admitted(pages[k]) THEN known' = k /\ UNCHANGED <<pages, mishaps>>
                           ELSE Cleaning

\* _fenced, and screenshot moving its pending file.
FenceRead(s) ==
  /\ asked[s].phase = "returned" /\ asked[s].tool \in Reads
  /\ \E k \in KnownAtReply(asked[s].seen) :
       IF Governed /\ ~SameDocument(k, asked[s].checked)
         THEN Withhold(s, k) /\ files' = files
         ELSE /\ known' = k /\ UNCHANGED <<pages, mishaps>>
              /\ IF asked[s].ok THEN Answer(s, "content") ELSE Fails(s, TRUE)
              /\ files' = files \union
                   (IF asked[s].ok /\ asked[s].tool = "screenshot"
                      THEN {<<s, pages[asked[s].seen]>>} ELSE {})
  /\ UNCHANGED <<browser, policy, sent>>

\* _acted: a normal return is judged by where the page ends.
FenceAct(s) ==
  /\ asked[s].phase = "returned" /\ asked[s].tool \in Acts
  /\ \E k \in KnownAtReply(asked[s].seen) :
       \/ /\ ~asked[s].ok
          /\ IF Governed /\ ~SameDocument(k, asked[s].checked)
               THEN Withhold(s, k)
               ELSE known' = k /\ UNCHANGED <<pages, mishaps>> /\ Fails(s, TRUE)
       \/ /\ asked[s].ok /\ ~Admitted(pages[k])
          /\ Cleaning /\ Answer(s, "denied")
       \/ /\ asked[s].ok /\ Admitted(pages[k])
          /\ known' = k /\ UNCHANGED <<pages, mishaps>>
          /\ IF asked[s].tool = "click"
               THEN Answer(s, "done")
               ELSE /\ asked' = [asked EXCEPT ![s].phase = "saving"]
                    /\ UNCHANGED <<owner, reply>>
  /\ UNCHANGED <<browser, policy, sent, files>>

\* A download's source is judged before it is saved.
Save(s, source) ==
  /\ asked[s].phase = "saving"
  /\ \/ ~Permits(source) /\ Answer(s, "denied") /\ files' = files
     \/ Permits(source) /\ Answer(s, "saved") /\ files' = files \union {<<s, source>>}
     \/ Permits(source) /\ Fails(s, FALSE) /\ files' = files
  /\ UNCHANGED <<browser, pages, known, policy, sent, mishaps>>

-----------------------------------------------------------------------------
(* What the agent asks for by URL.                                         *)

\* check_url, then the request.
Request(s) ==
  /\ asked[s].phase = "entered" /\ asked[s].tool \in {"navigate", "fetch_url"}
  /\ IF Permits(asked[s].target)
       THEN /\ asked' = [asked EXCEPT ![s].phase = "in_flight"]
            /\ sent' = sent \union {<<s, asked[s].target>>} /\ UNCHANGED <<owner, reply>>
       ELSE Answer(s, "denied") /\ sent' = sent
  /\ UNCHANGED <<browser, pages, known, policy, files, mishaps>>

\* navigate: the page ends where the servers' redirects lead.
Arrive(s) ==
  /\ asked[s].phase = "in_flight" /\ asked[s].tool = "navigate"
  /\ \/ Fails(s, FALSE) /\ UNCHANGED <<pages, known, mishaps>>
     \/ \E place \in Hosts :
          /\ Len(pages) < MaxPages
          /\ IF Admitted(place)
               THEN /\ pages' = Append(pages, place) /\ known' = Len(pages) + 1
                    /\ mishaps' = mishaps /\ Answer(s, "done")
               ELSE /\ \/ /\ pages' = pages \o <<place, "blank">>
                          /\ known' = Len(pages) + 2 /\ mishaps' = mishaps
                       \/ /\ mishaps < MaxFaults /\ mishaps' = mishaps + 1
                          /\ pages' = Append(pages, place) /\ known' = Len(pages) + 1
                    /\ Answer(s, "denied")
  /\ UNCHANGED <<browser, policy, sent, files>>

\* _fetch_checked: under a policy a redirect is followed one hop at a time.
Redirect(s, host) ==
  /\ asked[s].phase = "in_flight" /\ asked[s].tool = "fetch_url" /\ Governed
  /\ IF Permits(host) /\ asked[s].hops < MaxHops
       THEN /\ asked' = [asked EXCEPT ![s].target = host, ![s].hops = @ + 1]
            /\ sent' = sent \union {<<s, host>>} /\ UNCHANGED <<owner, reply>>
       ELSE Answer(s, "denied") /\ sent' = sent
  /\ UNCHANGED <<browser, pages, known, policy, files, mishaps>>

\* The body is saved, or the request failed; without a policy the library
\* followed the redirects itself.
Fetched(s) ==
  /\ asked[s].phase = "in_flight" /\ asked[s].tool = "fetch_url"
  /\ \/ Fails(s, FALSE) /\ files' = files
     \/ /\ Answer(s, "saved")
        /\ \E host \in IF Governed THEN {asked[s].target} ELSE Hosts :
             files' = files \union {<<s, host>>}
  /\ UNCHANGED <<browser, pages, known, policy, sent, mishaps>>

-----------------------------------------------------------------------------
StepNext(s) ==
  \/ \E tool \in Reads \union Acts : Call(s, tool, "blank")
  \/ \E tool \in {"navigate", "fetch_url"}, host \in Hosts : Call(s, tool, host)
  \/ Enter(s) \/ Cancel(s) \/ Guard(s)
  \/ RunRead(s) \/ RunAct(s) \/ FenceRead(s) \/ FenceAct(s)
  \/ \E host \in Hosts : Save(s, host) \/ Redirect(s, host)
  \/ Request(s) \/ Arrive(s) \/ Fetched(s)

Next ==
  \/ Build \/ Teardown \/ EventArrives
  \/ \E place \in Places : PageMoves(place)
  \/ \E s \in Steps : StepNext(s)

Spec == Init /\ [][Next]_bVars

-----------------------------------------------------------------------------
(* Properties.                                                             *)

Within(s, place) == s \in Restricted => place \in AllowedHosts[s] \union {"blank"}

\* What a restricted step is told of a page, a result or an error's text, is
\* of one document, the one its call checked, on a host its own layers allow:
\* however the page moved under the call, and whatever a sibling step's wider
\* policy would have let through (base.py's contract, _fenced, operation).
AnswersAreOfTheCheckedPage ==
  \A s \in Restricted :
    reply[s].kind \in {"content", "error"} =>
      reply[s].seen = reply[s].checked /\ Within(s, pages[reply[s].seen])

\* Every request a call makes and every file it leaves in the run's directory
\* is of a host its own step may use, redirects and downloads included.
CallsStayWithinTheirPolicy ==
  \A r \in sent \union files : Within(r[1], r[2])

\* Both.
BrowserIsGoverned == AnswersAreOfTheCheckedPage /\ CallsStayWithinTheirPolicy

\* base.py:14: the engine tears the browser down in the run's `finally` block.
\* It does not when the launch failed part-way.
NoBrowserOutlivesItsRun == browser # "left"

=============================================================================
