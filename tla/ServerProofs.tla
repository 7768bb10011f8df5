----------------------------- MODULE ServerProofs -----------------------------
(* Proofs about the servers' dispatch. GitLab's hooks: a commit is reviewed once and a
   merge date is true, for any pushes, edits, redeliveries and settings. The GitHub app's
   push handler: at most one task of a pull request runs and at most one waits for it,
   however the entries of the dictionaries expire in between. The polling loop: a command
   is run again only for a cause, however often a notification is delivered. *)
EXTENDS HookDispatch, GithubPushTrigger, GithubPolling, FiniteSetTheorems, SequenceTheorems, TLAPS

-----------------------------------------------------------------------------
(* HookDispatch. Neither property is inductive: that a commit is reviewed once needs to
   know which hooks may still start a run for it, and that a merge date is true needs to
   know that merging is final. *)

Commits == Tips \ {0}

\* A hook on its way that brings the commit t.
Bringing(t) == {h \in inbox : h.pushed /\ h.tip = t}

MRFields == [state : {"none", "opened", "merged", "closed"}, draft : BOOLEAN, tip : Tips, applied : SUBSET Tips]

DispatchTypes ==
    /\ mergeRequest \in MRFields
    /\ hookCount \in Nat
    /\ claims \subseteq Tips
    /\ runCount \in [Tips -> Nat]
    /\ resent \in [Tips -> Nat]

\* Hooks tell of commits that were pushed, and of each truly whether it was an Apply; the
\* update that brings a commit is one.
HooksAreTrue ==
    /\ mergeRequest.applied \subseteq 0..mergeRequest.tip
    /\ \A h \in inbox :
        /\ h.tip \in 0..mergeRequest.tip
        /\ h.apply <=> h.tip \in mergeRequest.applied
        /\ h.pushed => h.kind \in {"push", "update"} /\ h.tip # 0
        /\ h.kind = "push" => h.pushed
    /\ \A g, h \in inbox :
        g.pushed /\ h.pushed /\ g.kind = "update" /\ h.kind = "update" /\ g.tip = h.tip => g = h

\* A commit that may still start a run has run once less. An Apply commit may while it
\* is not claimed; another while the update that brings it is on its way.
MayStart(t) ==
    IF t \in mergeRequest.applied THEN t \notin claims /\ Bringing(t) # {}
    ELSE \E h \in Bringing(t) : h.kind = "update"
RunsAreCounted ==
    \A t \in Commits :
        /\ t > mergeRequest.tip => runCount[t] = 0 /\ t \notin claims
        /\ runCount[t] <= 1 + resent[t]
        /\ MayStart(t) => runCount[t] <= resent[t]

DispatchInv == DispatchTypes /\ HooksAreTrue /\ RunsAreCounted

-----------------------------------------------------------------------------
LEMMA InitDispatch == HookInit => DispatchInv
<1> SUFFICES ASSUME HookInit PROVE DispatchInv
  OBVIOUS
<1>0. 0 \in Tips /\ Tips \subseteq Nat
  BY DispatchAssumption DEF Tips
<1>1. DispatchTypes
  <2>1. mergeRequest \in MRFields
    BY <1>0 DEF HookInit, MRFields
  <2>2. QED
    BY <1>0, <2>1 DEF HookInit, DispatchTypes
<1>2. HooksAreTrue
  BY DEF HookInit, HooksAreTrue
<1>3. RunsAreCounted
  BY <1>0 DEF HookInit, RunsAreCounted, MayStart, Bringing, Commits
<1>4. QED
  BY <1>1, <1>2, <1>3 DEF DispatchInv

-----------------------------------------------------------------------------
(* The steps of GitLab and the people send hooks; they start no run and claim nothing. *)

LEMMA Numbers ==
    ASSUME DispatchTypes
    PROVE  /\ Tips \subseteq Nat /\ 0 \in Tips
           /\ mergeRequest.tip \in Nat /\ mergeRequest.tip <= MaxCommits
           /\ \A t \in Tips : runCount[t] \in Nat /\ resent[t] \in Nat
BY DispatchAssumption DEF DispatchTypes, MRFields, Tips

\* A step that leaves the commits as they are and sends a hook that brings none.
LEMMA QuietSend ==
    ASSUME DispatchInv, NEW m \in MRFields, NEW kind, NEW actor, kind # "push",
           mergeRequest' = m, inbox' = inbox \cup {Hook(m, kind, FALSE, actor)}, hookCount' = hookCount + 1,
           UNCHANGED <<claims, runCount, resent>>,
           m.tip = mergeRequest.tip, m.applied = mergeRequest.applied
    PROVE  DispatchInv'
<1> USE Numbers DEF DispatchInv
<1> DEFINE sentHooks == {Hook(m, kind, FALSE, actor)}
           sent == Hook(m, kind, FALSE, actor)
<1>a. ~sent.pushed /\ sent.kind # "push" /\ sent.tip = m.tip /\ (sent.apply <=> m.tip \in m.applied)
  BY DEF Hook
<1>0. \A h \in sentHooks : ~h.pushed /\ h.kind # "push" /\ h.tip = m.tip /\ (h.apply <=> m.tip \in m.applied)
  <2> HIDE DEF sent
  <2>1. sentHooks = {sent}
    BY DEF sent
  <2>2. QED
    BY <1>a, <2>1
<1> HIDE DEF sentHooks
<1>1. /\ mergeRequest' = m /\ inbox' = inbox \cup sentHooks /\ hookCount' = hookCount + 1
      /\ UNCHANGED <<claims, runCount, resent>>
  BY DEF sentHooks
<1>2. DispatchTypes'
  BY <1>1 DEF DispatchTypes
<1>3. HooksAreTrue'
  <2>1. ASSUME NEW h \in inbox'
        PROVE  /\ h.tip \in 0..mergeRequest'.tip
               /\ h.apply <=> h.tip \in mergeRequest'.applied
               /\ h.pushed => h.kind \in {"push", "update"} /\ h.tip # 0
               /\ h.kind = "push" => h.pushed
    <3>1. CASE h \in inbox
      BY <1>1, <3>1 DEF HooksAreTrue
    <3>2. CASE h \in sentHooks
      BY <1>0, <1>1, <3>2
    <3>3. QED
      BY <1>1, <2>1, <3>1, <3>2
  <2>2. \A g \in inbox' : g.pushed => g \in inbox
    BY <1>0, <1>1
  <2>3. QED
    BY <1>1, <2>1, <2>2 DEF HooksAreTrue
<1>4. \A t : Bringing(t)' = Bringing(t)
  BY <1>0, <1>1 DEF Bringing
<1>5. RunsAreCounted'
  BY <1>1, <1>4 DEF RunsAreCounted, MayStart
<1>6. QED
  BY <1>2, <1>3, <1>5

LEMMA NewPushKeeps ==
    ASSUME DispatchInv, Push
    PROVE  DispatchInv'
<1> USE Numbers DEF DispatchInv
<1>1. PICK apply \in BOOLEAN :
        LET tip == mergeRequest.tip + 1
            m == [mergeRequest EXCEPT !.tip = tip, !.applied = IF apply THEN @ \cup {tip} ELSE @]
        IN  Sends(m, {Hook(m, "push", TRUE, "ann"), Hook(m, "update", TRUE, "ann")})
  BY DEF Push
<1> DEFINE tip == mergeRequest.tip + 1
           m == [mergeRequest EXCEPT !.tip = tip, !.applied = IF apply THEN @ \cup {tip} ELSE @]
           p == Hook(m, "push", TRUE, "ann")
           u == Hook(m, "update", TRUE, "ann")
<1>2. /\ mergeRequest' = m /\ inbox' = inbox \cup {p, u} /\ hookCount' = hookCount + 1
      /\ UNCHANGED <<claims, runCount, resent>>
  BY <1>1 DEF Sends
<1>a. tip \in Nat /\ tip # 0 /\ tip \in Tips
  BY DispatchAssumption DEF Push, Tips
<1>b. mergeRequest \in MRFields
  BY DEF DispatchTypes
<1>3. /\ m \in MRFields /\ m.tip = tip
      /\ m.applied = IF apply THEN mergeRequest.applied \cup {tip} ELSE mergeRequest.applied
      /\ tip \in Nat /\ tip # 0
  BY <1>a, <1>b DEF MRFields
<1>4. /\ p.tip = tip /\ p.pushed /\ p.kind = "push" /\ (p.apply <=> tip \in m.applied)
      /\ u.tip = tip /\ u.pushed /\ u.kind = "update" /\ (u.apply <=> tip \in m.applied)
  BY <1>3 DEF Hook
<1>5. DispatchTypes'
  BY <1>2, <1>3 DEF DispatchTypes
<1>6. \A h \in inbox : h.tip \in 0..mergeRequest.tip /\ h.tip # tip
  BY <1>3 DEF HooksAreTrue
<1>7. HooksAreTrue'
  <2>1. mergeRequest'.applied \subseteq 0..mergeRequest'.tip
    BY <1>2, <1>3 DEF HooksAreTrue
  <2>2. \A h \in inbox' :
          /\ h.tip \in 0..mergeRequest'.tip
          /\ h.apply <=> h.tip \in mergeRequest'.applied
          /\ h.pushed => h.kind \in {"push", "update"} /\ h.tip # 0
          /\ h.kind = "push" => h.pushed
    <3>1. \A h \in inbox : h.tip \in mergeRequest'.applied <=> h.tip \in mergeRequest.applied
      BY <1>2, <1>3, <1>6
    <3>2. \A h \in inbox : h.tip \in 0..mergeRequest'.tip
      BY <1>2, <1>3, <1>6
    <3>3. tip \in 0..mergeRequest'.tip
      BY <1>2, <1>3
    <3>4. tip \in mergeRequest'.applied <=> tip \in m.applied
      BY <1>2
    <3> HIDE DEF m, p, u, tip
    <3>5. ASSUME NEW h \in {p, u}
          PROVE  /\ h.tip \in 0..mergeRequest'.tip
                 /\ h.apply <=> h.tip \in mergeRequest'.applied
                 /\ h.pushed => h.kind \in {"push", "update"} /\ h.tip # 0
                 /\ h.kind = "push" => h.pushed
      BY <1>3, <1>4, <3>3, <3>4
    <3>6. ASSUME NEW h \in inbox
          PROVE  /\ h.tip \in 0..mergeRequest'.tip
                 /\ h.apply <=> h.tip \in mergeRequest'.applied
                 /\ h.pushed => h.kind \in {"push", "update"} /\ h.tip # 0
                 /\ h.kind = "push" => h.pushed
      BY <3>1, <3>2 DEF HooksAreTrue
    <3>7. QED
      BY <1>2, <3>5, <3>6
  <2>3. \A g, h \in inbox' :
          g.pushed /\ h.pushed /\ g.kind = "update" /\ h.kind = "update" /\ g.tip = h.tip => g = h
    <3> SUFFICES ASSUME NEW g \in inbox', NEW h \in inbox', g.pushed, h.pushed,
                        g.kind = "update", h.kind = "update", g.tip = h.tip
                 PROVE  g = h
      OBVIOUS
    <3>1. g # p /\ h # p
      BY <1>4
    <3>2. CASE g = u \/ h = u
      BY <1>2, <1>4, <1>6, <3>1, <3>2
    <3>3. CASE g \in inbox /\ h \in inbox
      BY <3>3 DEF HooksAreTrue
    <3>4. QED
      BY <1>2, <3>1, <3>2, <3>3
  <2>4. QED
    BY <2>1, <2>2, <2>3 DEF HooksAreTrue
<1>8. RunsAreCounted'
  <2> SUFFICES ASSUME NEW t \in Commits
               PROVE  /\ t > mergeRequest'.tip => runCount'[t] = 0 /\ t \notin claims'
                      /\ runCount'[t] <= 1 + resent'[t]
                      /\ MayStart(t)' => runCount'[t] <= resent'[t]
    BY DEF RunsAreCounted
  <2>0. t \in Nat /\ t \in Tips
    BY DEF Commits
  <2>1. CASE t = tip
    <3>1. runCount[t] = 0 /\ t \notin claims
      BY <1>3, <2>1 DEF RunsAreCounted
    <3>2. QED
      BY <1>2, <1>3, <2>0, <2>1, <3>1
  <2>2. CASE t # tip
    <3>1. Bringing(t)' = Bringing(t)
      BY <1>2, <1>4, <2>2 DEF Bringing
    <3>2. t \in mergeRequest'.applied <=> t \in mergeRequest.applied
      BY <1>2, <1>3, <2>2
    <3>3. MayStart(t)' <=> MayStart(t)
      BY <1>2, <3>1, <3>2 DEF MayStart
    <3>4. t > mergeRequest'.tip => t > mergeRequest.tip
      BY <1>2, <1>3, <2>0
    <3>5. QED
      BY <1>2, <3>3, <3>4 DEF RunsAreCounted
  <2>3. QED
    BY <2>1, <2>2
<1>9. QED
  BY <1>5, <1>7, <1>8

LEMMA PeopleStep ==
    ASSUME DispatchInv, Open \/ Edit \/ Settle \/ Reopen \/ Remark
    PROVE  DispatchInv'
<1>0. mergeRequest \in MRFields
  BY DEF DispatchInv, DispatchTypes
<1>1. CASE Open
  <2>1. PICK draft \in BOOLEAN, actor \in {"ann", "bot"} :
          LET m == [mergeRequest EXCEPT !.state = "opened", !.draft = draft]
          IN  Sends(m, {Hook(m, "open", FALSE, actor)})
    BY <1>1 DEF Open
  <2> DEFINE m == [mergeRequest EXCEPT !.state = "opened", !.draft = draft]
  <2>2. m \in MRFields /\ m.tip = mergeRequest.tip /\ m.applied = mergeRequest.applied
    BY <1>0 DEF MRFields
  <2>3. QED
    BY <2>1, <2>2, QuietSend DEF Sends
<1>2. CASE Edit
  <2>1. PICK draft \in BOOLEAN :
          LET m == [mergeRequest EXCEPT !.draft = draft] IN Sends(m, {Hook(m, "update", FALSE, "bob")})
    BY <1>2 DEF Edit
  <2> DEFINE m == [mergeRequest EXCEPT !.draft = draft]
  <2>2. m \in MRFields /\ m.tip = mergeRequest.tip /\ m.applied = mergeRequest.applied
    BY <1>0 DEF MRFields
  <2>3. QED
    BY <2>1, <2>2, QuietSend DEF Sends
<1>3. CASE Settle
  <2>1. PICK state \in {"merged", "closed"} :
          LET m == [mergeRequest EXCEPT !.state = state]
          IN  Sends(m, {Hook(m, IF state = "merged" THEN "merge" ELSE "close", FALSE, "bob")})
    BY <1>3 DEF Settle
  <2> DEFINE m == [mergeRequest EXCEPT !.state = state]
  <2>2. m \in MRFields /\ m.tip = mergeRequest.tip /\ m.applied = mergeRequest.applied
    BY <1>0 DEF MRFields
  <2>3. QED
    BY <2>1, <2>2, QuietSend DEF Sends
<1>4. CASE Reopen
  <2> DEFINE m == [mergeRequest EXCEPT !.state = "opened"]
  <2>1. Sends(m, {Hook(m, "open", FALSE, "bob")})
    BY <1>4 DEF Reopen
  <2>2. m \in MRFields /\ m.tip = mergeRequest.tip /\ m.applied = mergeRequest.applied
    BY <1>0 DEF MRFields
  <2>3. QED
    BY <2>1, <2>2, QuietSend DEF Sends
<1>5. CASE Remark
  BY <1>0, <1>5, QuietSend DEF Remark, Sends
<1>6. QED
  BY <1>1, <1>2, <1>3, <1>4, <1>5

-----------------------------------------------------------------------------
(* Handling a hook: only one that may start a run for its commit does, and it was
   counted as one that may. *)

\* Everything but the claims and the runs of a hook's own commit; an opening's are not
\* about a commit.
LEMMA CountedAfter ==
    ASSUME DispatchInv, DispatchTypes', UNCHANGED mergeRequest, inbox' \subseteq inbox,
           NEW s \in Tips,
           \A t \in Tips \ {s} : runCount'[t] = runCount[t] /\ (t \in claims' <=> t \in claims),
           \A t \in Tips : resent'[t] >= resent[t],
           s # 0 => /\ s <= mergeRequest.tip
                    /\ runCount'[s] <= 1 + resent'[s]
                    /\ MayStart(s)' => runCount'[s] <= resent'[s]
    PROVE  DispatchInv'
<1> USE Numbers DEF DispatchInv
<1>1. HooksAreTrue'
  BY DEF HooksAreTrue
<1>2. \A t : Bringing(t)' \subseteq Bringing(t)
  BY DEF Bringing
<1>3. RunsAreCounted'
  <2> SUFFICES ASSUME NEW t \in Commits
               PROVE  /\ t > mergeRequest'.tip => runCount'[t] = 0 /\ t \notin claims'
                      /\ runCount'[t] <= 1 + resent'[t]
                      /\ MayStart(t)' => runCount'[t] <= resent'[t]
    BY DEF RunsAreCounted
  <2>0. /\ t \in Tips /\ t # 0 /\ t \in Nat
        /\ resent[t] \in Nat /\ runCount[t] \in Nat /\ resent'[t] \in Nat /\ runCount'[t] \in Nat
    BY DEF Commits, DispatchTypes
  <2>1. CASE t = s
    BY <2>0, <2>1
  <2>2. CASE t # s
    <3>1. MayStart(t)' => MayStart(t)
      BY <1>2, <2>0, <2>2 DEF MayStart
    <3>2. QED
      BY <2>0, <2>2, <3>1 DEF RunsAreCounted
  <2>3. QED
    BY <2>1, <2>2
<1>4. QED
  BY <1>1, <1>3

\* The hook is removed, or its redelivery is counted.
LEMMA Delivery ==
    ASSUME DispatchInv, NEW h \in inbox,
           \/ inbox' = inbox \ {h} /\ UNCHANGED resent
           \/ /\ h.pushed
              /\ resent[Subject(h)] < MaxRedelivered
              /\ resent' = [resent EXCEPT ![Subject(h)] = @ + 1]
              /\ UNCHANGED inbox
    PROVE  /\ inbox' \subseteq inbox
           /\ resent' \in [Tips -> Nat]
           /\ \A t \in Tips : resent'[t] >= resent[t]
           /\ Subject(h) \in Tips /\ Subject(h) <= mergeRequest.tip
           /\ h.pushed => h.kind # "open" /\ Subject(h) = h.tip /\ h.tip # 0
           /\ h \in inbox' => resent'[Subject(h)] = resent[Subject(h)] + 1 /\ h.pushed
<1> USE Numbers DEF DispatchInv
<1>1. h.tip \in Tips /\ h.tip \in 0..mergeRequest.tip /\ (h.pushed => h.kind \in {"push", "update"} /\ h.tip # 0)
  BY DispatchAssumption DEF HooksAreTrue, Tips
<1>2. Subject(h) \in Tips /\ Subject(h) <= mergeRequest.tip
  BY <1>1 DEF Subject
<1>3. h.pushed => h.kind # "open" /\ Subject(h) = h.tip /\ h.tip # 0
  BY <1>1 DEF Subject
<1>4. resent' \in [Tips -> Nat] /\ \A t \in Tips : resent'[t] >= resent[t]
  BY <1>2 DEF DispatchTypes
<1>5. QED
  BY <1>2, <1>3, <1>4 DEF DispatchTypes

\* A step that starts no run for a commit and claims nothing.
LEMMA NothingStarted ==
    ASSUME DispatchInv, DispatchTypes', UNCHANGED <<mergeRequest, claims>>, inbox' \subseteq inbox,
           \A t \in Commits : runCount'[t] = runCount[t],
           \A t \in Tips : resent'[t] >= resent[t]
    PROVE  DispatchInv'
<1>1. 0 \in Tips /\ \A t \in Tips \ {0} : t \in Commits
  BY Numbers DEF DispatchInv, Commits
<1>2. QED
  BY <1>1, CountedAfter

LEMMA HandleStep ==
    ASSUME DispatchInv, NEW h \in inbox, Handle(h)
    PROVE  DispatchInv'
<1> USE Numbers DEF DispatchInv
<1> DEFINE s == Subject(h)
<1>1. /\ inbox' \subseteq inbox
      /\ resent' \in [Tips -> Nat]
      /\ \A t \in Tips : resent'[t] >= resent[t]
      /\ s \in Tips /\ s <= mergeRequest.tip
      /\ h.pushed => h.kind # "open" /\ s = h.tip /\ h.tip # 0
      /\ h \in inbox' => resent'[s] = resent[s] + 1 /\ h.pushed
  BY Delivery DEF Handle
<1>2. /\ h.apply <=> h.tip \in mergeRequest.applied
      /\ h.kind = "push" => h.pushed
      /\ h.tip \in Tips
  BY DispatchAssumption DEF HooksAreTrue, Tips
<1>3. UNCHANGED <<mergeRequest, hookCount>>
  BY DEF Handle
<1>4. CASE StartsNothing /\ UNCHANGED claims
  <2>1. DispatchTypes' /\ runCount' = runCount
    BY <1>1, <1>3, <1>4 DEF DispatchTypes, StartsNothing
  <2>2. QED
    BY <1>1, <1>3, <1>4, <2>1, NothingStarted
<1>5. CASE Starts(h) /\ UNCHANGED claims /\ HandleOpen(h)
  <2>1. s = 0
    BY <1>5 DEF HandleOpen, Subject
  <2>2. DispatchTypes' /\ \A t \in Commits : runCount'[t] = runCount[t]
    BY <1>1, <1>3, <1>5, <2>1 DEF DispatchTypes, Starts, Commits
  <2>3. QED
    BY <1>1, <1>3, <1>5, <2>2, NothingStarted
<1>6. CASE Starts(h) /\ UNCHANGED claims /\ HandleUpdate(h) /\ ~IsApply(h)
  <2>1. h.pushed /\ h.kind = "update" /\ s = h.tip /\ s # 0
    BY <1>1, <1>6 DEF HandleUpdate, Starts, StartsNothing, Brings, DispatchTypes
  <2>2. s \notin mergeRequest.applied
    BY <1>2, <1>6, <2>1 DEF IsApply
  <2>3. s \in Commits /\ runCount[s] <= resent[s]
    <3>1. h \in Bringing(s)
      BY <2>1 DEF Bringing
    <3>2. s \in Commits
      BY <1>1, <2>1 DEF Commits
    <3>3. QED
      BY <2>1, <2>2, <3>1, <3>2 DEF RunsAreCounted, MayStart
  <2>4. /\ DispatchTypes'
        /\ runCount'[s] = runCount[s] + 1
        /\ \A t \in Tips \ {s} : runCount'[t] = runCount[t]
    BY <1>1, <1>3, <1>6 DEF DispatchTypes, Starts
  <2>5. MayStart(s)' => h \in inbox'
    <3>1. SUFFICES ASSUME NEW g \in inbox', g.pushed, g.tip = s, g.kind = "update"
                   PROVE  h \in inbox'
      BY <1>3, <2>2 DEF MayStart, Bringing
    <3>2. g = h
      BY <1>1, <2>1, <3>1 DEF HooksAreTrue
    <3>3. QED
      BY <3>2
  <2>6. runCount'[s] <= 1 + resent'[s] /\ (MayStart(s)' => runCount'[s] <= resent'[s])
    <3>1. resent[s] \in Nat /\ resent'[s] \in Nat /\ runCount[s] \in Nat /\ resent'[s] >= resent[s]
      BY <1>1
    <3>2. QED
      BY <1>1, <2>3, <2>4, <2>5, <3>1
  <2>7. QED
    BY <1>1, <1>3, <1>6, <2>4, <2>6, CountedAfter
<1>7. CASE h.apply /\ PushDriven(h) /\ h.tip \notin claims /\ claims' = claims \cup {h.tip} /\ Starts(h)
  <2>1. h.pushed /\ s = h.tip /\ s # 0
    BY <1>1, <1>2, <1>7 DEF PushDriven
  <2>2. s \in Commits /\ runCount[s] <= resent[s]
    <3>1. h \in Bringing(s)
      BY <2>1 DEF Bringing
    <3>2. s \in Commits
      BY <1>1, <2>1 DEF Commits
    <3>3. QED
      BY <1>2, <1>7, <2>1, <3>1, <3>2 DEF RunsAreCounted, MayStart
  <2>3. /\ DispatchTypes'
        /\ runCount'[s] = runCount[s] + 1
        /\ \A t \in Tips \ {s} : runCount'[t] = runCount[t] /\ (t \in claims' <=> t \in claims)
    BY <1>1, <1>2, <1>3, <1>7, <2>1 DEF DispatchTypes, Starts
  <2>4. ~MayStart(s)'
    BY <1>2, <1>3, <1>7, <2>1 DEF MayStart
  <2>5. runCount'[s] <= 1 + resent'[s]
    <3>1. resent[s] \in Nat /\ resent'[s] \in Nat /\ runCount[s] \in Nat /\ resent'[s] >= resent[s]
      BY <1>1
    <3>2. QED
      BY <2>2, <2>3, <3>1
  <2>6. QED
    BY <1>1, <1>3, <2>3, <2>4, <2>5, CountedAfter
<1>8. CASE FromBot(h)
  BY <1>4, <1>8 DEF Handle
<1>9. CASE HandleApply(h)
  BY <1>4, <1>7, <1>9 DEF HandleApply
<1>10. CASE ~FromBot(h) /\ ~HandleApply(h)
  <2>1. ~IsApply(h) /\ UNCHANGED claims
    BY <1>10 DEF Handle
  <2>2. HandleOpen(h) \/ HandleUpdate(h) \/ HandleSettled(h) \/ HandleNote(h) \/ HandlePush(h)
    BY <1>10 DEF Handle
  <2>3. CASE HandleOpen(h)
    BY <1>4, <1>5, <2>1, <2>3 DEF HandleOpen
  <2>4. CASE HandleUpdate(h)
    BY <1>4, <1>6, <2>1, <2>4 DEF HandleUpdate
  <2>5. CASE HandleSettled(h) \/ HandleNote(h) \/ HandlePush(h)
    BY <1>4, <2>1, <2>5 DEF HandleSettled, HandleNote, HandlePush
  <2>6. QED
    BY <2>2, <2>3, <2>4, <2>5
<1>11. QED
  BY <1>8, <1>9, <1>10

LEMMA DescribeStep ==
    ASSUME DispatchInv, NEW n \in activeRuns, Describe(n)
    PROVE  DispatchInv'
<1>1. /\ mergeRequest \in MRFields
      /\ UNCHANGED <<mergeRequest, claims, runCount, resent>>
  BY DEF DispatchInv, DispatchTypes, Describe
<1>2. CASE hookConf.describes /\ mergeRequest.state = "opened"
  <2>1. inbox' = inbox \cup {Hook(mergeRequest, "update", FALSE, "bot")} /\ hookCount' = hookCount + 1
    BY <1>2 DEF Describe
  <2>2. QED
    BY <1>1, <2>1, QuietSend
<1>3. CASE ~(hookConf.describes /\ mergeRequest.state = "opened")
  <2>1. UNCHANGED <<inbox, hookCount>>
    BY <1>3 DEF Describe
  <2>2. DispatchTypes' /\ \A t \in Tips : resent'[t] >= resent[t]
    BY <1>1, <2>1, Numbers DEF DispatchInv, DispatchTypes
  <2>3. QED
    BY <1>1, <2>1, <2>2, NothingStarted
<1>4. QED
  BY <1>2, <1>3

LEMMA ClaimEndsStep ==
    ASSUME DispatchInv, NEW t \in claims, ClaimEnds(t)
    PROVE  DispatchInv'
<1> USE Numbers DEF DispatchInv
<1>1. /\ t \in Tips
      /\ claims' = claims \ {t}
      /\ UNCHANGED <<mergeRequest, inbox, hookCount, runCount, resent>>
  BY DEF DispatchTypes, ClaimEnds
<1>2. DispatchTypes' /\ \A u \in Tips : resent'[u] >= resent[u]
  BY <1>1 DEF DispatchTypes
<1>3. ~MayStart(t)'
  BY <1>1 DEF ClaimEnds, MayStart, Bringing
<1>4. t # 0 => t <= mergeRequest.tip /\ runCount'[t] <= 1 + resent'[t]
  BY <1>1 DEF RunsAreCounted, Commits
<1>5. QED
  BY <1>1, <1>2, <1>3, <1>4, CountedAfter

LEMMA NextDispatch == DispatchInv /\ [HookNext]_dispatchVars => DispatchInv'
<1> SUFFICES ASSUME DispatchInv, [HookNext]_dispatchVars PROVE DispatchInv'
  OBVIOUS
<1>1. CASE Open \/ Edit \/ Settle \/ Reopen \/ Remark
  BY <1>1, PeopleStep
<1>2. CASE Push
  BY <1>2, NewPushKeeps
<1>3. CASE \E h \in inbox : Handle(h)
  BY <1>3, HandleStep
<1>4. CASE \E n \in activeRuns : Describe(n)
  BY <1>4, DescribeStep
<1>5. CASE \E t \in claims : ClaimEnds(t)
  BY <1>5, ClaimEndsStep
<1>6. CASE UNCHANGED dispatchVars
  <2>1. UNCHANGED <<mergeRequest, inbox, hookCount, claims, runCount, resent>>
    BY <1>6 DEF dispatchVars
  <2>2. DispatchTypes' /\ \A t \in Tips : resent'[t] >= resent[t]
    BY <2>1, Numbers DEF DispatchInv, DispatchTypes
  <2>3. QED
    BY <2>1, <2>2, NothingStarted
<1>7. QED
  BY <1>1, <1>2, <1>3, <1>4, <1>5, <1>6 DEF HookNext

\* A commit is reviewed once, but for redelivered hooks: whatever hooks tell of it, in
\* whatever order, and whatever descriptions the runs write.
THEOREM CommitsAreReviewedOnce == HookSpec => []EachCommitReviewedOnce
<1>1. DispatchInv => EachCommitReviewedOnce
  BY DEF DispatchInv, RunsAreCounted, EachCommitReviewedOnce, Commits
<1>2. QED
  BY <1>1, InitDispatch, NextDispatch, PTL DEF HookSpec

-----------------------------------------------------------------------------
(* The telemetry row. *)

\* A merge hook is only ever sent of a merge request that stays merged.
MergingIsFinal ==
    /\ \A h \in inbox : h.kind = "merge" => mergeRequest.state = "merged"
    /\ MergeDateIsTrue

LEMMA RecordKeeps ==
    ASSUME MergingIsFinal, NEW h \in inbox, NEW state, Record(h, state), UNCHANGED mergeRequest,
           h.kind = "merge" => state = "merged"
    PROVE  MergeDateIsTrue' /\ (mrRow.author # "" => mrRow'.author = mrRow.author)
<1>1. CASE mrRow' = mrRow
  BY <1>1 DEF MergingIsFinal, MergeDateIsTrue
<1>2. CASE mrRow' = [state |-> state, author |-> KeepAuthor(h), mergedAt |-> MergedNow(h, state)]
  <2>1. mrRow'.mergedAt => h.kind = "merge"
    BY <1>2 DEF MergedNow
  <2>2. mrRow'.state = state /\ mrRow'.author = KeepAuthor(h)
    BY <1>2
  <2>3. QED
    BY <2>1, <2>2 DEF MergingIsFinal, MergeDateIsTrue, KeepAuthor
<1>3. QED
  BY <1>1, <1>2 DEF Record

\* What happens to the merge request sends hooks and leaves the row alone.
LEMMA SendingKeepsRow ==
    ASSUME MergingIsFinal, NEW m, NEW sentHooks, Sends(m, sentHooks),
           mergeRequest.state = "merged" => m.state = "merged",
           \A h \in sentHooks : h.kind = "merge" => m.state = "merged"
    PROVE  MergingIsFinal' /\ mrRow' = mrRow
BY DEF MergingIsFinal, MergeDateIsTrue, Sends

LEMMA SendingOneKeepsRow ==
    ASSUME MergingIsFinal, NEW m, NEW kind, NEW actor, Sends(m, {Hook(m, kind, FALSE, actor)}),
           mergeRequest.state = "merged" => m.state = "merged",
           kind = "merge" => m.state = "merged"
    PROVE  MergingIsFinal' /\ mrRow' = mrRow
<1> DEFINE sentHooks == {Hook(m, kind, FALSE, actor)}
<1>1. \A h \in sentHooks : h.kind = "merge" => m.state = "merged"
  BY DEF Hook
<1>2. Sends(m, sentHooks)
  OBVIOUS
<1> HIDE DEF sentHooks
<1>3. QED
  BY <1>1, <1>2, SendingKeepsRow

\* Every step records what a hook tells, or nothing.
LEMMA NextRow ==
    ASSUME DispatchInv, MergingIsFinal, [HookNext]_dispatchVars
    PROVE  MergingIsFinal' /\ (mrRow.author # "" => mrRow'.author = mrRow.author)
<1>0. mergeRequest \in MRFields
  BY DEF DispatchInv, DispatchTypes
<1>2. CASE Open
  <2>1. PICK draft \in BOOLEAN, actor \in {"ann", "bot"} :
          Sends([mergeRequest EXCEPT !.state = "opened", !.draft = draft],
                {Hook([mergeRequest EXCEPT !.state = "opened", !.draft = draft], "open", FALSE, actor)})
    BY <1>2 DEF Open
  <2> DEFINE m == [mergeRequest EXCEPT !.state = "opened", !.draft = draft]
  <2>2. mergeRequest.state # "merged"
    BY <1>2 DEF Open
  <2>3. Sends(m, {Hook(m, "open", FALSE, actor)})
    BY <2>1
  <2> HIDE DEF m
  <2>4. QED
    BY <2>2, <2>3, SendingOneKeepsRow
<1>3. CASE Push
  <2>1. PICK apply \in BOOLEAN :
          LET tip == mergeRequest.tip + 1
              m == [mergeRequest EXCEPT !.tip = tip, !.applied = IF apply THEN @ \cup {tip} ELSE @]
          IN  Sends(m, {Hook(m, "push", TRUE, "ann"), Hook(m, "update", TRUE, "ann")})
    BY <1>3 DEF Push
  <2> DEFINE tip == mergeRequest.tip + 1
             m == [mergeRequest EXCEPT !.tip = tip,
                                       !.applied = IF apply THEN @ \cup {tip} ELSE @]
             sentHooks == {Hook(m, "push", TRUE, "ann"), Hook(m, "update", TRUE, "ann")}
  <2>2. mergeRequest.state # "merged"
    BY <1>3 DEF Push
  <2>3. \A h \in sentHooks : h.kind = "merge" => m.state = "merged"
    BY DEF Hook
  <2>4. Sends(m, sentHooks)
    BY <2>1
  <2> HIDE DEF m, sentHooks
  <2>5. QED
    BY <2>2, <2>3, <2>4, SendingKeepsRow
<1>4. CASE Edit
  <2>1. PICK draft \in BOOLEAN :
          Sends([mergeRequest EXCEPT !.draft = draft],
                {Hook([mergeRequest EXCEPT !.draft = draft], "update", FALSE, "bob")})
    BY <1>4 DEF Edit
  <2> DEFINE m == [mergeRequest EXCEPT !.draft = draft]
  <2>2. mergeRequest.state # "merged"
    BY <1>4 DEF Edit
  <2>3. Sends(m, {Hook(m, "update", FALSE, "bob")})
    BY <2>1
  <2> HIDE DEF m
  <2>4. QED
    BY <2>2, <2>3, SendingOneKeepsRow
<1>5. CASE Settle
  <2>1. PICK state \in {"merged", "closed"} :
          Sends([mergeRequest EXCEPT !.state = state],
                {Hook([mergeRequest EXCEPT !.state = state],
                      IF state = "merged" THEN "merge" ELSE "close", FALSE, "bob")})
    BY <1>5 DEF Settle
  <2> DEFINE m == [mergeRequest EXCEPT !.state = state]
             kind == IF state = "merged" THEN "merge" ELSE "close"
  <2>2. mergeRequest.state # "merged"
    BY <1>5 DEF Settle
  <2>3. kind = "merge" => m.state = "merged"
    <3>1. m.state = state
      BY <1>0 DEF MRFields
    <3>2. QED
      BY <3>1
  <2>4. Sends(m, {Hook(m, kind, FALSE, "bob")})
    BY <2>1
  <2> HIDE DEF m, kind
  <2>5. QED
    BY <2>2, <2>3, <2>4, SendingOneKeepsRow
<1>6. CASE Reopen
  <2>1. Sends([mergeRequest EXCEPT !.state = "opened"],
              {Hook([mergeRequest EXCEPT !.state = "opened"], "open", FALSE, "bob")})
    BY <1>6 DEF Reopen
  <2> DEFINE m == [mergeRequest EXCEPT !.state = "opened"]
  <2>2. mergeRequest.state # "merged"
    BY <1>6 DEF Reopen
  <2>3. Sends(m, {Hook(m, "open", FALSE, "bob")})
    BY <2>1
  <2> HIDE DEF m
  <2>4. QED
    BY <2>2, <2>3, SendingOneKeepsRow
<1>7. CASE Remark
  <2>1. Sends(mergeRequest, {Hook(mergeRequest, "note", FALSE, "bob")})
    BY <1>7 DEF Remark
  <2>2. QED
    BY <2>1, SendingOneKeepsRow
<1>8. ASSUME NEW h \in inbox, Handle(h)
      PROVE  MergingIsFinal' /\ (mrRow.author # "" => mrRow'.author = mrRow.author)
  <2>1. UNCHANGED mergeRequest /\ inbox' \subseteq inbox
    BY <1>8 DEF Handle
  <2>2. \/ mrRow' = mrRow
        \/ \E state : Record(h, state) /\ (h.kind = "merge" => state = "merged")
    BY <1>8 DEF Handle, HandleApply, HandleOpen, HandleUpdate, HandleSettled, HandleNote, HandlePush
  <2>3. MergeDateIsTrue' /\ (mrRow.author # "" => mrRow'.author = mrRow.author)
    BY <2>1, <2>2, RecordKeeps DEF MergingIsFinal, MergeDateIsTrue
  <2>4. QED
    BY <2>1, <2>3 DEF MergingIsFinal
<1>9. ASSUME NEW n \in activeRuns, Describe(n)
      PROVE  MergingIsFinal' /\ mrRow' = mrRow
  <2>1. UNCHANGED <<mergeRequest, mrRow>> /\ \A h \in inbox' : h.kind = "merge" => h \in inbox
    BY <1>9 DEF Describe, Hook
  <2>2. QED
    BY <2>1 DEF MergingIsFinal, MergeDateIsTrue
<1>10. ASSUME NEW t \in claims, ClaimEnds(t)
       PROVE  MergingIsFinal' /\ mrRow' = mrRow
  BY <1>10 DEF ClaimEnds, MergingIsFinal, MergeDateIsTrue
<1>11. CASE UNCHANGED dispatchVars
  BY <1>11 DEF dispatchVars, MergingIsFinal, MergeDateIsTrue
<1>12. QED
  BY <1>2, <1>3, <1>4, <1>5, <1>6, <1>7, <1>8, <1>9, <1>10, <1>11 DEF HookNext

\* The row never has the merge date of a merge request that is not merged, nor says
\* another state beside it; and its first author stays.
THEOREM RowStaysTrue == HookSpec => RowIsTrue
<1>1. HookInit => MergingIsFinal
  <2>1. NoRow.mergedAt = FALSE
    BY DEF NoRow
  <2>2. QED
    BY <2>1 DEF HookInit, MergingIsFinal, MergeDateIsTrue
<1>2. DispatchInv /\ MergingIsFinal /\ [HookNext]_dispatchVars => MergingIsFinal'
  BY NextRow
<1>3. DispatchInv /\ MergingIsFinal /\ [HookNext]_dispatchVars => [AuthorStays /\ MergeDateIsTrue']_dispatchVars
  BY NextRow DEF MergingIsFinal, AuthorStays
<1>4. QED
  BY <1>1, <1>2, <1>3, InitDispatch, NextDispatch, PTL DEF HookSpec, RowIsTrue

-----------------------------------------------------------------------------
(* Types. *)

RowStates == {"none", "opened", "updated", "merged", "closed"}

\* What the types need beside DispatchInv: a hook carries a state a row may take, and
\* only Apply commits are claimed.
FormInv ==
    /\ hookCount \in 0..MaxHooks
    /\ claims \subseteq mergeRequest.applied
    /\ 0 \notin mergeRequest.applied
    /\ mrRow.state \in RowStates
    /\ \A h \in inbox : h.state \in RowStates

LEMMA SendingKeepsForm ==
    ASSUME FormInv, NEW m, NEW sentHooks, Sends(m, sentHooks),
           mergeRequest.applied \subseteq m.applied, 0 \notin m.applied,
           \A h \in sentHooks : h.state \in RowStates
    PROVE  FormInv'
BY DispatchAssumption DEF FormInv, Sends

\* A hook about a merge request whose commits are as they were.
LEMMA SendingOneKeepsForm ==
    ASSUME FormInv, NEW m \in MRFields, NEW kind, NEW actor, Sends(m, {Hook(m, kind, FALSE, actor)}),
           m.applied = mergeRequest.applied
    PROVE  FormInv'
<1> DEFINE sentHooks == {Hook(m, kind, FALSE, actor)}
<1>1. \A h \in sentHooks : h.state \in RowStates
  BY DEF Hook, MRFields, RowStates
<1>2. Sends(m, sentHooks)
  OBVIOUS
<1> HIDE DEF sentHooks
<1>3. QED
  BY <1>1, <1>2, SendingKeepsForm DEF FormInv

LEMMA PeopleKeepForm ==
    ASSUME DispatchInv, FormInv, Open \/ Edit \/ Settle \/ Reopen \/ Remark
    PROVE  FormInv'
<1>0. mergeRequest \in MRFields
  BY DEF DispatchInv, DispatchTypes
<1>1. CASE Open
  <2>1. PICK draft \in BOOLEAN, actor \in {"ann", "bot"} :
          LET m == [mergeRequest EXCEPT !.state = "opened", !.draft = draft]
          IN  Sends(m, {Hook(m, "open", FALSE, actor)})
    BY <1>1 DEF Open
  <2> DEFINE m == [mergeRequest EXCEPT !.state = "opened", !.draft = draft]
  <2>2. m \in MRFields /\ m.applied = mergeRequest.applied
    BY <1>0 DEF MRFields
  <2>3. QED
    BY <2>1, <2>2, SendingOneKeepsForm
<1>2. CASE Edit
  <2>1. PICK draft \in BOOLEAN :
          LET m == [mergeRequest EXCEPT !.draft = draft] IN Sends(m, {Hook(m, "update", FALSE, "bob")})
    BY <1>2 DEF Edit
  <2> DEFINE m == [mergeRequest EXCEPT !.draft = draft]
  <2>2. m \in MRFields /\ m.applied = mergeRequest.applied
    BY <1>0 DEF MRFields
  <2>3. QED
    BY <2>1, <2>2, SendingOneKeepsForm
<1>3. CASE Settle
  <2>1. PICK state \in {"merged", "closed"} :
          LET m == [mergeRequest EXCEPT !.state = state]
          IN  Sends(m, {Hook(m, IF state = "merged" THEN "merge" ELSE "close", FALSE, "bob")})
    BY <1>3 DEF Settle
  <2> DEFINE m == [mergeRequest EXCEPT !.state = state]
  <2>2. m \in MRFields /\ m.applied = mergeRequest.applied
    BY <1>0 DEF MRFields
  <2>3. QED
    BY <2>1, <2>2, SendingOneKeepsForm
<1>4. CASE Reopen
  <2> DEFINE m == [mergeRequest EXCEPT !.state = "opened"]
  <2>1. Sends(m, {Hook(m, "open", FALSE, "bob")})
    BY <1>4 DEF Reopen
  <2>2. m \in MRFields /\ m.applied = mergeRequest.applied
    BY <1>0 DEF MRFields
  <2>3. QED
    BY <2>1, <2>2, SendingOneKeepsForm
<1>5. CASE Remark
  BY <1>0, <1>5, SendingOneKeepsForm DEF Remark
<1>6. QED
  BY <1>1, <1>2, <1>3, <1>4, <1>5

LEMMA PushKeepsForm ==
    ASSUME DispatchInv, FormInv, Push
    PROVE  FormInv'
<1>1. PICK apply \in BOOLEAN :
        LET tip == mergeRequest.tip + 1
            m == [mergeRequest EXCEPT !.tip = tip, !.applied = IF apply THEN @ \cup {tip} ELSE @]
        IN  Sends(m, {Hook(m, "push", TRUE, "ann"), Hook(m, "update", TRUE, "ann")})
  BY DEF Push
<1> DEFINE tip == mergeRequest.tip + 1
           m == [mergeRequest EXCEPT !.tip = tip, !.applied = IF apply THEN @ \cup {tip} ELSE @]
           sentHooks == {Hook(m, "push", TRUE, "ann"), Hook(m, "update", TRUE, "ann")}
<1>2. mergeRequest \in MRFields /\ tip # 0
  BY Numbers DEF DispatchInv, DispatchTypes
<1>3. /\ m.applied = IF apply THEN mergeRequest.applied \cup {tip} ELSE mergeRequest.applied
      /\ m.state = mergeRequest.state
  BY <1>2 DEF MRFields
<1>4. mergeRequest.applied \subseteq m.applied /\ 0 \notin m.applied
  BY <1>2, <1>3 DEF FormInv
<1>5. \A h \in sentHooks : h.state \in RowStates
  <2>1. m.state \in RowStates
    BY <1>2, <1>3 DEF MRFields, RowStates
  <2>2. QED
    BY <2>1 DEF Hook
<1>6. Sends(m, sentHooks)
  BY <1>1
<1> HIDE DEF m, sentHooks
<1>7. QED
  BY <1>4, <1>5, <1>6, SendingKeepsForm

LEMMA HandleKeepsForm ==
    ASSUME DispatchInv, FormInv, NEW h \in inbox, Handle(h)
    PROVE  FormInv'
<1>1. UNCHANGED <<mergeRequest, hookCount>> /\ inbox' \subseteq inbox
  BY DEF Handle
<1>2. claims' \subseteq mergeRequest.applied
  <2>1. claims' \subseteq claims \cup {h.tip} /\ (claims' # claims => h.apply)
    BY DEF Handle, HandleApply
  <2>2. QED
    BY <2>1 DEF DispatchInv, HooksAreTrue, FormInv
<1>3. mrRow'.state \in RowStates
  <2>1. \/ mrRow' = mrRow
        \/ \E state \in RowStates : Record(h, state)
    BY DEF Handle, HandleApply, HandleOpen, HandleUpdate, HandleSettled, HandleNote, HandlePush, FormInv, RowStates
  <2>2. QED
    BY <2>1 DEF Record, FormInv
<1>4. QED
  BY <1>1, <1>2, <1>3 DEF FormInv

LEMMA NextForm ==
    ASSUME DispatchInv, FormInv, [HookNext]_dispatchVars
    PROVE  FormInv'
<1>1. ASSUME NEW n \in activeRuns, Describe(n)
      PROVE  FormInv'
  <2>1. Hook(mergeRequest, "update", FALSE, "bot").state \in RowStates
    BY DEF DispatchInv, DispatchTypes, MRFields, Hook, RowStates
  <2>2. hookCount' \in 0..MaxHooks
    <3>1. hookCount' = hookCount \/ (hookCount < MaxHooks /\ hookCount' = hookCount + 1)
      BY <1>1 DEF Describe
    <3>2. QED
      BY <3>1, DispatchAssumption DEF FormInv
  <2>3. \A h \in inbox' : h.state \in RowStates
    BY <1>1, <2>1 DEF FormInv, Describe
  <2>4. QED
    BY <1>1, <2>2, <2>3 DEF FormInv, Describe
<1>2. ASSUME NEW t \in claims, ClaimEnds(t)
      PROVE  FormInv'
  BY <1>2 DEF ClaimEnds, FormInv
<1>3. CASE UNCHANGED dispatchVars
  BY <1>3 DEF dispatchVars, FormInv
<1>4. QED
  BY <1>1, <1>2, <1>3, PeopleKeepForm, PushKeepsForm, HandleKeepsForm DEF HookNext

\* The hooks stay within their bound, only Apply commits that were pushed are claimed,
\* and the row has one of its states.
THEOREM HookTypesHold == HookSpec => []HookTypeOK
<1>1. HookInit => FormInv
  <2>1. NoRow.state = "none"
    BY DEF NoRow
  <2>2. QED
    BY <2>1, DispatchAssumption DEF HookInit, FormInv, RowStates
<1>2. DispatchInv /\ FormInv /\ [HookNext]_dispatchVars => FormInv'
  BY NextForm
<1>3. DispatchInv /\ FormInv => HookTypeOK
  <2>1. ASSUME DispatchInv, FormInv PROVE mergeRequest.applied \subseteq 1..mergeRequest.tip
    BY <2>1, Numbers DEF DispatchInv, HooksAreTrue, FormInv
  <2>2. QED
    BY <2>1 DEF FormInv, HookTypeOK, RowStates
<1>4. QED
  BY <1>1, <1>2, <1>3, InitDispatch, NextDispatch, PTL DEF HookSpec

-----------------------------------------------------------------------------
(* A non-empty set of naturals has a least element. *)

LEMMA LeastElement ==
    ASSUME NEW T \in SUBSET Nat, T # {}
    PROVE  \E n \in T : \A m \in T : n <= m
<1> DEFINE Below == {{k \in Nat : k < n} : n \in T}
<1>1. Below \subseteq FiniteSubsetsOf(Nat)
  <2> SUFFICES ASSUME NEW n \in T
               PROVE  {k \in Nat : k < n} \in FiniteSubsetsOf(Nat)
    OBVIOUS
  <2>1. IsFiniteSet({k \in Nat : k < n})
    BY FS_BoundedSetOfNaturals
  <2> QED BY <2>1 DEF FiniteSubsetsOf
<1>2. PICK B \in Below : \A C \in Below : <<C, B>> \notin StrictSubsetOrdering(Nat)
  <2>1. Below # {}
    OBVIOUS
  <2> HIDE DEF Below
  <2> QED BY <1>1, <2>1, FS_StrictSubsetOrderingWellFounded, WFMin
<1>3. PICK n \in T : B = {k \in Nat : k < n}
  BY <1>2
<1>4. ASSUME NEW m \in T, m < n PROVE FALSE
  <2> DEFINE C == {k \in Nat : k < m}
  <2>1. C \in Below
    OBVIOUS
  <2>2. m \in B /\ m \notin C /\ C \subseteq B /\ B \subseteq Nat
    BY <1>3, <1>4
  <2>3. <<C, B>> \in StrictSubsetOrdering(Nat)
    BY <2>2 DEF StrictSubsetOrdering
  <2> QED BY <2>1, <2>3, <1>2
<1> QED BY <1>4

-----------------------------------------------------------------------------
(* The dictionaries: what an operation leaves as it was. *)

Fields == {"val", "times", "last", "made"}
IsDict(d) == d = [f \in Fields |-> d[f]]

\* Each value of `new` that `d` had already is the one `d` had.
Keeps(d, new) == \A k \in DOMAIN new.val : k \in DOMAIN d.val /\ new.val[k] = d.val[k]

LEMMA PutIs ==
    ASSUME NEW f, NEW k, NEW v
    PROVE  /\ DOMAIN Put(f, k, v) = DOMAIN f \cup {k}
           /\ Put(f, k, v)[k] = v
           /\ \A x \in DOMAIN f : x # k => Put(f, k, v)[x] = f[x]
BY DEF Put

LEMMA TouchIs ==
    ASSUME NEW d, NEW k, IsDict(d)
    PROVE  /\ IsDict(Touch(d, k))
           /\ Touch(d, k).val = d.val /\ Touch(d, k).made = d.made
           /\ k \in DOMAIN Touch(d, k).times /\ Touch(d, k).times[k] = clock
<1> PICK times : times = Put(d.times, k, clock)
  OBVIOUS
<1>1. k \in DOMAIN times /\ times[k] = clock
  BY DEF Put
<1>2. Touch(d, k) = [d EXCEPT !.times = times]
  BY DEF Touch
<1> QED BY <1>1, <1>2 DEF IsDict, Fields

LEMMA StoreIs ==
    ASSUME NEW d, NEW k, NEW v, IsDict(d)
    PROVE  /\ IsDict(Store(d, k, v))
           /\ Store(d, k, v).val = Put(d.val, k, v) /\ Store(d, k, v).made = d.made
<1> PICK t : t = Touch(d, k)
  OBVIOUS
<1> PICK val : val = Put(d.val, k, v)
  OBVIOUS
<1>1. IsDict(t) /\ t.val = d.val /\ t.made = d.made
  BY TouchIs
<1>2. Store(d, k, v) = [t EXCEPT !.val = val]
  BY <1>1 DEF Store
<1> QED BY <1>1, <1>2 DEF IsDict, Fields

LEMMA SweptIs ==
    ASSUME NEW d, IsDict(d)
    PROVE  /\ IsDict(Swept(d)) /\ Swept(d).made = d.made
           /\ Keeps(d, Swept(d))
           /\ DOMAIN Swept(d).val = DOMAIN d.val \ Stale(d)
<1> PICK stale : stale = Stale(d)
  OBVIOUS
<1> PICK val : val = [k \in DOMAIN d.val \ stale |-> d.val[k]]
  OBVIOUS
<1> PICK times : times = [k \in DOMAIN d.times \ stale |-> d.times[k]]
  OBVIOUS
<1>1. Swept(d) = [d EXCEPT !.val = val, !.times = times, !.last = clock]
  BY DEF Swept
<1>2. Swept(d) = [f \in Fields |-> IF f = "val" THEN val ELSE IF f = "times" THEN times
                                   ELSE IF f = "last" THEN clock ELSE d[f]]
  BY <1>1 DEF IsDict, Fields
<1>3. Swept(d).val = val /\ Swept(d).made = d.made /\ IsDict(Swept(d))
  BY <1>2 DEF IsDict, Fields
<1> QED BY <1>3 DEF Keeps

\* Reading a key drops others, but not the key itself, and changes no value.
LEMMA ReadIs ==
    ASSUME NEW d, NEW k, IsDict(d), clock \in Nat
    PROVE  /\ IsDict(Read(d, k)) /\ Read(d, k).made = d.made
           /\ Keeps(d, Read(d, k))
           /\ k \in DOMAIN d.val => k \in DOMAIN Read(d, k).val
<1> PICK t : t = Touch(d, k)
  OBVIOUS
<1>1. IsDict(t) /\ t.val = d.val /\ t.made = d.made /\ k \in DOMAIN t.times /\ t.times[k] = clock
  BY TouchIs
<1>2. k \notin Stale(t)
  BY <1>1, PushBounds DEF Stale
<1>3. CASE ~Due(t)
  BY <1>1, <1>3 DEF Read, Keeps
<1>4. CASE Due(t) /\ Ghosts(t) # {}
  <2> PICK times : times = Without1(t.times, CHOOSE g \in Ghosts(t) : TRUE)
    OBVIOUS
  <2>1. Read(d, k) = [t EXCEPT !.times = times]
    BY <1>4 DEF Read
  <2> QED BY <1>1, <2>1 DEF IsDict, Fields, Keeps
<1>5. CASE Due(t) /\ Ghosts(t) = {}
  <2>1. Read(d, k) = Swept(t)
    BY <1>5 DEF Read
  <2> QED BY <1>1, <1>2, <2>1, SweptIs DEF Keeps
<1> QED BY <1>3, <1>4, <1>5

\* Reading a condition keeps the others or drops them; the one that is read is kept, or
\* made with a number of its own.
LEMMA ConditionIs ==
    ASSUME NEW d, NEW k, IsDict(d), clock \in Nat, d.made \in Nat
    PROVE  LET c == Condition(d, k)
           IN  /\ IsDict(c) /\ k \in DOMAIN c.val /\ c.made \in Nat /\ c.made >= d.made
               /\ \A x \in DOMAIN c.val : x # k => x \in DOMAIN d.val /\ c.val[x] = d.val[x]
               /\ \/ k \in DOMAIN d.val /\ c.val[k] = d.val[k]
                  \/ k \notin DOMAIN d.val /\ c.val[k] = d.made + 1 /\ c.made = d.made + 1
<1> PICK read : read = Read(d, k)
  OBVIOUS
<1>1. IsDict(read) /\ read.made = d.made /\ Keeps(d, read) /\ (k \in DOMAIN d.val => k \in DOMAIN read.val)
  BY ReadIs
<1>2. CASE k \in DOMAIN read.val
  <2>1. Condition(d, k) = read
    BY <1>2 DEF Condition
  <2> QED BY <1>1, <1>2, <2>1 DEF Keeps
<1>3. CASE k \notin DOMAIN read.val
  <2> PICK number : number = d.made + 1
    OBVIOUS
  <2> PICK store : store = Store(read, k, number)
    OBVIOUS
  <2>1. IsDict(store) /\ store.val = Put(read.val, k, number) /\ store.made = d.made
    BY <1>1, StoreIs
  <2>2. Condition(d, k) = [store EXCEPT !.made = number]
    BY <1>1, <1>3, <2>1 DEF Condition
  <2>3. IsDict(Condition(d, k)) /\ Condition(d, k).val = store.val /\ Condition(d, k).made = number
    BY <2>1, <2>2 DEF IsDict, Fields
  <2> QED BY <1>1, <1>3, <2>1, <2>3 DEF Put, Keeps
<1> QED BY <1>2, <1>3

-----------------------------------------------------------------------------
(* The inductive invariant. *)

HookPCs == {"new", "entered", "waiting", "notified", "running", "done"}
Waits(t) == hooks[t].pc = "waiting"
HookRecords == [pc : HookPCs, pr : PRs \cup {"none"}, cond : Nat]

\* The tasks; one that is in the handler has a pull request, one that waits a condition.
HooksOK ==
    /\ hooks \in [PushTasks -> HookRecords]
    /\ \A t \in PushTasks :
        /\ hooks[t].pc \in {"entered", "waiting", "notified", "running"} => hooks[t].pr \in PRs
        /\ ~Waits(t) => hooks[t].cond = 0

\* The dictionaries; two pull requests have two conditions.
DictsOK ==
    /\ IsDict(counters) /\ DOMAIN counters.val \subseteq PRs
    /\ \A p \in DOMAIN counters.val : counters.val[p] \in Int
    /\ IsDict(conditions) /\ DOMAIN conditions.val \subseteq PRs
    /\ conditions.made \in Nat
    /\ \A p \in DOMAIN conditions.val : conditions.val[p] \in 1..conditions.made
    /\ \A p, q \in DOMAIN conditions.val : conditions.val[p] = conditions.val[q] => p = q

\* The queue holds the tasks that wait, once each, and a condition that is in the
\* dictionary is waited for by tasks of its own pull request only.
Queued(t) == \E k \in DOMAIN waiting : waiting[k] = t
QueueOK ==
    /\ waiting \in Seq(PushTasks)
    /\ \A k, l \in DOMAIN waiting : waiting[k] = waiting[l] => k = l
    /\ \A t \in PushTasks : Waits(t) <=> Queued(t)
    /\ \A t \in PushTasks : Waits(t) =>
        /\ hooks[t].cond \in 1..conditions.made
        /\ \A q \in DOMAIN conditions.val : hooks[t].cond = conditions.val[q] => hooks[t].pr = q

HeadsOK ==
    /\ prHead \in [PRs -> Nat] /\ reviewed \in [PRs -> Nat]
    /\ \A p \in PRs : reviewed[p] <= prHead[p]

\* Nobody, one that runs, or one that runs and one that waits, and the counter knows.
Nobody(p) == Count(p) = 0 /\ Active(p) = {}
OneRuns(p) == Count(p) = 1 /\ \E t \in PushTasks : Active(p) = {t} /\ ~Waits(t)
OneWaits(p) ==
    /\ Count(p) = 2
    /\ \E t, u \in PushTasks : t # u /\ Active(p) = {t, u} /\ ~Waits(t) /\ Waits(u)
\* The one that waits does so on the condition that is in the dictionary.
WaitsRightly(p) ==
    \A u \in Active(p) : Waits(u) => p \in DOMAIN conditions.val /\ hooks[u].cond = conditions.val[p]
Turns(p) == (Nobody(p) \/ OneRuns(p) \/ OneWaits(p)) /\ WaitsRightly(p)

PushInv ==
    /\ HooksOK /\ DictsOK /\ QueueOK /\ HeadsOK /\ clock \in Nat
    /\ \A p \in PRs \ spoilt : Turns(p)

\* What no task of a pull request notices leaves it as it was.
LEMMA TurnsStay ==
    ASSUME NEW p \in PRs, Turns(p), Count(p)' = Count(p), Active(p)' = Active(p),
           \A t \in Active(p) : hooks'[t] = hooks[t],
           \A u \in Active(p) : Waits(u) /\ p \in DOMAIN conditions.val =>
               p \in DOMAIN conditions'.val /\ conditions'.val[p] = conditions.val[p]
    PROVE  Turns(p)'
BY DEF Turns, Nobody, OneRuns, OneWaits, WaitsRightly, Waits

LEMMA PushInitially == PushInit => PushInv
<1> SUFFICES ASSUME PushInit PROVE PushInv
  OBVIOUS
<1>1. HooksOK /\ HeadsOK /\ QueueOK /\ clock \in Nat
  BY PushBounds DEF PushInit, NoHook, HooksOK, HookRecords, HookPCs, HeadsOK, QueueOK, Waits, Queued
<1>2. IsDict(EmptyDict) /\ DOMAIN EmptyDict.val = {} /\ EmptyDict.made = 0
  BY DEF IsDict, Fields, EmptyDict
<1>3. DictsOK
  BY <1>2 DEF PushInit, DictsOK
<1>4. ASSUME NEW p \in PRs PROVE Turns(p)
  BY <1>2 DEF PushInit, NoHook, Turns, Nobody, WaitsRightly, Active, Count
<1> QED BY <1>1, <1>3, <1>4 DEF PushInv

\* A task that is no longer, or not yet, in the handler.
LEMMA OutsiderMoves ==
    ASSUME NEW t \in PushTasks, HooksOK, hooks[t].pc \in {"new", "running"}, Done(t)
    PROVE  /\ HooksOK'
           /\ \A u \in PushTasks : u # t => hooks'[u] = hooks[u]
           /\ hooks'[t].pc = "done"
           /\ \A p \in PRs : Active(p)' = Active(p) \ {t}
BY DEF HooksOK, HookRecords, HookPCs, Waits, Done, Place, Active

\* A hook that is answered without a run.
LEMMA AnsweredKeeps ==
    ASSUME PushInv, NEW t \in PushTasks, hooks[t].pc = "new", Done(t), HeadsOK',
           UNCHANGED <<counters, conditions, waiting, spoilt, clock>>
    PROVE  PushInv'
<1> USE DEF PushInv
<1>1. HooksOK' /\ (\A u \in PushTasks : u # t => hooks'[u] = hooks[u]) /\ hooks'[t].pc = "done"
  BY OutsiderMoves
<1>2. \A p \in PRs : t \notin Active(p) /\ Active(p)' = Active(p)
  BY OutsiderMoves DEF Active
<1>3. DictsOK' /\ clock' \in Nat
  BY DEF DictsOK
<1>4. QueueOK'
  BY <1>1 DEF QueueOK, Waits, Queued
<1>5. ASSUME NEW p \in PRs \ spoilt' PROVE Turns(p)'
  <2>1. Turns(p) /\ Count(p)' = Count(p)
    BY DEF Count
  <2>2. \A u \in Active(p) : hooks'[u] = hooks[u]
    BY <1>1, <1>2 DEF Active
  <2> QED BY <1>2, <2>1, <2>2, TurnsStay
<1> QED BY <1>1, <1>3, <1>4, <1>5

LEMMA HeadMoves ==
    ASSUME HeadsOK, NEW p \in PRs, prHead' = [prHead EXCEPT ![p] = @ + 1], UNCHANGED reviewed
    PROVE  HeadsOK'
BY DEF HeadsOK

LEMMA DisregardKeeps ==
    ASSUME PushInv, NEW t \in PushTasks, NEW pr \in PRs, NEW e,
           Disregard(t, pr, e) \/ Direct(t, pr, e) \/ DropPush(t, pr, e)
    PROVE  PushInv'
<1>1. Done(t) /\ hooks[t].pc = "new" /\ UNCHANGED <<counters, conditions, waiting, spoilt, clock>>
  BY DEF Disregard, Direct, DropPush, Arrives
<1>2. HeadsOK'
  BY HeadMoves DEF PushInv, HeadsOK, Disregard, Direct, DropPush
<1> QED BY <1>1, <1>2, AnsweredKeeps

-----------------------------------------------------------------------------
(* A push that is counted. *)

\* A pull request that no sweep has spoilt finds its entries after it as before it.
LEMMA NotLost ==
    ASSUME NEW d, NEW new, NEW p \in PRs, p \notin Lost(d, new), Active(p) # {}, p \in DOMAIN d.val
    PROVE  p \in DOMAIN new.val
BY DEF Lost, InUse, Active

LEMMA DefaultedIs ==
    ASSUME DictsOK, NEW pr \in PRs
    PROVE  /\ IsDict(Defaulted(pr)) /\ Count(pr) \in Int
           /\ Defaulted(pr).val = Put(counters.val, pr, Count(pr))
<1> PICK val : val = Put(counters.val, pr, Count(pr))
  OBVIOUS
<1>1. Defaulted(pr) = [counters EXCEPT !.val = val]
  BY DEF Defaulted
<1>2. Count(pr) \in Int
  BY DEF Count, DictsOK
<1> QED BY <1>1, <1>2 DEF DictsOK, IsDict, Fields

LEMMA CountedIs ==
    ASSUME DictsOK, clock \in Nat, NEW pr \in PRs, NEW v
    PROVE  LET read == Read(Defaulted(pr), pr)
               new == Store(read, pr, v)
           IN  /\ IsDict(read) /\ IsDict(new)
               /\ DOMAIN read.val \subseteq DOMAIN counters.val \cup {pr}
               /\ \A q \in DOMAIN read.val : read.val[q] = IF q = pr THEN Count(pr) ELSE counters.val[q]
               /\ DOMAIN new.val = DOMAIN read.val \cup {pr}
               /\ \A q \in DOMAIN new.val : new.val[q] = IF q = pr THEN v ELSE counters.val[q]
<1> PICK d : d = Defaulted(pr)
  OBVIOUS
<1>1. IsDict(d) /\ d.val = Put(counters.val, pr, Count(pr))
  BY DefaultedIs
<1> PICK read : read = Read(d, pr)
  OBVIOUS
<1>2. IsDict(read) /\ Keeps(d, read)
  BY <1>1, ReadIs
<1>3. /\ DOMAIN read.val \subseteq DOMAIN counters.val \cup {pr}
      /\ \A q \in DOMAIN read.val : read.val[q] = IF q = pr THEN Count(pr) ELSE counters.val[q]
  BY <1>1, <1>2 DEF Keeps, Put
<1>4. IsDict(Store(read, pr, v)) /\ Store(read, pr, v).val = Put(read.val, pr, v)
  BY <1>2, StoreIs
<1> QED BY <1>2, <1>3, <1>4 DEF Put

\* What reading a condition does to the dictionary and to the tasks that wait.
LEMMA ConditionKeeps ==
    ASSUME PushInv, NEW pr \in PRs, conditions' = Condition(conditions, pr)
    PROVE  /\ IsDict(conditions') /\ DOMAIN conditions'.val \subseteq PRs /\ conditions'.made \in Nat
           /\ pr \in DOMAIN conditions'.val
           /\ \A p \in DOMAIN conditions'.val : conditions'.val[p] \in 1..conditions'.made
           /\ \A p, q \in DOMAIN conditions'.val : conditions'.val[p] = conditions'.val[q] => p = q
           /\ \A t \in PushTasks : Waits(t) =>
               /\ hooks[t].cond \in 1..conditions'.made
               /\ \A q \in DOMAIN conditions'.val : hooks[t].cond = conditions'.val[q] => hooks[t].pr = q
           /\ \A q \in DOMAIN conditions'.val : q \in DOMAIN conditions.val => conditions'.val[q] = conditions.val[q]
           /\ pr \in DOMAIN conditions.val => conditions'.val[pr] = conditions.val[pr]
<1>1. IsDict(conditions) /\ clock \in Nat /\ conditions.made \in Nat
  BY DEF PushInv, DictsOK
<1> PICK c : c = Condition(conditions, pr)
  OBVIOUS
<1>2. /\ IsDict(c) /\ pr \in DOMAIN c.val /\ c.made \in Nat /\ c.made >= conditions.made
      /\ \A x \in DOMAIN c.val : x # pr => x \in DOMAIN conditions.val /\ c.val[x] = conditions.val[x]
      /\ \/ pr \in DOMAIN conditions.val /\ c.val[pr] = conditions.val[pr]
         \/ pr \notin DOMAIN conditions.val /\ c.val[pr] = conditions.made + 1 /\ c.made = conditions.made + 1
  BY <1>1, ConditionIs
<1>3. \A p \in DOMAIN c.val : \/ p \in DOMAIN conditions.val /\ c.val[p] = conditions.val[p]
                              \/ p = pr /\ c.val[p] = conditions.made + 1 /\ c.made = conditions.made + 1
  BY <1>2
<1>4. \A p \in DOMAIN conditions.val : conditions.val[p] \in 1..conditions.made
  BY DEF PushInv, DictsOK
<1>5. \A p, q \in DOMAIN c.val : c.val[p] = c.val[q] => p = q
  BY <1>1, <1>3, <1>4 DEF PushInv, DictsOK
<1>6. \A p \in DOMAIN c.val : c.val[p] \in 1..c.made
  BY <1>1, <1>2, <1>3, <1>4
<1>7. ASSUME NEW t \in PushTasks, Waits(t)
      PROVE  /\ hooks[t].cond \in 1..c.made
             /\ \A q \in DOMAIN c.val : hooks[t].cond = c.val[q] => hooks[t].pr = q
  <2>1. /\ hooks[t].cond \in 1..conditions.made
        /\ \A q \in DOMAIN conditions.val : hooks[t].cond = conditions.val[q] => hooks[t].pr = q
    BY <1>7 DEF PushInv, QueueOK
  <2> QED BY <1>1, <1>2, <1>3, <2>1
<1>8. DOMAIN c.val \subseteq PRs
  BY <1>2 DEF PushInv, DictsOK
<1> QED BY <1>2, <1>3, <1>5, <1>6, <1>7, <1>8

\* The task that is counted, and its place.
LEMMA EnterIs ==
    ASSUME HooksOK, NEW t \in PushTasks, NEW pr \in PRs, NEW pc \in {"entered", "waiting"}, NEW cond \in Nat,
           hooks[t].pc = "new", pc = "entered" => cond = 0, Place(t, pc, pr, cond)
    PROVE  /\ HooksOK'
           /\ \A u \in PushTasks : u # t => hooks'[u] = hooks[u]
           /\ hooks'[t].pc = pc /\ hooks'[t].pr = pr /\ hooks'[t].cond = cond
           /\ \A p \in PRs : t \notin Active(p) /\ Active(p)' = IF p = pr THEN Active(p) \cup {t} ELSE Active(p)
BY DEF HooksOK, HookRecords, HookPCs, Waits, Place, Active

\* A task that goes to the end of the queue, or none.
LEMMA QueueGrows ==
    ASSUME QueueOK, NEW t \in PushTasks, ~Waits(t),
           \A u \in PushTasks : u # t => hooks'[u] = hooks[u],
           \/ waiting' = Append(waiting, t) /\ Waits(t)'
           \/ waiting' = waiting /\ ~Waits(t)'
    PROVE  /\ waiting' \in Seq(PushTasks)
           /\ \A k, l \in DOMAIN waiting' : waiting'[k] = waiting'[l] => k = l
           /\ \A u \in PushTasks : Waits(u)' <=> Queued(u)'
<1>1. CASE waiting' = waiting /\ ~Waits(t)'
  BY <1>1 DEF QueueOK, Waits, Queued
<1>2. CASE waiting' = Append(waiting, t) /\ Waits(t)'
  <2> PICK n \in Nat : n = Len(waiting)
    BY DEF QueueOK
  <2>1. /\ waiting' \in Seq(PushTasks) /\ DOMAIN waiting' = 1..(n + 1) /\ DOMAIN waiting = 1..n
        /\ waiting'[n + 1] = t /\ \A k \in 1..n : waiting'[k] = waiting[k]
    BY <1>2 DEF QueueOK
  <2>2. \A k \in 1..n : waiting[k] # t
    BY <2>1 DEF QueueOK, Queued
  <2>3. \A k, l \in DOMAIN waiting' : waiting'[k] = waiting'[l] => k = l
    BY <2>1, <2>2 DEF QueueOK
  <2>4. \A u \in PushTasks : Queued(u)' <=> u = t \/ Queued(u)
    <3> TAKE u \in PushTasks
    <3>1. u = t => Queued(u)'
      BY <2>1 DEF Queued
    <3>2. Queued(u) => Queued(u)'
      BY <2>1 DEF Queued
    <3>3. Queued(u)' => u = t \/ Queued(u)
      BY <2>1 DEF Queued
    <3> QED BY <3>1, <3>2, <3>3
  <2> QED BY <1>2, <2>1, <2>3, <2>4 DEF QueueOK, Waits
<1> QED BY <1>1, <1>2

LEMMA CountPushKeeps ==
    ASSUME PushInv, NEW t \in PushTasks, NEW pr \in PRs, NEW e, CountPush(t, pr, e)
    PROVE  PushInv'
<1> PICK d : d = Defaulted(pr)
  OBVIOUS
<1> PICK read : read = Read(d, pr)
  OBVIOUS
<1> PICK n : n = Count(pr) + 1
  OBVIOUS
<1>1. /\ hooks[t].pc = "new" /\ Count(pr) < MaxActive
      /\ prHead' = [prHead EXCEPT ![pr] = @ + 1]
      /\ counters' = Store(read, pr, n)
      /\ conditions' = Condition(conditions, pr)
      /\ IF Count(pr) = 1 THEN Wait(t, pr, conditions'.val[pr])
         ELSE Place(t, "entered", pr, 0) /\ UNCHANGED waiting
      /\ spoilt' = spoilt \cup Lost(counters, read) \cup Lost(conditions, conditions')
      /\ UNCHANGED <<reviewed, clock>>
  BY DEF CountPush, Arrives
<1>2. /\ HooksOK /\ DictsOK /\ QueueOK /\ HeadsOK /\ clock \in Nat /\ Count(pr) \in Int
      /\ \A p \in PRs \ spoilt : Turns(p)
  BY DefaultedIs DEF PushInv
<1>3. /\ IsDict(read) /\ IsDict(counters')
      /\ DOMAIN read.val \subseteq DOMAIN counters.val \cup {pr}
      /\ DOMAIN counters'.val = DOMAIN read.val \cup {pr}
      /\ \A q \in DOMAIN counters'.val : counters'.val[q] = IF q = pr THEN n ELSE counters.val[q]
  BY <1>1, <1>2, CountedIs
<1>4. DictsOK'
  BY <1>1, <1>2, <1>3, ConditionKeeps DEF DictsOK
<1> PICK pc, cond : /\ pc = IF Count(pr) = 1 THEN "waiting" ELSE "entered"
                    /\ cond = IF Count(pr) = 1 THEN conditions'.val[pr] ELSE 0
  OBVIOUS
<1>5. pr \in DOMAIN conditions'.val /\ cond \in Nat
  BY <1>1, ConditionKeeps
<1>6. Place(t, pc, pr, cond)
  BY <1>1 DEF Wait
<1>7. /\ HooksOK'
      /\ \A u \in PushTasks : u # t => hooks'[u] = hooks[u]
      /\ hooks'[t].pc = pc /\ hooks'[t].pr = pr /\ hooks'[t].cond = cond
      /\ \A p \in PRs : t \notin Active(p) /\ Active(p)' = IF p = pr THEN Active(p) \cup {t} ELSE Active(p)
  BY <1>1, <1>2, <1>5, <1>6, EnterIs
<1>8. ~Waits(t) /\ (Waits(t)' <=> Count(pr) = 1)
  BY <1>1, <1>7 DEF Waits
<1>9. QueueOK'
  <2>1. /\ waiting' \in Seq(PushTasks)
        /\ \A k, l \in DOMAIN waiting' : waiting'[k] = waiting'[l] => k = l
        /\ \A u \in PushTasks : Waits(u)' <=> Queued(u)'
    BY <1>1, <1>2, <1>7, <1>8, QueueGrows DEF Wait
  <2>2. ASSUME NEW u \in PushTasks, Waits(u)'
        PROVE  /\ hooks'[u].cond \in 1..conditions'.made
               /\ \A q \in DOMAIN conditions'.val : hooks'[u].cond = conditions'.val[q] => hooks'[u].pr = q
    <3>1. CASE u = t
      BY <1>1, <1>5, <1>7, <1>8, <2>2, <3>1, ConditionKeeps
    <3>2. CASE u # t
      BY <1>1, <1>7, <2>2, <3>2, ConditionKeeps DEF Waits
    <3> QED BY <3>1, <3>2
  <2> QED BY <2>1, <2>2 DEF QueueOK
<1>10. HeadsOK'
  BY <1>1, <1>2, HeadMoves
<1>11. ASSUME NEW p \in PRs \ spoilt' PROVE Turns(p)'
  <2>1. Turns(p) /\ p \notin Lost(counters, read) /\ p \notin Lost(conditions, conditions')
    BY <1>1, <1>2
  <2>2. ASSUME NEW u \in Active(p), Waits(u), p \in DOMAIN conditions.val
        PROVE  p \in DOMAIN conditions'.val /\ conditions'.val[p] = conditions.val[p]
    BY <1>1, <2>1, <2>2, NotLost, ConditionKeeps
  <2>3. CASE p # pr
    <3>1. Count(p)' = Count(p)
      <4>1. CASE Active(p) = {}
        BY <1>3, <2>1, <2>3, <4>1 DEF Turns, Nobody, OneRuns, OneWaits, Count
      <4>2. CASE Active(p) # {}
        BY <1>3, <2>1, <2>3, <4>2, NotLost DEF Count
      <4> QED BY <4>1, <4>2
    <3> QED BY <1>7, <2>1, <2>2, <2>3, <3>1, TurnsStay DEF Active
  <2>4. CASE p = pr
    <3>1. Count(p)' = n /\ Active(p)' = Active(p) \cup {t} /\ t \notin Active(p)
      BY <1>3, <1>7, <2>4 DEF Count
    <3>2. \A u \in Active(p) : hooks'[u] = hooks[u]
      BY <1>7, <3>1 DEF Active
    <3>3. WaitsRightly(p)'
      BY <1>5, <1>7, <1>8, <2>1, <2>2, <2>4, <3>1, <3>2 DEF Turns, WaitsRightly, Waits
    <3>4. CASE Nobody(p)
      BY <1>2, <1>8, <2>4, <3>1, <3>3, <3>4 DEF Nobody, Turns, OneRuns
    <3>5. CASE OneRuns(p)
      BY <1>2, <1>8, <2>4, <3>1, <3>2, <3>3, <3>5 DEF OneRuns, Turns, OneWaits, Waits
    <3> QED BY <1>1, <2>1, <2>4, <3>4, <3>5, PushBounds DEF Turns, OneWaits
  <2> QED BY <2>3, <2>4
<1> QED BY <1>1, <1>2, <1>4, <1>7, <1>9, <1>10, <1>11 DEF PushInv

\* A sweep that meets a ghost deletes a time and no entry.
LEMMA RaisesIs ==
    ASSUME NEW d, NEW k, IsDict(d), clock \in Nat, Raises(d, k)
    PROVE  Read(d, k).val = d.val
<1> PICK t : t = Touch(d, k)
  OBVIOUS
<1>1. IsDict(t) /\ t.val = d.val
  BY TouchIs
<1>2. t.last = d.last
  <2> PICK times : times = Put(d.times, k, clock)
    OBVIOUS
  <2>1. t = [d EXCEPT !.times = times]
    BY DEF Touch
  <2> QED BY <2>1 DEF IsDict, Fields
<1>3. Due(t) /\ Ghosts(t) # {}
  BY <1>2 DEF Raises, Due
<1> PICK times : times = Without1(t.times, CHOOSE g \in Ghosts(t) : TRUE)
  OBVIOUS
<1>4. Read(d, k) = [t EXCEPT !.times = times]
  BY <1>3 DEF Read
<1> QED BY <1>1, <1>4 DEF IsDict, Fields

LEMMA CountRaisesKeeps ==
    ASSUME PushInv, NEW t \in PushTasks, NEW pr \in PRs, NEW e, CountRaises(t, pr, e)
    PROVE  PushInv'
<1> PICK d : d = Defaulted(pr)
  OBVIOUS
<1>1. /\ hooks[t].pc = "new" /\ Raises(d, pr) /\ counters' = Read(d, pr) /\ Done(t)
      /\ prHead' = [prHead EXCEPT ![pr] = @ + 1] /\ spoilt' = spoilt \cup {pr}
      /\ UNCHANGED <<conditions, waiting, reviewed, clock>>
  BY DEF CountRaises, Arrives
<1>2. /\ HooksOK /\ DictsOK /\ QueueOK /\ HeadsOK /\ clock \in Nat
      /\ \A p \in PRs \ spoilt : Turns(p)
  BY DEF PushInv
<1>3. IsDict(d) /\ d.val = Put(counters.val, pr, Count(pr)) /\ Count(pr) \in Int
  BY <1>2, DefaultedIs
<1>4. IsDict(counters') /\ counters'.val = Put(counters.val, pr, Count(pr))
  BY <1>1, <1>2, <1>3, ReadIs, RaisesIs
<1>5. DictsOK'
  BY <1>1, <1>2, <1>3, <1>4 DEF DictsOK, Put
<1>6. /\ HooksOK' /\ (\A u \in PushTasks : u # t => hooks'[u] = hooks[u]) /\ hooks'[t].pc = "done"
      /\ \A p \in PRs : t \notin Active(p) /\ Active(p)' = Active(p)
  BY <1>1, <1>2, OutsiderMoves DEF Active
<1>7. QueueOK'
  BY <1>1, <1>2, <1>6 DEF QueueOK, Waits, Queued
<1>8. ASSUME NEW p \in PRs \ spoilt' PROVE Turns(p)'
  <2>1. Turns(p) /\ p # pr
    BY <1>1, <1>2
  <2>2. Count(p)' = Count(p)
    BY <1>4, <2>1 DEF Count, Put
  <2> QED BY <1>1, <1>6, <2>1, <2>2, TurnsStay DEF Active
<1>9. HeadsOK'
  BY <1>1, <1>2, HeadMoves
<1> QED BY <1>1, <1>2, <1>5, <1>6, <1>7, <1>8, <1>9 DEF PushInv

-----------------------------------------------------------------------------
(* A run starts and ends. *)

LEMMA StartReviewKeeps ==
    ASSUME PushInv, NEW t \in PushTasks, StartReview(t)
    PROVE  PushInv'
<1> PICK pr : pr = hooks[t].pr
  OBVIOUS
<1>1. /\ hooks[t].pc \in {"entered", "notified"} /\ Place(t, "running", pr, 0)
      /\ reviewed' = [reviewed EXCEPT ![pr] = prHead[pr]]
      /\ UNCHANGED <<counters, conditions, waiting, prHead, spoilt, clock>>
  BY DEF StartReview
<1>2. /\ HooksOK /\ DictsOK /\ QueueOK /\ HeadsOK /\ clock \in Nat
      /\ \A p \in PRs \ spoilt : Turns(p)
  BY DEF PushInv
<1>3. pr \in PRs
  BY <1>1, <1>2 DEF HooksOK
<1>4. /\ HooksOK' /\ \A u \in PushTasks : u # t => hooks'[u] = hooks[u]
      /\ hooks'[t].pc = "running" /\ hooks'[t].pr = pr
  BY <1>1, <1>2, <1>3 DEF HooksOK, HookRecords, HookPCs, Waits, Place
<1>5. \A u \in PushTasks : Waits(u)' <=> Waits(u)
  BY <1>1, <1>4 DEF Waits
<1>6. \A u \in PushTasks : Waits(u) => hooks'[u] = hooks[u]
  BY <1>1, <1>4 DEF Waits
<1>7. QueueOK'
  BY <1>1, <1>2, <1>5, <1>6 DEF QueueOK, Queued
<1>8. HeadsOK'
  BY <1>1, <1>2, <1>3 DEF HeadsOK
<1>9. ASSUME NEW p \in PRs \ spoilt' PROVE Turns(p)'
  <2>1. Turns(p) /\ Count(p)' = Count(p)
    BY <1>1, <1>2 DEF Count
  <2>2. Active(p)' = Active(p) /\ Active(p) \subseteq PushTasks
    BY <1>1, <1>4 DEF Active
  <2>3. WaitsRightly(p)'
    BY <1>1, <1>5, <1>6, <2>1, <2>2 DEF Turns, WaitsRightly
  <2> QED BY <1>5, <2>1, <2>2, <2>3 DEF Turns, Nobody, OneRuns, OneWaits
<1> QED BY <1>1, <1>2, <1>4, <1>7, <1>8, <1>9 DEF PushInv, DictsOK

WaitsFor(u, id) == Waits(u) /\ hooks[u].cond = id

\* The first of the tasks that wait for a condition is the one that is woken.
LEMMA FirstIs ==
    ASSUME waiting \in Seq(PushTasks), NEW id, Waiters(id) # {}
    PROVE  First(id) \in Waiters(id) /\ First(id) \in 1..Len(waiting)
<1>1. Waiters(id) \subseteq Nat /\ Waiters(id) \subseteq 1..Len(waiting)
  BY DEF Waiters
<1>2. \E k \in Waiters(id) : \A l \in Waiters(id) : k <= l
  BY <1>1, LeastElement
<1> QED BY <1>1, <1>2 DEF First

\* Taking one place out of a queue takes out that task and no other.
LEMMA QueueShrinks ==
    ASSUME QueueOK, NEW n \in 1..Len(waiting),
           waiting' = [k \in 1..(Len(waiting) - 1) |-> IF k < n THEN waiting[k] ELSE waiting[k + 1]]
    PROVE  /\ waiting' \in Seq(PushTasks)
           /\ \A k, l \in DOMAIN waiting' : waiting'[k] = waiting'[l] => k = l
           /\ \A u \in PushTasks : Queued(u)' <=> Queued(u) /\ u # waiting[n]
<1> PICK m \in Nat : m = Len(waiting)
  BY DEF QueueOK
<1>1. /\ waiting \in [1..m -> PushTasks] /\ n \in 1..m /\ m - 1 \in Nat
      /\ \A k, l \in 1..m : waiting[k] = waiting[l] => k = l
  BY SMTT(40) DEF QueueOK
<1>2. /\ DOMAIN waiting' = 1..(m - 1)
      /\ \A k \in 1..(m - 1) : waiting'[k] = IF k < n THEN waiting[k] ELSE waiting[k + 1]
  OBVIOUS
<1>3. waiting' \in [1..(m - 1) -> PushTasks]
  BY <1>1
<1>4. waiting' \in Seq(PushTasks)
  BY <1>1, <1>3, IsASeq
<1>5. \A k, l \in DOMAIN waiting' : waiting'[k] = waiting'[l] => k = l
  BY <1>1, <1>2
<1>6. ASSUME NEW u \in PushTasks PROVE Queued(u)' <=> Queued(u) /\ u # waiting[n]
  <2>1. ASSUME NEW k \in 1..m, waiting[k] = u, u # waiting[n] PROVE Queued(u)'
    <3>1. CASE k < n
      BY <1>1, <1>2, <2>1, <3>1 DEF Queued
    <3>2. CASE ~(k < n)
      <4> PICK l \in 1..(m - 1) : k = l + 1 /\ ~(l < n)
        <5>1. k - 1 \in 1..(m - 1) /\ k = (k - 1) + 1 /\ ~(k - 1 < n)
          BY <1>1, <2>1, <3>2
        <5> QED BY <5>1
      <4> QED BY <1>2, <2>1 DEF Queued
    <3> QED BY <3>1, <3>2
  <2>2. ASSUME NEW k \in 1..(m - 1), waiting'[k] = u PROVE Queued(u) /\ u # waiting[n]
    BY <1>1, <1>2, <2>2 DEF Queued
  <2> QED BY <1>1, <1>2, <2>1, <2>2 DEF Queued
<1> QED BY <1>4, <1>5, <1>6

DoneHook == [pc |-> "done", pr |-> "none", cond |-> 0]
Woken(u) == [pc |-> "notified", pr |-> hooks[u].pr, cond |-> 0]

\* A notification wakes one task that waits for the condition, if there is one.
LEMMA NotifyIs ==
    ASSUME HooksOK, QueueOK, NEW t \in PushTasks, hooks[t].pc = "running", NEW id \in Nat \ {0}, NotifyAnd(t, id)
    PROVE  \/ /\ \A u \in PushTasks : ~WaitsFor(u, id)
              /\ hooks' = [u \in PushTasks |-> IF u = t THEN DoneHook ELSE hooks[u]]
              /\ waiting' = waiting
           \/ \E w \in PushTasks :
              /\ w # t /\ WaitsFor(w, id)
              /\ hooks' = [u \in PushTasks |-> IF u = t THEN DoneHook ELSE IF u = w THEN Woken(w) ELSE hooks[u]]
              /\ waiting' \in Seq(PushTasks)
              /\ \A k, l \in DOMAIN waiting' : waiting'[k] = waiting'[l] => k = l
              /\ \A u \in PushTasks : Queued(u)' <=> Queued(u) /\ u # w
<1>1. hooks = [u \in PushTasks |-> hooks[u]] /\ \A u \in PushTasks : hooks[u] \in HookRecords
  BY DEF HooksOK
<1>2. CASE Waiters(id) = {}
  <2>1. \A u \in PushTasks : ~WaitsFor(u, id)
    BY <1>2 DEF Waiters, WaitsFor, QueueOK, Queued
  <2>2. hooks' = [u \in PushTasks |-> IF u = t THEN DoneHook ELSE hooks[u]] /\ waiting' = waiting
    BY <1>1, <1>2 DEF NotifyAnd, Done, Place, DoneHook
  <2> QED BY <2>1, <2>2
<1>3. CASE Waiters(id) # {}
  <2> PICK n : n = First(id)
    OBVIOUS
  <2>1. n \in 1..Len(waiting) /\ hooks[waiting[n]].cond = id /\ waiting[n] \in PushTasks
    BY <1>3, FirstIs DEF Waiters, QueueOK
  <2> PICK w \in PushTasks : w = waiting[n]
    BY <2>1
  <2>2. w # t /\ WaitsFor(w, id)
    BY <2>1 DEF WaitsFor, HooksOK, Waits
  <2>3. /\ hooks' = [hooks EXCEPT ![t] = DoneHook, ![w] = Woken(w)]
        /\ waiting' = [k \in 1..(Len(waiting) - 1) |-> IF k < n THEN waiting[k] ELSE waiting[k + 1]]
    BY <1>3, <2>2 DEF NotifyAnd, DoneHook, Woken
  <2>4. hooks' = [u \in PushTasks |-> IF u = t THEN DoneHook ELSE IF u = w THEN Woken(w) ELSE hooks[u]]
    BY <1>1, <2>2, <2>3
  <2>5. /\ waiting' \in Seq(PushTasks)
        /\ \A k, l \in DOMAIN waiting' : waiting'[k] = waiting'[l] => k = l
        /\ \A u \in PushTasks : Queued(u)' <=> Queued(u) /\ u # w
    BY <2>1, <2>3, QueueShrinks
  <2> QED BY <2>2, <2>4, <2>5
<1> QED BY <1>2, <1>3

\* What a notification leaves: the task that ended is gone, one that it woke is awake.
LEMMA NotifiedIs ==
    ASSUME PushInv, NEW t \in PushTasks, NEW pr \in PRs, hooks[t].pc = "running", hooks[t].pr = pr,
           conditions' = Condition(conditions, pr), NotifyAnd(t, conditions'.val[pr])
    PROVE  /\ HooksOK' /\ QueueOK'
           /\ \A p \in PRs : Active(p)' = Active(p) \ {t}
           /\ \A u \in PushTasks \ {t} : hooks[u].pr # pr => hooks'[u] = hooks[u]
           /\ \A u \in PushTasks : Waits(u)' => Waits(u) /\ hooks'[u] = hooks[u]
           /\ \A u, v \in PushTasks : WaitsFor(u, conditions'.val[pr]) /\ WaitsFor(v, conditions'.val[pr]) /\ u # v
                                     => Waits(u)' \/ Waits(v)'
           /\ (\E u \in PushTasks : WaitsFor(u, conditions'.val[pr]))
              => \E w \in PushTasks : WaitsFor(w, conditions'.val[pr]) /\ ~Waits(w)'
<1> PICK id : id = conditions'.val[pr]
  OBVIOUS
<1>1. /\ HooksOK /\ QueueOK
      /\ hooks = [u \in PushTasks |-> hooks[u]] /\ \A u \in PushTasks : hooks[u] \in HookRecords
  BY DEF PushInv, HooksOK
<1>2. pr \in DOMAIN conditions'.val /\ id \in Nat \ {0}
  BY ConditionKeeps
<1>3. \A u \in PushTasks : WaitsFor(u, id) => hooks[u].pr = pr
  BY <1>2, ConditionKeeps DEF WaitsFor
<1>4. \A u \in PushTasks : Waits(u) =>
        /\ hooks[u].cond \in 1..conditions'.made
        /\ \A q \in DOMAIN conditions'.val : hooks[u].cond = conditions'.val[q] => hooks[u].pr = q
  BY ConditionKeeps
<1>5. CASE /\ \A u \in PushTasks : ~WaitsFor(u, id)
           /\ hooks' = [u \in PushTasks |-> IF u = t THEN DoneHook ELSE hooks[u]]
           /\ waiting' = waiting
  <2>1. \A u \in PushTasks : hooks'[u] = IF u = t THEN DoneHook ELSE hooks[u]
    BY <1>5
  <2>2. HooksOK'
    BY <1>1, <1>5 DEF HooksOK, HookRecords, HookPCs, DoneHook, Waits
  <2>3. \A u \in PushTasks : (Waits(u)' <=> Waits(u)) /\ (Waits(u)' => hooks'[u] = hooks[u])
    BY <2>1 DEF Waits, DoneHook
  <2>4. QueueOK'
    BY <1>1, <1>4, <1>5, <2>3 DEF QueueOK, Queued
  <2>5. \A p \in PRs : Active(p)' = Active(p) \ {t}
    BY <2>1 DEF Active, DoneHook
  <2> QED BY <1>5, <2>1, <2>2, <2>3, <2>4, <2>5
<1>6. ASSUME NEW w \in PushTasks, w # t, WaitsFor(w, id),
             hooks' = [u \in PushTasks |-> IF u = t THEN DoneHook ELSE IF u = w THEN Woken(w) ELSE hooks[u]],
             waiting' \in Seq(PushTasks),
             \A k, l \in DOMAIN waiting' : waiting'[k] = waiting'[l] => k = l,
             \A u \in PushTasks : Queued(u)' <=> Queued(u) /\ u # w
      PROVE  /\ HooksOK' /\ QueueOK'
             /\ \A p \in PRs : Active(p)' = Active(p) \ {t}
             /\ \A u \in PushTasks \ {t} : hooks[u].pr # pr => hooks'[u] = hooks[u]
             /\ \A u \in PushTasks : Waits(u)' <=> Waits(u) /\ u # w
             /\ \A u \in PushTasks : Waits(u)' => hooks'[u] = hooks[u]
  <2>1. \A u \in PushTasks : hooks'[u] = IF u = t THEN DoneHook ELSE IF u = w THEN Woken(w) ELSE hooks[u]
    BY <1>6
  <2>2. hooks[w].pr = pr /\ Waits(w) /\ Woken(w) = [pc |-> "notified", pr |-> pr, cond |-> 0]
    BY <1>3, <1>6 DEF Woken, WaitsFor
  <2>3. HooksOK'
    <3>1. DoneHook \in HookRecords /\ Woken(w) \in HookRecords
      BY <2>2 DEF HookRecords, HookPCs, DoneHook
    <3>2. hooks' \in [PushTasks -> HookRecords]
      BY <1>1, <1>6, <3>1
    <3>3. ASSUME NEW u \in PushTasks
          PROVE  /\ hooks'[u].pc \in {"entered", "waiting", "notified", "running"} => hooks'[u].pr \in PRs
                 /\ ~Waits(u)' => hooks'[u].cond = 0
      BY <1>1, <2>1, <2>2 DEF HooksOK, DoneHook, Waits
    <3> QED BY <3>2, <3>3 DEF HooksOK
  <2>4. \A u \in PushTasks : (Waits(u)' <=> Waits(u) /\ u # w) /\ (Waits(u)' => hooks'[u] = hooks[u])
    BY <2>1, <2>2 DEF Waits, DoneHook
  <2>5. QueueOK'
    <3>1. \A u \in PushTasks : Waits(u)' <=> Queued(u)'
      BY <1>1, <1>6, <2>4 DEF QueueOK
    <3>2. \A u \in PushTasks : Waits(u)' =>
             /\ hooks'[u].cond \in 1..conditions'.made
             /\ \A q \in DOMAIN conditions'.val : hooks'[u].cond = conditions'.val[q] => hooks'[u].pr = q
      BY <1>4, <2>4
    <3> QED BY <1>6, <3>1, <3>2 DEF QueueOK
  <2>6. \A p \in PRs : Active(p)' = Active(p) \ {t}
    BY <2>1, <2>2 DEF Active, DoneHook, Waits
  <2> QED BY <2>1, <2>2, <2>3, <2>4, <2>5, <2>6
<1>7. \/ /\ \A u \in PushTasks : ~WaitsFor(u, id)
         /\ hooks' = [u \in PushTasks |-> IF u = t THEN DoneHook ELSE hooks[u]]
         /\ waiting' = waiting
      \/ \E w \in PushTasks :
         /\ w # t /\ WaitsFor(w, id)
         /\ hooks' = [u \in PushTasks |-> IF u = t THEN DoneHook ELSE IF u = w THEN Woken(w) ELSE hooks[u]]
         /\ waiting' \in Seq(PushTasks)
         /\ \A k, l \in DOMAIN waiting' : waiting'[k] = waiting'[l] => k = l
         /\ \A u \in PushTasks : Queued(u)' <=> Queued(u) /\ u # w
  BY <1>1, <1>2, NotifyIs
<1>8. ASSUME NEW w \in PushTasks, WaitsFor(w, id), \A u \in PushTasks : Waits(u)' <=> Waits(u) /\ u # w
      PROVE  /\ \A u, v \in PushTasks : WaitsFor(u, id) /\ WaitsFor(v, id) /\ u # v => Waits(u)' \/ Waits(v)'
             /\ \E x \in PushTasks : WaitsFor(x, id) /\ ~Waits(x)'
  BY <1>8 DEF WaitsFor
<1> QED BY <1>5, <1>6, <1>7, <1>8

LEMMA FinishReviewKeeps ==
    ASSUME PushInv, NEW t \in PushTasks, FinishReview(t)
    PROVE  PushInv'
<1> PICK pr : pr = hooks[t].pr
  OBVIOUS
<1> PICK read : read = Read(counters, pr)
  OBVIOUS
<1> PICK gone : gone = (Raises(counters, pr) \/ pr \notin DOMAIN read.val)
  OBVIOUS
<1> PICK n : n = read.val[pr] - 1
  OBVIOUS
<1>1. /\ hooks[t].pc = "running"
      /\ conditions' = Condition(conditions, pr)
      /\ NotifyAnd(t, conditions'.val[pr])
      /\ counters' = IF gone THEN read ELSE Store(read, pr, n)
      /\ spoilt' = spoilt \cup Lost(counters, read) \cup Lost(conditions, conditions') \cup (IF gone THEN {pr} ELSE {})
      /\ UNCHANGED <<prHead, reviewed, clock>>
  BY DEF FinishReview
<1>2. /\ HooksOK /\ DictsOK /\ QueueOK /\ HeadsOK /\ clock \in Nat
      /\ \A p \in PRs \ spoilt : Turns(p)
  BY DEF PushInv
<1>3. pr \in PRs /\ ~Waits(t)
  BY <1>1, <1>2 DEF HooksOK, Waits
<1>4. IsDict(read) /\ Keeps(counters, read)
  BY <1>2, ReadIs DEF DictsOK
<1>5. /\ IsDict(counters')
      /\ DOMAIN counters'.val = DOMAIN read.val
      /\ \A q \in DOMAIN counters'.val : counters'.val[q] = IF q = pr /\ ~gone THEN n ELSE counters.val[q]
  <2>1. CASE gone
    BY <1>1, <1>4, <2>1 DEF Keeps
  <2>2. CASE ~gone
    <3>1. pr \in DOMAIN read.val /\ counters' = Store(read, pr, n)
      BY <1>1, <2>2
    <3>2. IsDict(counters') /\ counters'.val = Put(read.val, pr, n)
      BY <1>4, <3>1, StoreIs
    <3>3. /\ DOMAIN counters'.val = DOMAIN read.val
          /\ \A q \in DOMAIN counters'.val : counters'.val[q] = IF q = pr THEN n ELSE counters.val[q]
      <4> PICK val : val = Put(read.val, pr, n)
        OBVIOUS
      <4>1. DOMAIN val = DOMAIN read.val /\ \A q \in DOMAIN val : val[q] = IF q = pr THEN n ELSE read.val[q]
        BY <3>1 DEF Put
      <4>2. \A q \in DOMAIN read.val : read.val[q] = counters.val[q]
        BY <1>4, SMTT(30) DEF Keeps
      <4> QED BY <3>2, <4>1, <4>2
    <3> QED BY <2>2, <3>2, <3>3
  <2> QED BY <2>1, <2>2, ZenonT(30)
<1>6. DictsOK'
  <2>1. ASSUME NEW q \in DOMAIN counters'.val PROVE q \in PRs /\ counters'.val[q] \in Int
    <3>1. q \in DOMAIN counters.val /\ counters.val[q] \in Int /\ q \in PRs
      BY <1>2, <1>4, <1>5 DEF DictsOK, Keeps
    <3>2. q = pr => n \in Int
      BY <1>4, <1>5, <3>1 DEF Keeps
    <3> QED BY <1>5, <3>1, <3>2
  <2>2. IsDict(counters') /\ DOMAIN counters'.val \subseteq PRs /\ \A q \in DOMAIN counters'.val : counters'.val[q] \in Int
    BY <1>5, <2>1
  <2> QED BY <1>1, <1>3, <2>2, ConditionKeeps, Zenon DEF DictsOK
<1> PICK id : id = conditions'.val[pr]
  OBVIOUS
<1>7. /\ HooksOK' /\ QueueOK'
      /\ \A p \in PRs : Active(p)' = Active(p) \ {t}
      /\ \A u \in PushTasks \ {t} : hooks[u].pr # pr => hooks'[u] = hooks[u]
      /\ \A u \in PushTasks : Waits(u)' => Waits(u) /\ hooks'[u] = hooks[u]
      /\ \A u, v \in PushTasks : WaitsFor(u, id) /\ WaitsFor(v, id) /\ u # v => Waits(u)' \/ Waits(v)'
      /\ (\E u \in PushTasks : WaitsFor(u, id)) => \E w \in PushTasks : WaitsFor(w, id) /\ ~Waits(w)'
  BY <1>1, <1>3, NotifiedIs
<1>8. ASSUME NEW p \in PRs \ spoilt' PROVE Turns(p)'
  <2>1. Turns(p) /\ p \notin Lost(counters, read) /\ p \notin Lost(conditions, conditions')
    BY <1>1, <1>2
  <2>2. ASSUME NEW u \in Active(p), Waits(u), p \in DOMAIN conditions.val
        PROVE  p \in DOMAIN conditions'.val /\ conditions'.val[p] = conditions.val[p]
    BY <1>1, <1>3, <2>1, <2>2, NotLost, ConditionKeeps
  <2>3. CASE p # pr
    <3>1. Count(p)' = Count(p)
      <4>1. CASE Active(p) = {}
        BY <1>4, <1>5, <2>1, <2>3, <4>1 DEF Turns, Nobody, OneRuns, OneWaits, Count, Keeps
      <4>2. CASE Active(p) # {}
        BY <1>4, <1>5, <2>1, <2>3, <4>2, NotLost DEF Count, Keeps
      <4> QED BY <4>1, <4>2
    <3>2. t \notin Active(p) /\ \A u \in Active(p) : hooks'[u] = hooks[u]
      BY <1>7, <2>3 DEF Active
    <3>3. Active(p)' = Active(p)
      BY <1>7, <3>2, SMTT(30)
    <3> QED BY <2>1, <2>2, <3>1, <3>2, <3>3, TurnsStay
  <2>4. CASE p = pr
    <3>1. ~gone /\ pr \in DOMAIN read.val /\ Count(p)' = Count(p) - 1
      BY <1>1, <1>4, <1>5, <2>4, Zenon DEF Count, Keeps
    <3>2. t \in Active(p) /\ Active(p)' = Active(p) \ {t} /\ Active(p) \subseteq PushTasks
      BY <1>1, <1>3, <1>7, <2>4 DEF Active
    <3>3. WaitsRightly(p)'
      BY <1>7, <2>1, <2>2, <3>2 DEF Turns, WaitsRightly
    <3>4. CASE OneRuns(p)
      BY <3>1, <3>2, <3>3, <3>4 DEF OneRuns, Turns, Nobody
    <3>5. CASE OneWaits(p)
      <4>1. PICK u \in PushTasks : u # t /\ Active(p) = {t, u} /\ Waits(u)
        BY <1>3, <3>2, <3>5 DEF OneWaits
      <4>2. WaitsFor(u, id)
        BY <2>1, <2>2, <2>4, <4>1 DEF WaitsFor, Turns, WaitsRightly
      <4>3. \A w \in PushTasks : WaitsFor(w, id) => w = u
        <5> SUFFICES ASSUME NEW w \in PushTasks, WaitsFor(w, id) PROVE w = u
          OBVIOUS
        <5>1. hooks[w].pr = pr
          BY <1>1, <1>3, ConditionKeeps DEF WaitsFor
        <5>2. w \in Active(p) /\ w # t
          BY <1>3, <2>4, <5>1 DEF WaitsFor, Waits, Active
        <5> QED BY <4>1, <5>2
      <4>4. ~Waits(u)'
        BY <1>7, <4>2, <4>3
      <4>5. Active(p)' = {u} /\ Count(p)' = 1
        BY <3>1, <3>2, <3>5, <4>1 DEF OneWaits
      <4> QED BY <3>3, <4>4, <4>5 DEF Turns, OneRuns
    <3> QED BY <2>1, <3>2, <3>4, <3>5 DEF Turns, Nobody
  <2> QED BY <2>3, <2>4
<1> QED BY <1>1, <1>2, <1>6, <1>7, <1>8 DEF PushInv, HeadsOK

-----------------------------------------------------------------------------
(* The theorems. *)

LEMMA ElapseKeeps == ASSUME PushInv, Elapse PROVE PushInv'
<1>1. ASSUME NEW p \in PRs \ spoilt' PROVE Turns(p)'
  BY TurnsStay DEF PushInv, Elapse, Active, Count
<1> QED BY <1>1 DEF PushInv, Elapse, HooksOK, DictsOK, QueueOK, HeadsOK, Waits, Queued

LEMMA PushStays == ASSUME PushInv, UNCHANGED pushVars PROVE PushInv'
<1>1. ASSUME NEW p \in PRs \ spoilt' PROVE Turns(p)'
  BY TurnsStay DEF PushInv, pushVars, Active, Count
<1> QED BY <1>1 DEF PushInv, pushVars, HooksOK, DictsOK, QueueOK, HeadsOK, Waits, Queued

LEMMA PushInvHolds == PushSpec => []PushInv
<1>1. PushInv /\ [PushNext]_pushVars => PushInv'
  <2> SUFFICES ASSUME PushInv, [PushNext]_pushVars PROVE PushInv'
    OBVIOUS
  <2>1. ASSUME NEW t \in PushTasks, NEW pr \in PRs, NEW e \in Events,
               \/ Disregard(t, pr, e) \/ Direct(t, pr, e)
               \/ DropPush(t, pr, e) \/ CountPush(t, pr, e) \/ CountRaises(t, pr, e)
        PROVE  PushInv'
    BY <2>1, DisregardKeeps, CountPushKeeps, CountRaisesKeeps
  <2>2. ASSUME NEW t \in PushTasks, PushStep(t) PROVE PushInv'
    BY <2>2, StartReviewKeeps, FinishReviewKeeps DEF PushStep
  <2>3. CASE Elapse
    BY <2>3, ElapseKeeps
  <2>4. CASE UNCHANGED pushVars
    BY <2>4, PushStays
  <2> QED BY <2>1, <2>2, <2>3, <2>4 DEF PushNext, Receive
<1> QED BY <1>1, PushInitially, PTL DEF PushSpec

\* Types: a task waits if and only if it is queued, once, on some condition, and no run
\* has read more of a pull request than was pushed (github_app.py:174-206).
THEOREM PushTypesHold == PushSpec => []PushTypeOK
<1>1. PushInv => PushTypeOK
  BY DEF PushInv, PushTypeOK, HooksOK, HookRecords, HookPCs, QueueOK, HeadsOK, DictsOK, Waits, Queued
<1> QED BY <1>1, PushInvHolds, PTL

\* At most one push of a pull request is run and at most one waits for it, and the counter
\* tells which, as long as no entry of it expired in use (github_app.py:174-206).
THEOREM TakingTurns == PushSpec => []PushesTakeTurns
<1>1. PushInv => PushesTakeTurns
  <2> SUFFICES ASSUME PushInv, NEW p \in PRs \ spoilt
               PROVE  /\ Count(p) = Cardinality(Active(p))
                      /\ Cardinality({t \in Active(p) : hooks[t].pc # "waiting"}) <= 1
                      /\ (\E t \in Active(p) : hooks[t].pc = "waiting")
                         => \E t \in Active(p) : hooks[t].pc # "waiting"
    BY DEF PushesTakeTurns, CounterIsExact, OneReviewPerPR, WaiterHasWaker
  <2> DEFINE Awake == {t \in Active(p) : hooks[t].pc # "waiting"}
  <2>1. CASE Nobody(p)
    <3>1. Active(p) = {} /\ Awake = {} /\ Count(p) = 0
      BY <2>1 DEF Nobody
    <3> QED BY <3>1, FS_EmptySet
  <2>2. CASE OneRuns(p)
    <3>1. PICK t \in PushTasks : Active(p) = {t} /\ Awake = {t} /\ Count(p) = 1
      BY <2>2 DEF OneRuns, Waits
    <3>2. Cardinality({t}) = 1
      BY FS_Singleton
    <3> QED BY <3>1, <3>2
  <2>3. CASE OneWaits(p)
    <3>1. PICK t, u \in PushTasks : /\ t # u /\ Active(p) = {t} \cup {u} /\ Awake = {t} /\ Count(p) = 2
                                   /\ ~Waits(t)
      BY <2>3 DEF OneWaits, Waits
    <3>2. Cardinality({t}) = 1 /\ IsFiniteSet({t})
      BY FS_Singleton
    <3>3. u \notin {t} /\ t \in Active(p)
      BY <3>1
    <3>4. Cardinality({t} \cup {u}) = 2
      BY <3>2, <3>3, FS_AddElement
    <3>5. Count(p) = Cardinality(Active(p)) /\ Cardinality(Awake) <= 1
      <4> HIDE DEF Awake
      <4>1. Cardinality(Awake) = 1
        BY <3>1, <3>2
      <4>2. Cardinality(Active(p)) = 2
        BY <3>1, <3>4
      <4> QED BY <3>1, <4>1, <4>2
    <3> QED BY <3>1, <3>3, <3>5 DEF Waits
  <2> QED BY <2>1, <2>2, <2>3 DEF PushInv, Turns
<1> QED BY <1>1, PushInvHolds, PTL

-----------------------------------------------------------------------------
(* The polling loop. *)

Kinds == {"mention", "plain", "bot"}
PollFields == {"pc", "batch", "at", "queue"}

DiscussionOK == discussion \in [Threads -> Seq(Kinds)]
UnreadOK == unread \subseteq Threads /\ \A th \in unread : Len(discussion[th]) > 0
PollerOK ==
    /\ poller = [f \in PollFields |-> poller[f]]
    /\ poller.pc \in {"sleep", "mark", "validate"}
    /\ poller.batch \subseteq Written
    /\ poller.queue \in Seq(Mentions)
    /\ poller.pc = "validate" => poller.at \in Written
SeenOK == handledIds \subseteq Written /\ IsFiniteSet(handledIds)
StartsOK ==
    /\ starts \in [CommentIds -> Nat]
    /\ \A c \in CommentIds : starts[c] > 0 => c \in Mentions
    /\ excused \subseteq Mentions

\* What a comment's processes, started or queued, are owed to: that it was itself seen as
\* the latest one, or another one that mentions nobody was.
Causes(c) == {d \in handledIds : d[1] = c[1] /\ (KindOf(d) # "mention" \/ d = c)}
Places(q, c) == {k \in DOMAIN q : q[k] = c}
CausesOK == \A c \in CommentIds : starts[c] + Cardinality(Places(poller.queue, c)) <= Cardinality(Causes(c))

PollInv == DiscussionOK /\ UnreadOK /\ PollerOK /\ SeenOK /\ StartsOK /\ CausesOK

LEMMA WrittenIs ==
    ASSUME DiscussionOK, NEW c
    PROVE  c \in Written <=> \E th \in Threads : \E n \in 1..Len(discussion[th]) : c = <<th, n>>
BY DEF DiscussionOK, Written

LEMMA PollInitially == PollInit => PollInv
<1> SUFFICES ASSUME PollInit PROVE PollInv
  OBVIOUS
<1>1. DiscussionOK /\ UnreadOK /\ SeenOK
  BY FS_EmptySet DEF PollInit, DiscussionOK, UnreadOK, SeenOK
<1>2. PollerOK
  BY DEF PollInit, Resting, PollerOK, PollFields
<1>3. StartsOK
  BY DEF PollInit, StartsOK
<1>4. CausesOK
  <2> SUFFICES ASSUME NEW c \in CommentIds
               PROVE  starts[c] + Cardinality(Places(poller.queue, c)) <= Cardinality(Causes(c))
    BY DEF CausesOK
  <2>1. Places(poller.queue, c) = {} /\ Causes(c) = {} /\ starts[c] = 0
    BY DEF PollInit, Resting, Places, Causes
  <2> QED BY <2>1, FS_EmptySet
<1> QED BY <1>1, <1>2, <1>3, <1>4 DEF PollInv

LEMMA PlacesAreFinite ==
    ASSUME NEW S, NEW q \in Seq(S), NEW c
    PROVE  IsFiniteSet(Places(q, c)) /\ Cardinality(Places(q, c)) \in Nat
<1> PICK n \in Nat : n = Len(q)
  OBVIOUS
<1>1. IsFiniteSet(1..n)
  BY FS_Interval
<1>2. Places(q, c) \subseteq 1..n
  BY DEF Places
<1> QED BY <1>1, <1>2, FS_Subset, FS_CardinalityType

LEMMA OneMore ==
    ASSUME NEW S, NEW x, IsFiniteSet(S), x \notin S
    PROVE  IsFiniteSet(S \cup {x}) /\ Cardinality(S \cup {x}) = Cardinality(S) + 1
BY FS_AddElement

LEMMA AtMostOneMore ==
    ASSUME NEW S, NEW x, IsFiniteSet(S)
    PROVE  IsFiniteSet(S \cup {x}) /\ Cardinality(S \cup {x}) <= Cardinality(S) + 1
<1> PICK n \in Nat : n = Cardinality(S)
  BY FS_CardinalityType
<1>1. IsFiniteSet(S \cup {x}) /\ Cardinality(S \cup {x}) = IF x \in S THEN n ELSE n + 1
  BY FS_AddElement
<1>2. n <= n + 1
  OBVIOUS
<1> QED BY <1>1, <1>2

LEMMA PlacesGrow ==
    ASSUME NEW S, NEW q \in Seq(S), NEW d \in S, NEW c
    PROVE  Cardinality(Places(Append(q, d), c)) = Cardinality(Places(q, c)) + IF c = d THEN 1 ELSE 0
<1> PICK n \in Nat : n = Len(q) + 1
  OBVIOUS
<1>1. /\ DOMAIN Append(q, d) = DOMAIN q \cup {n} /\ n \notin DOMAIN q
      /\ Append(q, d)[n] = d /\ \A k \in DOMAIN q : Append(q, d)[k] = q[k]
  OBVIOUS
<1>2. IsFiniteSet(Places(q, c)) /\ Cardinality(Places(q, c)) \in Nat
  BY PlacesAreFinite
<1>3. CASE c = d
  <2>1. Places(Append(q, d), c) = Places(q, c) \cup {n} /\ n \notin Places(q, c)
    BY <1>1, <1>3 DEF Places
  <2>2. Cardinality(Places(q, c) \cup {n}) = Cardinality(Places(q, c)) + 1
    BY <1>2, <2>1, OneMore
  <2> QED BY <1>3, <2>1, <2>2
<1>4. CASE c # d
  <2>1. Places(Append(q, d), c) = Places(q, c)
    BY <1>1, <1>4 DEF Places
  <2> QED BY <1>2, <1>4, <2>1
<1> QED BY <1>3, <1>4

\* A comment is added; the others stay what they are.
LEMMA CommentKeeps == ASSUME PollInv, NEW th \in Threads, Comment(th) PROVE PollInv'
<1>1. /\ DiscussionOK /\ UnreadOK /\ PollerOK /\ SeenOK /\ StartsOK /\ CausesOK
      /\ UNCHANGED <<poller, handledIds, starts, excused>>
  BY DEF PollInv, Comment
<1>2. PICK kind \in Kinds : /\ discussion' = [discussion EXCEPT ![th] = Append(@, kind)]
                            /\ unread' = unread \/ unread' = unread \cup {th}
  BY DEF Comment, Kinds
<1>3. DiscussionOK' /\ \A t \in Threads : Len(discussion'[t]) = Len(discussion[t]) + IF t = th THEN 1 ELSE 0
  BY <1>1, <1>2 DEF DiscussionOK
<1>4. ASSUME NEW c \in Written PROVE c \in Written' /\ KindOf(c)' = KindOf(c)
  <2>1. PICK t \in Threads : \E n \in 1..Len(discussion[t]) : c = <<t, n>>
    BY <1>1, WrittenIs
  <2> PICK n \in 1..Len(discussion[t]) : c = <<t, n>>
    BY <2>1
  <2>2. n \in 1..Len(discussion'[t]) /\ discussion'[t][n] = discussion[t][n]
    BY <1>1, <1>2, <2>1 DEF DiscussionOK
  <2>3. c \in Written'
    BY <1>3, <2>1, <2>2 DEF Written, DiscussionOK
  <2> QED BY <2>1, <2>2, <2>3 DEF KindOf
<1>5. Written \subseteq Written' /\ Mentions \subseteq Mentions'
  BY <1>4 DEF Mentions
<1>6. UnreadOK'
  BY <1>1, <1>2, <1>3 DEF UnreadOK, DiscussionOK
<1>7. PollerOK' /\ SeenOK' /\ StartsOK'
  BY <1>1, <1>5 DEF PollerOK, SeenOK, StartsOK
<1>8. CausesOK'
  <2>1. \A c : Causes(c)' = Causes(c)
    BY <1>1, <1>4 DEF Causes, SeenOK
  <2> QED BY <1>1, <2>1 DEF CausesOK, Places
<1> QED BY <1>3, <1>6, <1>7, <1>8 DEF PollInv

\* A set of naturals with a bound has a greatest element.
LEMMA GreatestElement ==
    ASSUME NEW b \in Nat, NEW T \in SUBSET (1..b), T # {}
    PROVE  \E n \in T : \A m \in T : m <= n
<1> DEFINE Gaps == {b - n : n \in T}
<1>1. Gaps \in SUBSET Nat /\ Gaps # {}
  <2>1. \A n \in T : b - n \in Nat
    OBVIOUS
  <2> QED BY <2>1
<1>2. PICK g \in Gaps : \A h \in Gaps : g <= h
  <2> HIDE DEF Gaps
  <2> QED BY <1>1, LeastElement
<1>3. PICK n \in T : g = b - n
  BY <1>2
<1>4. ASSUME NEW m \in T PROVE m <= n
  <2>1. b - m \in Gaps /\ m \in Nat /\ n \in Nat
    OBVIOUS
  <2>2. b - n <= b - m
    BY <1>2, <1>3, <2>1
  <2> QED BY <2>1, <2>2
<1> QED BY <1>4

\* More ids seen, and nothing more queued or started.
LEMMA CausesStay ==
    ASSUME PollInv, UNCHANGED <<discussion, starts>>, handledIds \subseteq handledIds', IsFiniteSet(handledIds'),
           poller'.queue = poller.queue \/ poller'.queue = <<>>
    PROVE  CausesOK'
<1> SUFFICES ASSUME NEW c \in CommentIds
             PROVE  starts[c] + Cardinality(Places(poller'.queue, c)) <= Cardinality(Causes(c)')
  BY DEF CausesOK
<1> PICK before, after : before = Causes(c) /\ after = Causes(c)'
  OBVIOUS
<1>1. before \subseteq after /\ after \subseteq handledIds'
  BY DEF Causes, KindOf
<1>2. IsFiniteSet(after) /\ IsFiniteSet(before)
  BY <1>1, FS_Subset
<1>3. Cardinality(before) <= Cardinality(after) /\ Cardinality(after) \in Nat /\ Cardinality(before) \in Nat
  BY <1>1, <1>2, FS_Subset, FS_CardinalityType
<1>4. starts[c] \in Nat /\ starts[c] + Cardinality(Places(poller.queue, c)) <= Cardinality(before)
  BY DEF PollInv, StartsOK, CausesOK
<1>5. Cardinality(Places(poller.queue, c)) \in Nat
  BY PlacesAreFinite DEF PollInv, PollerOK
<1>6. CASE poller'.queue = poller.queue
  BY <1>3, <1>4, <1>5, <1>6
<1>7. CASE poller'.queue = <<>>
  <2>1. Places(poller'.queue, c) = {}
    BY <1>7 DEF Places
  <2> QED BY <1>3, <1>4, <1>5, <2>1, FS_EmptySet
<1> QED BY <1>6, <1>7

LEMMA FetchKeeps == ASSUME PollInv, Fetch PROVE PollInv'
<1>1. /\ DiscussionOK /\ UnreadOK /\ SeenOK /\ StartsOK
      /\ UNCHANGED <<discussion, unread, handledIds, starts, excused>>
  BY DEF PollInv, Fetch
<1> PICK batch : batch = {Latest(th) : th \in unread}
  OBVIOUS
<1>2. \A c \in batch : c \in Written
  <2> SUFFICES ASSUME NEW th \in unread PROVE <<th, Len(discussion[th])>> \in Written
    BY DEF Latest
  <2> PICK n : n = Len(discussion[th])
    OBVIOUS
  <2>1. n \in 1..Len(discussion[th]) /\ th \in Threads
    BY <1>1 DEF UnreadOK, DiscussionOK
  <2> QED BY <1>1, <2>1, WrittenIs
<1>3. \/ poller' = Resting
      \/ poller' = [Resting EXCEPT !.pc = "mark", !.batch = batch]
  BY DEF Fetch
<1>4. /\ poller' = [f \in PollFields |-> poller'[f]] /\ poller'.pc \in {"sleep", "mark"}
      /\ poller'.queue = <<>> /\ poller'.batch \subseteq batch
  <2>1. CASE poller' = Resting
    BY <2>1 DEF Resting, PollFields
  <2>2. CASE poller' = [Resting EXCEPT !.pc = "mark", !.batch = batch]
    <3>1. poller' = [pc |-> "mark", batch |-> batch, at |-> <<>>, queue |-> <<>>]
      BY <2>2 DEF Resting
    <3> QED BY <3>1 DEF PollFields
  <2> QED BY <1>3, <2>1, <2>2
<1>5. PollerOK'
  BY <1>1, <1>2, <1>4 DEF PollerOK, Written, Mentions, KindOf
<1>6. CausesOK'
  BY <1>1, <1>4, CausesStay DEF SeenOK
<1> QED BY <1>1, <1>5, <1>6 DEF PollInv, DiscussionOK, UnreadOK, SeenOK, StartsOK, Written, Mentions, KindOf

\* A step of the loop that queues nothing: it moves on, or drops its batch and queue.
LEMMA LoopMoves ==
    ASSUME PollInv, UNCHANGED <<discussion, starts>>,
           handledIds' \subseteq Written, handledIds \subseteq handledIds', IsFiniteSet(handledIds'),
           unread' \subseteq unread, excused' \subseteq Mentions,
           poller' = [f \in PollFields |-> poller'[f]], poller'.pc \in {"sleep", "mark", "validate"},
           poller'.batch \subseteq poller.batch, poller'.queue = poller.queue \/ poller'.queue = <<>>,
           poller'.pc = "validate" => poller'.at \in poller.batch
    PROVE  PollInv'
<1>1. Written' = Written /\ Mentions' = Mentions
  BY DEF Written, Mentions, KindOf
<1>2. PollerOK'
  <2>1. poller.batch \subseteq Written /\ poller.queue \in Seq(Mentions)
    BY DEF PollInv, PollerOK
  <2>2. poller'.queue \in Seq(Mentions')
    <3>1. CASE poller'.queue = poller.queue
      BY <1>1, <2>1, <3>1
    <3>2. CASE poller'.queue = <<>>
      BY <3>2
    <3> QED BY <3>1, <3>2
  <2>3. poller'.batch \subseteq Written' /\ (poller'.pc = "validate" => poller'.at \in Written')
    BY <1>1, <2>1
  <2> QED BY <2>2, <2>3 DEF PollerOK
<1>3. DiscussionOK' /\ UnreadOK' /\ SeenOK' /\ StartsOK'
  BY <1>1 DEF PollInv, DiscussionOK, UnreadOK, SeenOK, StartsOK
<1>4. CausesOK'
  BY CausesStay
<1> QED BY <1>2, <1>3, <1>4 DEF PollInv

LEMMA MarkReadKeeps == ASSUME PollInv, NEW c \in poller.batch, MarkRead(c) PROVE PollInv'
<1> PICK batch : batch = poller.batch \ {c}
  OBVIOUS
<1>1. poller' = [poller EXCEPT !.pc = "validate", !.batch = batch, !.at = c]
  BY DEF MarkRead
<1>2. /\ poller' = [f \in PollFields |-> poller'[f]] /\ poller'.pc = "validate" /\ poller'.batch = batch
      /\ poller'.at = c /\ poller'.queue = poller.queue
  BY <1>1 DEF PollInv, PollerOK, PollFields
<1>3. unread' \subseteq unread /\ excused' \subseteq Mentions /\ UNCHANGED <<discussion, starts, handledIds>>
  BY DEF PollInv, StartsOK, MarkRead, Newer
<1> QED BY <1>2, <1>3, LoopMoves DEF PollInv, SeenOK

LEMMA BatchFailsKeeps == ASSUME PollInv, NEW c \in poller.batch, BatchFails(c) PROVE PollInv'
<1>1. /\ poller' = [f \in PollFields |-> poller'[f]] /\ poller'.pc = "sleep" /\ poller'.batch = {}
      /\ poller'.queue = <<>>
  BY DEF BatchFails, Resting, PollFields
<1>2. excused' \subseteq Mentions
  <2>1. \A th : Mentioned(th) \subseteq Mentions
    BY DEF Mentioned
  <2>2. /\ (UNION {Mentioned(d[1]) : d \in poller.batch}) \subseteq Mentions
        /\ (UNION {Mentioned(poller.queue[k][1]) : k \in DOMAIN poller.queue}) \subseteq Mentions
    BY <2>1
  <2> QED BY <2>2 DEF PollInv, StartsOK, BatchFails
<1> QED BY <1>1, <1>2, LoopMoves DEF PollInv, SeenOK, BatchFails

LEMMA ValidateFailsKeeps == ASSUME PollInv, ValidateFails PROVE PollInv'
<1>1. /\ poller' = [f \in PollFields |-> poller'[f]] /\ poller'.pc = "mark" /\ poller'.batch = poller.batch
      /\ poller'.queue = poller.queue
  BY DEF ValidateFails, Skip, PollInv, PollerOK, PollFields
<1>2. excused' \subseteq Mentions
  BY DEF PollInv, StartsOK, ValidateFails, Mentioned
<1>3. /\ handledIds' \subseteq Written /\ handledIds \subseteq handledIds' /\ IsFiniteSet(handledIds')
  BY FS_AddElement DEF PollInv, SeenOK, PollerOK, ValidateFails
<1> QED BY <1>1, <1>2, <1>3, LoopMoves DEF ValidateFails

\* A comment that was not seen before is owed one process, its own or that of a mention
\* before it.
LEMMA QueuedKeeps ==
    ASSUME PollInv, UNCHANGED <<discussion, starts, unread, excused>>,
           NEW c \in Written, c \notin handledIds, handledIds' = handledIds \cup {c},
           NEW d \in Mentions, d[1] = c[1], KindOf(c) # "mention" \/ c = d,
           poller' = [f \in PollFields |-> poller'[f]], poller'.pc = "mark",
           poller'.batch = poller.batch, poller'.queue = Append(poller.queue, d)
    PROVE  PollInv'
<1>1. Written' = Written /\ Mentions' = Mentions
  BY DEF Written, Mentions, KindOf
<1>2. DiscussionOK' /\ UnreadOK' /\ StartsOK'
  BY <1>1 DEF PollInv, DiscussionOK, UnreadOK, StartsOK
<1>3. SeenOK'
  BY <1>1, OneMore DEF PollInv, SeenOK
<1>4. poller.queue \in Seq(Mentions) /\ poller.batch \subseteq Written
  BY DEF PollInv, PollerOK
<1>5. PollerOK'
  <2>1. Append(poller.queue, d) \in Seq(Mentions)
    BY <1>4
  <2> QED BY <1>1, <1>4, <2>1 DEF PollerOK
<1>6. ASSUME NEW x \in CommentIds
      PROVE  starts[x] + Cardinality(Places(poller'.queue, x)) <= Cardinality(Causes(x)')
  <2> PICK before, after, places : before = Causes(x) /\ after = Causes(x)' /\ places = Cardinality(Places(poller.queue, x))
    OBVIOUS
  <2>1. before \subseteq handledIds /\ after \subseteq handledIds' /\ before \subseteq after
    BY DEF Causes, KindOf
  <2>2. IsFiniteSet(before) /\ IsFiniteSet(after)
    BY <1>3, <2>1, FS_Subset DEF PollInv, SeenOK
  <2>3. Cardinality(before) \in Nat /\ Cardinality(after) \in Nat /\ Cardinality(before) <= Cardinality(after)
    BY <2>1, <2>2, FS_Subset, FS_CardinalityType
  <2>4. /\ starts[x] \in Nat /\ places \in Nat /\ starts[x] + places <= Cardinality(before)
        /\ Cardinality(Places(poller'.queue, x)) = places + IF x = d THEN 1 ELSE 0
    BY <1>4, PlacesAreFinite, PlacesGrow DEF PollInv, StartsOK, CausesOK
  <2>5. CASE x = d
    <3>1. c \in after /\ c \notin before
      BY <2>1, <2>5 DEF Causes, KindOf
    <3>2. before \cup {c} \subseteq after
      BY <2>1, <3>1
    <3>3. Cardinality(before \cup {c}) = Cardinality(before) + 1
      BY <2>2, <3>1, OneMore
    <3>4. Cardinality(before \cup {c}) <= Cardinality(after)
      BY <2>2, <3>2, FS_Subset
    <3> QED BY <2>3, <2>4, <2>5, <3>3, <3>4
  <2>6. CASE x # d
    BY <2>3, <2>4, <2>6
  <2> QED BY <2>5, <2>6
<1> QED BY <1>2, <1>3, <1>5, <1>6 DEF PollInv, CausesOK

LEMMA NewestIs ==
    ASSUME DiscussionOK, NEW th \in Threads, Previous(th) # {}
    PROVE  <<th, Newest(Previous(th))>> \in Mentions
<1> PICK b \in Nat : b = Len(discussion[th]) /\ DOMAIN discussion[th] = 1..b
  BY DEF DiscussionOK
<1>1. Previous(th) \in SUBSET (1..b)
  BY DEF Previous
<1>2. \E n \in Previous(th) : \A m \in Previous(th) : m <= n
  BY <1>1, GreatestElement
<1> PICK n : n = Newest(Previous(th))
  OBVIOUS
<1>3. n \in Previous(th)
  BY <1>2 DEF Newest
<1>4. n \in 1..Len(discussion[th]) /\ discussion[th][n] = "mention"
  BY <1>1, <1>3 DEF Previous
<1>5. <<th, n>> \in Written
  BY <1>4, WrittenIs
<1> QED BY <1>4, <1>5 DEF Mentions, KindOf

LEMMA ValidateKeeps == ASSUME PollInv, Validate PROVE PollInv'
<1> PICK c : c = poller.at
  OBVIOUS
<1> PICK th : th = c[1]
  OBVIOUS
<1>1. /\ poller.pc = "validate"
      /\ IF Mentioned(th) = {} THEN Skip /\ UNCHANGED handledIds
         ELSE IF c \in handledIds THEN Skip /\ UNCHANGED handledIds
         ELSE /\ handledIds' = handledIds \cup {c}
              /\ IF KindOf(c) = "mention" THEN Queue(c)
                 ELSE IF Previous(th) # {} THEN Queue(<<th, Newest(Previous(th))>>) ELSE Skip
      /\ UNCHANGED <<discussion, unread, modified, starts, excused>>
  BY DEF Validate, Seen
<1>2. c \in Written /\ handledIds \subseteq Written /\ IsFiniteSet(handledIds) /\ excused \subseteq Mentions
  BY <1>1 DEF PollInv, PollerOK, SeenOK, StartsOK
<1>3. th \in Threads
  BY <1>2, WrittenIs DEF PollInv
<1>4. CASE Skip
  <2>1. /\ poller' = [f \in PollFields |-> poller'[f]] /\ poller'.pc = "mark" /\ poller'.batch = poller.batch
        /\ poller'.queue = poller.queue
    BY <1>4 DEF Skip, PollInv, PollerOK, PollFields
  <2>2. /\ handledIds' \subseteq Written /\ handledIds \subseteq handledIds' /\ IsFiniteSet(handledIds')
    BY <1>1, <1>2, FS_AddElement
  <2> QED BY <1>1, <1>2, <2>1, <2>2, LoopMoves
<1>5. ASSUME NEW d, Queue(d)
      PROVE  /\ poller' = [f \in PollFields |-> poller'[f]] /\ poller'.pc = "mark"
             /\ poller'.batch = poller.batch /\ poller'.queue = Append(poller.queue, d)
  <2> PICK queue : queue = Append(poller.queue, d)
    OBVIOUS
  <2>1. poller' = [poller EXCEPT !.pc = "mark", !.at = <<>>, !.queue = queue]
    BY <1>5 DEF Queue
  <2> QED BY <2>1 DEF PollInv, PollerOK, PollFields
<1>6. CASE KindOf(c) = "mention" /\ c \notin handledIds /\ handledIds' = handledIds \cup {c} /\ Queue(c)
  <2>1. c \in Mentions
    BY <1>2, <1>6 DEF Mentions
  <2> QED BY <1>1, <1>2, <1>5, <1>6, <2>1, QueuedKeeps
<1>7. CASE /\ KindOf(c) # "mention" /\ c \notin handledIds /\ handledIds' = handledIds \cup {c}
           /\ Previous(th) # {} /\ Queue(<<th, Newest(Previous(th))>>)
  <2> PICK d : d = <<th, Newest(Previous(th))>>
    OBVIOUS
  <2>1. d \in Mentions /\ d[1] = c[1] /\ Queue(d)
    BY <1>3, <1>7, NewestIs DEF PollInv
  <2> QED BY <1>1, <1>2, <1>5, <1>7, <2>1, QueuedKeeps
<1> QED BY <1>1, <1>4, <1>6, <1>7

LEMMA StartProcessesKeeps == ASSUME PollInv, StartProcesses PROVE PollInv'
<1> PICK started : started = {k \in DOMAIN poller.queue : Started(k)}
  OBVIOUS
<1> DEFINE Ran(c) == {k \in started : poller.queue[k] = c}
<1>1. /\ poller' = Resting
      /\ starts' = [c \in CommentIds |-> starts[c] + Cardinality(Ran(c))]
      /\ excused' = excused \cup {poller.queue[k] : k \in DOMAIN poller.queue \ started}
      /\ UNCHANGED <<discussion, unread, handledIds>>
  BY DEF StartProcesses
<1>2. /\ poller.queue \in Seq(Mentions) /\ starts \in [CommentIds -> Nat] /\ excused \subseteq Mentions
      /\ \A c \in CommentIds : starts[c] > 0 => c \in Mentions
  BY DEF PollInv, PollerOK, StartsOK
<1>3. Written' = Written /\ Mentions' = Mentions
  BY <1>1 DEF Written, Mentions, KindOf
<1>4. \A k \in DOMAIN poller.queue : poller.queue[k] \in Mentions
  BY <1>2
<1>5. ASSUME NEW c \in CommentIds
      PROVE  /\ Cardinality(Ran(c)) \in Nat /\ Cardinality(Ran(c)) <= Cardinality(Places(poller.queue, c))
             /\ Cardinality(Places(poller.queue, c)) \in Nat
             /\ starts'[c] = starts[c] + Cardinality(Ran(c))
             /\ Cardinality(Ran(c)) > 0 => c \in Mentions
  <2> PICK ran : ran = Ran(c)
    OBVIOUS
  <2>1. IsFiniteSet(Places(poller.queue, c)) /\ Cardinality(Places(poller.queue, c)) \in Nat
    BY <1>2, PlacesAreFinite
  <2>2. ran \subseteq Places(poller.queue, c)
    BY DEF Places
  <2>3. IsFiniteSet(ran) /\ Cardinality(ran) <= Cardinality(Places(poller.queue, c))
    BY <2>1, <2>2, FS_Subset
  <2>4. Cardinality(ran) \in Nat
    BY <2>3, FS_CardinalityType
  <2>5. Cardinality(ran) > 0 => ran # {}
    BY FS_EmptySet
  <2>6. ran # {} => c \in Mentions
    BY <1>4
  <2> QED BY <1>1, <2>1, <2>3, <2>4, <2>5, <2>6
<1> HIDE DEF Ran
<1>6. StartsOK'
  <2>1. starts' \in [CommentIds -> Nat]
    BY <1>1, <1>2, <1>5
  <2>2. ASSUME NEW c \in CommentIds, starts'[c] > 0 PROVE c \in Mentions
    BY <1>2, <1>5, <2>2
  <2>3. excused' \subseteq Mentions
    BY <1>1, <1>2, <1>4
  <2> QED BY <1>3, <2>1, <2>2, <2>3 DEF StartsOK
<1>7. /\ poller' = [f \in PollFields |-> poller'[f]] /\ poller'.pc = "sleep" /\ poller'.batch = {}
      /\ poller'.queue = <<>>
  BY <1>1 DEF Resting, PollFields
<1>8. PollerOK'
  BY <1>7 DEF PollerOK
<1>9. ASSUME NEW c \in CommentIds
      PROVE  starts'[c] + Cardinality(Places(poller'.queue, c)) <= Cardinality(Causes(c)')
  <2>1. Places(poller'.queue, c) = {} /\ Causes(c)' = Causes(c)
    BY <1>1, <1>7 DEF Places, Causes, KindOf
  <2>2. starts[c] + Cardinality(Places(poller.queue, c)) <= Cardinality(Causes(c)) /\ starts[c] \in Nat
    BY <1>2 DEF PollInv, CausesOK
  <2>3. IsFiniteSet(Causes(c))
    BY FS_Subset DEF Causes, PollInv, SeenOK
  <2>4. Cardinality(Causes(c)) \in Nat
    BY <2>3, FS_CardinalityType
  <2> QED BY <1>5, <2>1, <2>2, <2>4, FS_EmptySet
<1>10. DiscussionOK' /\ UnreadOK' /\ SeenOK'
  BY <1>1, <1>3 DEF PollInv, DiscussionOK, UnreadOK, SeenOK
<1> QED BY <1>6, <1>8, <1>9, <1>10 DEF PollInv, CausesOK

LEMMA PollStays == ASSUME PollInv, UNCHANGED pollVars PROVE PollInv'
<1>1. Written' = Written /\ Mentions' = Mentions
  BY DEF pollVars, Written, Mentions, KindOf
<1>2. CausesOK'
  BY CausesStay DEF PollInv, SeenOK, pollVars
<1>3. DiscussionOK' /\ UnreadOK' /\ PollerOK' /\ SeenOK' /\ StartsOK'
  BY <1>1 DEF PollInv, pollVars, DiscussionOK, UnreadOK, PollerOK, SeenOK, StartsOK
<1> QED BY <1>2, <1>3 DEF PollInv

LEMMA PollInvHolds == PollSpec => []PollInv
<1>1. PollInv /\ [PollNext]_pollVars => PollInv'
  <2> SUFFICES ASSUME PollInv, [PollNext]_pollVars PROVE PollInv'
    OBVIOUS
  <2>1. ASSUME NEW th \in Threads, Comment(th) PROVE PollInv'
    BY <2>1, CommentKeeps
  <2>2. ASSUME NEW c \in poller.batch, MarkRead(c) \/ BatchFails(c) PROVE PollInv'
    BY <2>2, MarkReadKeeps, BatchFailsKeeps
  <2>3. CASE Fetch \/ StartProcesses \/ Validate \/ ValidateFails
    BY <2>3, FetchKeeps, StartProcessesKeeps, ValidateKeeps, ValidateFailsKeeps
  <2>4. CASE UNCHANGED pollVars
    BY <2>4, PollStays
  <2> QED BY <2>1, <2>2, <2>3, <2>4 DEF PollNext, PollStep
<1> QED BY <1>1, PollInitially, PTL DEF PollSpec

\* Types: only mentions are queued, excused or run, and only written comments are seen
\* (github_polling.py:169-233).
THEOREM PollTypesHold == PollSpec => []PollTypeOK
<1>1. PollInv => PollTypeOK
  BY DEF PollInv, PollTypeOK, UnreadOK, PollerOK, SeenOK, StartsOK
<1> QED BY <1>1, PollInvHolds, PTL

\* A command is run as often as its comment, or one that mentions nobody, was seen as the
\* latest of its thread, and no more often, however often GitHub delivers the notification
\* (github_polling.py:92-134).
THEOREM RepeatsAreCaused == PollSpec => []RepeatsHaveCause
<1>1. PollInv => RepeatsHaveCause
  <2> SUFFICES ASSUME PollInv, NEW c \in CommentIds
               PROVE  starts[c] <= 1 + Cardinality({d \in handledIds : d[1] = c[1] /\ KindOf(d) # "mention"})
    BY DEF RepeatsHaveCause
  <2> PICK others : others = {d \in handledIds : d[1] = c[1] /\ KindOf(d) # "mention"}
    OBVIOUS
  <2>1. Causes(c) \subseteq others \cup {c} /\ others \subseteq handledIds /\ IsFiniteSet(handledIds)
    BY DEF Causes, PollInv, SeenOK
  <2>2. IsFiniteSet(others) /\ Cardinality(others) \in Nat
    BY <2>1, FS_Subset, FS_CardinalityType
  <2>3. IsFiniteSet(others \cup {c}) /\ Cardinality(others \cup {c}) <= Cardinality(others) + 1
    BY <2>2, AtMostOneMore
  <2>4. Cardinality(Causes(c)) <= Cardinality(others \cup {c})
    BY <2>1, <2>3, FS_Subset
  <2>5. IsFiniteSet(Causes(c))
    BY <2>1, <2>3, FS_Subset
  <2>6. Cardinality(Causes(c)) \in Nat /\ Cardinality(others \cup {c}) \in Nat
    BY <2>3, <2>5, FS_CardinalityType
  <2>7. Cardinality(Places(poller.queue, c)) \in Nat
    BY PlacesAreFinite DEF PollInv, PollerOK
  <2>8. starts[c] \in Nat /\ starts[c] + Cardinality(Places(poller.queue, c)) <= Cardinality(Causes(c))
    BY DEF PollInv, StartsOK, CausesOK
  <2> QED BY <2>2, <2>3, <2>4, <2>6, <2>7, <2>8
<1> QED BY <1>1, PollInvHolds, PTL
==============================================================================
