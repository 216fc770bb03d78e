------------------------------- MODULE MCAnswers -------------------------------
EXTENDS Answers, TLC

CONSTANTS q1, q2, alike, cs, me, d1, d2, c1, c2, r1, r2, r3, u1, u2, f1, f2

MCClass == q1 :> alike @@ q2 :> alike
MCHome  == d1 :> cs @@ d2 :> me
MCNear == cs :> {cs} @@ me :> {cs, me} @@ All :> Scopes
MCUri    == d1 :> u1 @@ d2 :> u2
MCFolder == d1 :> {f1} @@ d2 :> {f2}
A(q, s, stream) == [question |-> q, scope |-> s, stream |-> stream, chat |-> c1]
MCAsked == {A(q1, cs, TRUE), A(q2, cs, FALSE), A(q2, me, TRUE)}

(* What may still happen in a behaviour: each counter starts that far from *)
(* its bound; records are tasks that have been spawned already.            *)
Budgets == {[asks |-> 2, clears |-> 0, faults |-> 0, records |-> 0, edits |-> 0, cycles |-> 0, visits |-> 0],
            [asks |-> 1, clears |-> 1, faults |-> 1, records |-> 0, edits |-> 0, cycles |-> 0, visits |-> 0],
            [asks |-> 0, clears |-> 0, faults |-> 0, records |-> 2, edits |-> 2, cycles |-> 0, visits |-> 0],
            [asks |-> 0, clears |-> 0, faults |-> 1, records |-> 1, edits |-> 0, cycles |-> 3, visits |-> 0],
            [asks |-> 0, clears |-> 1, faults |-> 0, records |-> 0, edits |-> 0, cycles |-> 0, visits |-> 2],
            [asks |-> 0, clears |-> 0, faults |-> 1, records |-> 0, edits |-> 0, cycles |-> 0, visits |-> 2]}

MCInit ==
  /\ memory = <<>> /\ vectors = <<>> /\ redis = {} /\ link = "new" /\ flushing = FALSE
  /\ missed = FALSE /\ RuleInit
  /\ sessions = [c \in Chats |-> NoSession] /\ messages = {} /\ writer = 0
  /\ \E b \in Budgets :
       /\ asks = MaxAsks - b.asks /\ clears = MaxClears - b.clears
       /\ faults = MaxFaults - b.faults /\ edits = MaxEdits - b.edits
       /\ cycles = MaxCycles - b.cycles /\ visits = MaxVisits - b.visits
       /\ clock = IF b.visits = 0 THEN MaxClock ELSE 0
       /\ \/ /\ rows = IF b.visits = 0 THEN Documents ELSE {d1}
             /\ folders = {f1} /\ tiers = (u1 :> [of |-> d1, since |-> 0])
          \/ b.visits > 0 /\ rows = {} /\ folders = {} /\ tiers = <<>>
       /\ AnswerInit
       /\ spawned = b.records /\ (b.cycles = 0 => file = {})
       /\ IF b.asks = 0 THEN reachable = FALSE /\ loaded = FALSE
          ELSE reachable \in {TRUE, b.asks = 2} /\ loaded \in BOOLEAN
       /\ \E c \in Chats, low \in BOOLEAN :
            tasks = [t \in 1 .. MaxTasks |->
              IF t > b.records THEN None
              ELSE [kind |-> "record", chat |-> IF t = 1 THEN c1 ELSE c, low |-> low, by |-> 0, at |-> "new",
                    seen |-> NoSession, message |-> 0, marked |-> {}]]

MCSpec == MCInit /\ [][Next]_vars /\ Fairness
=============================================================================
