--------------------------- MODULE RoadmapProofs ---------------------------
(* Proofs about the roadmap service and its pages, for sections of any       *)
(* size, and any number of requests, templates, clicks and faults: sections  *)
(* are earned (RoadmapInv), and a node whose completion was confirmed is     *)
(* shown so (ShowInv).                                                       *)
EXTENDS Roadmap, WellFoundedInduction, TLAPS

-----------------------------------------------------------------------------
(* Types and what holds of a template, a request and an answer, as           *)
(* predicates of the phases built `b` and the sections passed `e`            *)

(* A section is passed when it was earned, or left on a list cut short.     *)
Passed == earned \cup short
Building(q) == q.at \in {"build", "row"}

Status == {"none", "locked", "unlocked", "mastered"}
Position == [template : Nat, phase : Nat \X Nat]
Fields == {"op", "at", "owner", "node", "ur", "phases", "rows", "blind", "spot", "answer"}

IsRequest(q) ==
  /\ DOMAIN q = Fields
  /\ q.ur \in Position /\ q.phases \in Nat /\ q.rows \in [Nodes -> Status]
  /\ q.spot \in Nat \X Nat

Templates(b) ==
  /\ b \in Seq(Seq(Nat)) /\ Len(b) <= Generations
  /\ \A g \in 1..Len(b) : /\ Len(b[g]) <= Len(Size)
                          /\ \A p \in 1..Len(b[g]) : b[g][p] <= Size[p]

Grows(b, c) ==
  /\ Len(b) <= Len(c)
  /\ \A g \in 1..Len(b) : /\ Len(b[g]) <= Len(c[g])
                          /\ \A p \in 1..Len(b[g]) : b[g][p] <= c[g][p]

BuiltIn(b, x) ==
  /\ x[1] \in 1..Len(b) /\ x[2] \in 1..Len(b[x[1]]) /\ x[3] \in 1..b[x[1]][x[2]]

EarnedBefore(e, ph) == \A q \in 1..(ph[2] - 1) : <<ph[1], q>> \in e

AnswerOK(b, a) == \A j \in DOMAIN a.status : BuiltIn(b, <<a.gen, a.phase, j>>)

(* A request that reads the roadmap works on a section that was passed; one *)
(* that builds a template is where the template says; one that settles a    *)
(* node settles one that is there.                                          *)
ReadOK(b, e, q) ==
  LET g == q.ur.template IN
  q.at \in {"progress", "nodes", "unlock"} =>
    /\ g \in 1..Len(b) /\ q.ur.phase[1] = g /\ q.ur.phase[2] \in 1..Len(b[g])
    /\ q.phases <= Len(b[g]) /\ EarnedBefore(e, q.ur.phase)
RowsOK(b, e, q) ==
  LET g == q.ur.template IN
  /\ q.at = "nodes" =>
       /\ \A x \in Nodes : isNodeSettled(q.rows[x]) => BuiltIn(b, x)
       /\ \A p \in 1..(q.phases - 1) : AllMastered(q.rows, g, p, b[g][p]) => <<g, p>> \in e
  /\ q.at \notin {"nodes", "unlock"} => q.rows = NoRows
SpotOK(b, g, at, spot) ==
  LET p == spot[1]  j == spot[2] IN
  /\ g \in 1..Len(b) /\ p \in 1..(Len(Size) + 1)
  /\ j = 0 => Len(b[g]) = p - 1
  /\ j > 0 => p <= Len(Size) /\ j <= Size[p] /\ Len(b[g]) = p /\ b[g][p] <= j
  /\ j > 0 /\ at = "build" => b[g][p] < j
  /\ at = "row" => j > 0 /\ b[g][p] > 0
BuildOK(b, q) ==
  Building(q) => SpotOK(b, q.ur.template, q.at, q.spot)
RequestOK(b, e, q) ==
  /\ IsRequest(q) /\ ReadOK(b, e, q) /\ RowsOK(b, e, q) /\ BuildOK(b, q)
  /\ q.at = "settle" => BuiltIn(b, q.node)
  /\ AnswerOK(b, q.answer)

PositionOK(b, e, u) ==
  /\ u \in Position /\ u.template <= Len(b)
  /\ (Len(b) > 0 => u.template > 0) /\ (Len(b) = 0 => u = NoRoadmap)
  /\ u.phase[1] > 0 => u.phase[1] <= Len(b) /\ u.phase[2] \in 1..Len(b[u.phase[1]])
  /\ EarnedBefore(e, u.phase)

RequestsOK(b, e, rq) ==
  /\ rq = [r \in Slots |-> rq[r]]
  /\ \A r \in Slots : RequestOK(b, e, rq[r])
  /\ \A r, s \in Slots : r # s /\ Building(rq[r]) /\ Building(rq[s]) =>
       rq[r].ur.template # rq[s].ur.template

ProgressOK(b, e, rows) ==
  /\ rows \in [Nodes -> Status]
  /\ \A x \in Nodes : rows[x] # "none" => BuiltIn(b, x)
  /\ EarnedNow(b, rows) \subseteq e

ServiceInv ==
  /\ Templates(built) /\ PositionOK(built, Passed, ur)
  /\ ProgressOK(built, Passed, progress) /\ RequestsOK(built, Passed, req)

DataOK(b, q) == "data" \in DOMAIN q /\ AnswerOK(b, q.data)
RoadmapInv == ServiceInv /\ DataOK(built, query)

-----------------------------------------------------------------------------
(* Nodes, rows and requests *)

LEMMA Sizes == /\ Len(Size) \in Nat \ {0} /\ Phases = 1..Len(Size)
               /\ \A p \in 1..Len(Size) : Size[p] \in Nat \ {0}
  BY RoadmapAssumption DEF Phases

LEMMA NodeIs ==
  /\ \A g, p, n : <<g, p, n>> \in Nodes <=> g \in 1..Generations /\ p \in Phases /\ n \in 1..Size[p]
  /\ \A x \in Nodes : x = <<x[1], x[2], x[3]>>
  <1>1. ASSUME NEW g, NEW p, NEW n
        PROVE  <<g, p, n>> \in Nodes <=> g \in 1..Generations /\ p \in Phases /\ n \in 1..Size[p]
    <2>1. ASSUME <<g, p, n>> \in Nodes
          PROVE  g \in 1..Generations /\ p \in Phases /\ n \in 1..Size[p]
      <3>1. PICK h \in 1..Generations, q \in Phases : \E m \in 1..Size[q] : <<g, p, n>> = <<h, q, m>>
        BY <2>1 DEF Nodes
      <3>2. PICK m \in 1..Size[q] : <<g, p, n>> = <<h, q, m>>
        BY <3>1
      <3>3. g = h /\ p = q /\ n = m
        BY <3>2
      <3> QED BY <3>1, <3>2, <3>3
    <2>2. ASSUME g \in 1..Generations, p \in Phases, n \in 1..Size[p]
          PROVE  <<g, p, n>> \in Nodes
      <3> DEFINE S == {<<g, p, m>> : m \in 1..Size[p]}
                 T == {{<<h, q, m>> : m \in 1..Size[q]} : h \in 1..Generations, q \in Phases}
      <3>1. <<g, p, n>> \in S
        BY <2>2
      <3>2. S \in T
        BY <2>2
      <3>3. Nodes = UNION T
        BY DEF Nodes
      <3> HIDE DEF S, T
      <3> QED BY <3>1, <3>2, <3>3
    <2> QED BY <2>1, <2>2
  <1>2. ASSUME NEW x \in Nodes
        PROVE  x = <<x[1], x[2], x[3]>>
    <2>1. PICK g \in 1..Generations, p \in Phases : \E n \in 1..Size[p] : x = <<g, p, n>>
      BY <1>2 DEF Nodes
    <2> QED BY <2>1
  <1> QED BY <1>1, <1>2

LEMMA BuiltNodes ==
  ASSUME NEW b, Templates(b), NEW g, NEW p, NEW n, BuiltIn(b, <<g, p, n>>)
  PROVE  <<g, p, n>> \in Nodes
  <1>1. g \in 1..Len(b) /\ p \in 1..Len(b[g]) /\ n \in 1..b[g][p]
    BY DEF BuiltIn
  <1>2. Len(b) \in Nat /\ Len(b[g]) \in Nat /\ b[g][p] \in Nat
    BY <1>1, SMTT(30) DEF Templates
  <1>3. Len(b) <= Generations /\ Len(b[g]) <= Len(Size) /\ b[g][p] <= Size[p]
    BY <1>1 DEF Templates
  <1>4. Generations \in Nat /\ Len(Size) \in Nat
    BY Sizes, RoadmapAssumption
  <1>5. g \in 1..Generations /\ p \in 1..Len(Size)
    BY <1>1, <1>2, <1>3, <1>4
  <1>6. n \in 1..Size[p]
    BY <1>1, <1>2, <1>3, <1>5, Sizes
  <1> QED BY <1>5, <1>6, NodeIs, Sizes

LEMMA NoRowsType == NoRows \in [Nodes -> Status] /\ \A x \in Nodes : NoRows[x] = "none"
  BY DEF NoRows, Status

LEMMA NewRequest ==
  ASSUME NEW b, NEW e, NEW op, NEW at, NEW owner, NEW n,
         at \in {"idle", "roadmap", "template", "answered", "settle"},
         at = "settle" => BuiltIn(b, n)
  PROVE  /\ RequestOK(b, e, Request(op, at, owner, n))
         /\ Request(op, at, owner, n).at = at /\ Request(op, at, owner, n).op = op
  <1> DEFINE q == Request(op, at, owner, n)
  <1>1. q = [op |-> op, at |-> at, owner |-> owner, node |-> n,
             ur |-> NoRoadmap, phases |-> 0, rows |-> NoRows, blind |-> FALSE,
             spot |-> <<0, 0>>, answer |-> NoAnswer]
    BY DEF Request
  <1> HIDE DEF q
  <1>2. IsRequest(q)
    BY <1>1, NoRowsType DEF IsRequest, Fields, Position, NoRoadmap, NoPhase
  <1>3. AnswerOK(b, NoAnswer)
    BY DEF AnswerOK, NoAnswer
  <1>4. RequestOK(b, e, q)
    BY <1>1, <1>2, <1>3 DEF RequestOK, ReadOK, RowsOK, BuildOK, Building
  <1> QED BY <1>1, <1>4 DEF q

LEMMA NoRequestOK ==
  ASSUME NEW b, NEW e
  PROVE  RequestOK(b, e, NoRequest) /\ NoRequest.at = "idle"
  BY NewRequest DEF NoRequest

-----------------------------------------------------------------------------
(* Templates only grow, and what was true of one stays true                 *)

LEMMA SizeOf ==
  ASSUME NEW b, Templates(b), NEW g \in 1..Len(b)
  PROVE  /\ Len(b) \in Nat /\ Len(b) <= Generations
         /\ b[g] \in Seq(Nat) /\ Len(b[g]) \in Nat /\ Len(b[g]) <= Len(Size)
         /\ \A p \in 1..Len(b[g]) : b[g][p] \in Nat /\ b[g][p] <= Size[p]
  <1>1. b \in Seq(Seq(Nat)) /\ b[g] \in Seq(Nat)
    BY DEF Templates
  <1> QED BY <1>1 DEF Templates

LEMMA GrowSize ==
  ASSUME NEW b, NEW c, Templates(b), Templates(c), Grows(b, c), NEW g \in 1..Len(b)
  PROVE  /\ g \in 1..Len(c)
         /\ Len(b[g]) \in Nat /\ Len(c[g]) \in Nat /\ Len(b[g]) <= Len(c[g])
         /\ \A p \in 1..Len(b[g]) : /\ p \in 1..Len(c[g]) /\ b[g][p] <= c[g][p]
                                   /\ b[g][p] \in Nat /\ c[g][p] \in Nat
  <1>1. Len(b) \in Nat /\ Len(c) \in Nat /\ Len(b) <= Len(c)
    BY DEF Templates, Grows
  <1>2. g \in 1..Len(c)
    BY <1>1
  <1>3. /\ Len(b[g]) <= Len(c[g])
        /\ \A p \in 1..Len(b[g]) : b[g][p] <= c[g][p]
    BY DEF Grows
  <1>4. /\ Len(b[g]) \in Nat /\ Len(c[g]) \in Nat
        /\ \A p \in 1..Len(b[g]) : b[g][p] \in Nat
        /\ \A p \in 1..Len(c[g]) : c[g][p] \in Nat
    BY <1>2, SizeOf
  <1>5. \A p \in 1..Len(b[g]) : p \in 1..Len(c[g])
    BY <1>3, <1>4
  <1> QED BY <1>2, <1>3, <1>4, <1>5

LEMMA GrowBuilt ==
  ASSUME NEW b, NEW c, Templates(b), Templates(c), Grows(b, c), NEW x, BuiltIn(b, x)
  PROVE  BuiltIn(c, x)
  <1>1. x[1] \in 1..Len(b) /\ x[2] \in 1..Len(b[x[1]]) /\ x[3] \in 1..b[x[1]][x[2]]
    BY DEF BuiltIn
  <1>2. /\ x[1] \in 1..Len(c) /\ x[2] \in 1..Len(c[x[1]])
        /\ b[x[1]][x[2]] <= c[x[1]][x[2]] /\ b[x[1]][x[2]] \in Nat /\ c[x[1]][x[2]] \in Nat
    BY <1>1, GrowSize, SMTT(30)
  <1>3. x[3] \in 1..c[x[1]][x[2]]
    BY <1>1, <1>2, SMTT(30)
  <1> QED BY <1>2, <1>3 DEF BuiltIn

LEMMA GrowAnswer ==
  ASSUME NEW b, NEW c, Templates(b), Templates(c), Grows(b, c), NEW a, AnswerOK(b, a)
  PROVE  AnswerOK(c, a)
  BY GrowBuilt DEF AnswerOK

LEMMA GrowRead ==
  ASSUME NEW b, NEW c, Templates(b), Templates(c), Grows(b, c), NEW e, NEW d, e \subseteq d,
         NEW q, IsRequest(q), ReadOK(b, e, q)
  PROVE  ReadOK(c, d, q)
  <1> SUFFICES ASSUME q.at \in {"progress", "nodes", "unlock"} PROVE ReadOK(c, d, q)
    BY DEF ReadOK
  <1> DEFINE g == q.ur.template
  <1>1. /\ g \in 1..Len(b) /\ q.ur.phase[1] = g /\ q.ur.phase[2] \in 1..Len(b[g])
        /\ q.phases <= Len(b[g]) /\ EarnedBefore(e, q.ur.phase)
    BY DEF ReadOK
  <1>2. g \in 1..Len(c)
    BY <1>1, GrowSize
  <1>3. Len(b[g]) <= Len(c[g]) /\ Len(b[g]) \in Nat /\ Len(c[g]) \in Nat /\ q.phases \in Nat
    BY <1>1, GrowSize, SMTT(30) DEF IsRequest
  <1>4. q.ur.phase[2] \in 1..Len(c[g]) /\ q.phases <= Len(c[g])
    BY <1>1, <1>3, SMTT(30)
  <1>5. EarnedBefore(d, q.ur.phase)
    BY <1>1 DEF EarnedBefore
  <1> QED BY <1>1, <1>2, <1>4, <1>5 DEF ReadOK

LEMMA OneMore ==
  ASSUME NEW k \in Nat, NEW m \in Nat, k < m
  PROVE  \E n \in 1..m : n = k + 1
  OBVIOUS

(* A section that grows has a node that the rows read before do not have.   *)
LEMMA GrowRows ==
  ASSUME NEW b, NEW c, Templates(b), Templates(c), Grows(b, c), NEW e, NEW d, e \subseteq d,
         NEW q, IsRequest(q), ReadOK(b, e, q), RowsOK(b, e, q)
  PROVE  RowsOK(c, d, q)
  <1>1. q.at \notin {"nodes", "unlock"} => q.rows = NoRows
    BY DEF RowsOK
  <1> SUFFICES ASSUME q.at = "nodes" PROVE RowsOK(c, d, q)
    BY <1>1 DEF RowsOK
  <1> DEFINE g == q.ur.template
  <1>2. /\ g \in 1..Len(b) /\ q.phases <= Len(b[g]) /\ q.phases \in Nat
        /\ \A x \in Nodes : isNodeSettled(q.rows[x]) => BuiltIn(b, x)
        /\ \A p \in 1..(q.phases - 1) : AllMastered(q.rows, g, p, b[g][p]) => <<g, p>> \in e
    BY DEF ReadOK, RowsOK, IsRequest
  <1>3. \A x \in Nodes : isNodeSettled(q.rows[x]) => BuiltIn(c, x)
    BY <1>2, GrowBuilt
  <1>4. ASSUME NEW p \in 1..(q.phases - 1), AllMastered(q.rows, g, p, c[g][p])
        PROVE  <<g, p>> \in d
    <2>1. /\ g \in 1..Len(c) /\ p \in 1..Len(b[g]) /\ p \in 1..Len(c[g])
          /\ b[g][p] \in Nat /\ c[g][p] \in Nat /\ b[g][p] <= c[g][p]
      <3>1. Len(b[g]) \in Nat
        BY <1>2, GrowSize
      <3>2. p \in 1..Len(b[g])
        BY <1>2, <3>1
      <3> QED BY <1>2, <3>2, GrowSize, SMTT(30)
    <2>2. CASE b[g][p] = c[g][p]
      <3>1. AllMastered(q.rows, g, p, b[g][p])
        BY <1>4, <2>2
      <3>2. <<g, p>> \in e
        BY <1>2, <1>4, <3>1
      <3> QED BY <3>2
    <2>3. CASE b[g][p] < c[g][p]
      <3>1. PICK n \in 1..c[g][p] : n = b[g][p] + 1
        BY <2>1, <2>3, OneMore
      <3>2. BuiltIn(c, <<g, p, n>>)
        BY <2>1 DEF BuiltIn
      <3>3. <<g, p, n>> \in Nodes
        BY <3>2, BuiltNodes
      <3>4. isNodeSettled(q.rows[<<g, p, n>>])
        BY <1>4 DEF AllMastered
      <3>5. BuiltIn(b, <<g, p, n>>)
        BY <1>2, <3>3, <3>4
      <3>6. n \in 1..b[g][p]
        BY <3>5 DEF BuiltIn
      <3> QED BY <2>1, <3>1, <3>6
    <2> QED BY <2>1, <2>2, <2>3
  <1> QED BY <1>3, <1>4 DEF RowsOK

LEMMA GrowRequest ==
  ASSUME NEW b, NEW c, Templates(b), Templates(c), Grows(b, c), NEW e, NEW d, e \subseteq d,
         NEW q, RequestOK(b, e, q), Building(q) => c[q.ur.template] = b[q.ur.template]
  PROVE  RequestOK(c, d, q)
  <1>1. IsRequest(q) /\ ReadOK(c, d, q) /\ RowsOK(c, d, q)
    BY GrowRead, GrowRows DEF RequestOK
  <1>2. BuildOK(c, q)
    <2>1. BuildOK(b, q) /\ (Building(q) => q.ur.template \in 1..Len(b))
      BY DEF RequestOK, BuildOK, SpotOK
    <2>2. Building(q) => q.ur.template \in 1..Len(c)
      BY <2>1, GrowSize
    <2> QED BY <2>1, <2>2 DEF BuildOK, SpotOK
  <1>3. q.at = "settle" => BuiltIn(c, q.node)
    BY GrowBuilt DEF RequestOK
  <1>4. AnswerOK(c, q.answer)
    BY GrowAnswer DEF RequestOK
  <1> QED BY <1>1, <1>2, <1>3, <1>4 DEF RequestOK

LEMMA GrowPosition ==
  ASSUME NEW b, NEW c, Templates(b), Templates(c), Grows(b, c), NEW e, NEW d, e \subseteq d,
         NEW u, PositionOK(b, e, u), Len(c) > 0 => u.template > 0
  PROVE  PositionOK(c, d, u)
  <1>1. u \in Position /\ u.template <= Len(c)
    BY DEF PositionOK, Position, Grows, Templates
  <1>2. u.phase[1] > 0 => u.phase[1] <= Len(c) /\ u.phase[2] \in 1..Len(c[u.phase[1]])
    <2> SUFFICES ASSUME u.phase[1] > 0
                 PROVE  u.phase[1] <= Len(c) /\ u.phase[2] \in 1..Len(c[u.phase[1]])
      OBVIOUS
    <2> DEFINE g == u.phase[1]
    <2>1. g \in 1..Len(b) /\ u.phase[2] \in 1..Len(b[g])
      BY DEF PositionOK, Position, Templates
    <2>2. /\ g \in 1..Len(c)
          /\ Len(b[g]) \in Nat /\ Len(c[g]) \in Nat /\ Len(b[g]) <= Len(c[g])
      BY <2>1, GrowSize
    <2>3. u.phase[2] \in 1..Len(c[g])
      BY <2>1, <2>2, SMTT(30)
    <2> QED BY <2>2, <2>3
  <1>3. EarnedBefore(d, u.phase)
    BY DEF PositionOK, EarnedBefore
  <1>4. Len(c) = 0 => u = NoRoadmap
    <2>1. Len(b) \in Nat /\ Len(c) \in Nat /\ Len(b) <= Len(c)
      BY DEF Templates, Grows
    <2> QED BY <2>1 DEF PositionOK
  <1> QED BY <1>1, <1>2, <1>3, <1>4 DEF PositionOK

-----------------------------------------------------------------------------
(* Steps of the service *)

LEMMA Same == \A b : Templates(b) => Grows(b, b)
  <1> SUFFICES ASSUME NEW b, Templates(b) PROVE Grows(b, b)
    OBVIOUS
  <1>1. Len(b) \in Nat
    BY DEF Templates
  <1>2. \A g \in 1..Len(b) : Len(b[g]) \in Nat /\ \A p \in 1..Len(b[g]) : b[g][p] \in Nat
    BY SizeOf
  <1> QED BY <1>1, <1>2 DEF Grows

(* One request steps: the others stand where they stood.                    *)
LEMMA OneRequest ==
  ASSUME NEW b, NEW c, Templates(b), Templates(c), Grows(b, c), NEW e, NEW d, e \subseteq d,
         NEW rq, RequestsOK(b, e, rq), NEW r \in Slots, NEW q, RequestOK(c, d, q),
         \A s \in Slots \ {r} : Building(rq[s]) =>
           /\ c[rq[s].ur.template] = b[rq[s].ur.template]
           /\ Building(q) => q.ur.template # rq[s].ur.template
  PROVE  RequestsOK(c, d, [rq EXCEPT ![r] = q])
  <1> DEFINE new == [rq EXCEPT ![r] = q]
  <1>1. new = [s \in Slots |-> new[s]] /\ \A s \in Slots : new[s] = IF s = r THEN q ELSE rq[s]
    BY DEF RequestsOK
  <1>2. \A s \in Slots : RequestOK(c, d, new[s])
    BY <1>1, GrowRequest DEF RequestsOK
  <1>3. \A s, t \in Slots : s # t /\ Building(new[s]) /\ Building(new[t]) =>
          new[s].ur.template # new[t].ur.template
    BY <1>1 DEF RequestsOK
  <1> HIDE DEF new
  <1> QED BY <1>1, <1>2, <1>3 DEF RequestsOK, new

(* ... and builds nothing.                                                  *)
LEMMA OneQuiet ==
  ASSUME NEW b, Templates(b), NEW e, NEW rq, RequestsOK(b, e, rq), NEW r \in Slots,
         NEW q, RequestOK(b, e, q), Building(q) => Building(rq[r]) /\ q.ur = rq[r].ur
  PROVE  RequestsOK(b, e, [rq EXCEPT ![r] = q])
  BY Same, OneRequest DEF RequestsOK

LEMMA GrowProgress ==
  ASSUME NEW b, NEW c, Templates(b), Templates(c), Grows(b, c), NEW e, NEW d,
         NEW rows, ProgressOK(b, e, rows), EarnedNow(c, rows) \subseteq d
  PROVE  ProgressOK(c, d, rows)
  BY GrowBuilt DEF ProgressOK

LEMMA RequestIs ==
  ASSUME ServiceInv, NEW r \in Slots
  PROVE  /\ RequestOK(built, Passed, req[r]) /\ IsRequest(req[r])
         /\ "at" \in DOMAIN req[r] /\ "ur" \in DOMAIN req[r] /\ "spot" \in DOMAIN req[r]
         /\ req = [s \in Slots |-> req[s]]
  BY DEF ServiceInv, RequestsOK, RequestOK, IsRequest, Fields

LEMMA CreateTemplateOK ==
  ASSUME ServiceInv, NEW r \in Slots, CreateTemplate(r)
  PROVE  ServiceInv' /\ Grows(built, built')
  <1> DEFINE b == built
             c == Append(built, <<>>)
             u == [template |-> Len(c), phase |-> NoPhase]
  <1>1. /\ req[r].at = "template" /\ Len(b) < Generations /\ built' = c
        /\ ur' = u /\ UNCHANGED <<progress, Passed>>
    BY DEF CreateTemplate, Passed
  <1>2. PICK q : q = [req[r] EXCEPT !.at = "build", !.spot = <<1, 0>>, !.ur = u]
    OBVIOUS
  <1>3. req' = [req EXCEPT ![r] = q]
    BY <1>1, <1>2, RequestIs DEF CreateTemplate
  <1>4. b \in Seq(Seq(Nat)) /\ Len(b) \in Nat /\ Templates(b)
    BY DEF ServiceInv, Templates
  <1>5. <<>> \in Seq(Nat) /\ Len(<<>>) = 0
    OBVIOUS
  <1>6. /\ c \in Seq(Seq(Nat)) /\ Len(c) = Len(b) + 1 /\ c[Len(c)] = <<>>
        /\ \A g \in 1..Len(b) : c[g] = b[g]
    BY <1>4, <1>5
  <1> HIDE DEF c
  <1>7. \A g \in 1..Len(c) : g \in 1..Len(b) \/ g = Len(c)
    BY <1>4, <1>6
  <1>8. Templates(c)
    <2>1. Len(c) <= Generations
      BY <1>1, <1>4, <1>6, RoadmapAssumption
    <2>2. ASSUME NEW g \in 1..Len(c)
          PROVE  Len(c[g]) <= Len(Size) /\ \A p \in 1..Len(c[g]) : c[g][p] <= Size[p]
      <3>1. CASE g \in 1..Len(b)
        BY <1>4, <1>6, <3>1, SizeOf
      <3>2. CASE g = Len(c)
        BY <1>5, <1>6, <3>2, Sizes
      <3> QED BY <1>7, <3>1, <3>2
    <2> QED BY <1>6, <2>1, <2>2 DEF Templates
  <1>9. Grows(b, c)
    <2>1. \A g \in 1..Len(b) : Len(b[g]) \in Nat /\ \A p \in 1..Len(b[g]) : b[g][p] \in Nat
      BY <1>4, SizeOf
    <2>2. ASSUME NEW g \in 1..Len(b)
          PROVE  Len(b[g]) <= Len(c[g]) /\ \A p \in 1..Len(b[g]) : b[g][p] <= c[g][p]
      BY <1>6, <2>1
    <2>3. Len(b) <= Len(c)
      BY <1>4, <1>6
    <2> QED BY <2>2, <2>3 DEF Grows
  <1>10. PositionOK(c, Passed, u)
    BY <1>4, <1>6 DEF PositionOK, Position, NoPhase, EarnedBefore
  <1>11. ProgressOK(c, Passed, progress)
    <2>1. EarnedNow(c, progress) \subseteq EarnedNow(b, progress)
      <3> SUFFICES ASSUME NEW x \in EarnedNow(c, progress) PROVE x \in EarnedNow(b, progress)
        OBVIOUS
      <3>1. /\ x \in (1..Len(c)) \X Phases /\ x[2] < Len(c[x[1]]) /\ c[x[1]][x[2]] > 0
            /\ \A n \in 1..c[x[1]][x[2]] : isNodeSettled(progress[<<x[1], x[2], n>>])
        BY DEF EarnedNow
      <3>2. x[1] \in 1..Len(b)
        BY <1>5, <1>6, <1>7, <3>1, Sizes
      <3>3. c[x[1]] = b[x[1]]
        BY <1>6, <3>2
      <3> QED BY <3>1, <3>2, <3>3 DEF EarnedNow
    <2> QED BY <1>4, <1>8, <1>9, <2>1, GrowProgress DEF ServiceInv, ProgressOK
  <1>12. RequestOK(c, Passed, q)
    <2>1. RequestOK(b, Passed, req[r]) /\ DOMAIN req[r] = Fields /\ IsRequest(req[r])
      BY RequestIs DEF IsRequest
    <2>2. /\ DOMAIN q = Fields /\ q.at = "build" /\ q.ur = u /\ q.spot = <<1, 0>>
          /\ q.phases = req[r].phases /\ q.rows = req[r].rows /\ q.answer = req[r].answer
      BY <1>2, <2>1 DEF Fields
    <2>3. u \in Position
      BY <1>10 DEF PositionOK
    <2>4. IsRequest(q)
      BY <2>1, <2>2, <2>3 DEF IsRequest
    <2>5. req[r].rows = NoRows /\ AnswerOK(b, req[r].answer)
      BY <1>1, <2>1 DEF RequestOK, RowsOK
    <2>6. AnswerOK(c, q.answer)
      BY <1>4, <1>8, <1>9, <2>2, <2>5, GrowAnswer
    <2>7. BuildOK(c, q)
      BY <1>4, <1>5, <1>6, <2>2, Sizes DEF BuildOK, SpotOK, Building
    <2> QED BY <2>2, <2>4, <2>5, <2>6, <2>7 DEF RequestOK, ReadOK, RowsOK
  <1>13. \A s \in Slots \ {r} : Building(req[s]) =>
           /\ c[req[s].ur.template] = b[req[s].ur.template]
           /\ Building(q) => q.ur.template # req[s].ur.template
    <2>1. q.ur.template = Len(c)
      BY <1>2, RequestIs DEF IsRequest, Fields
    <2>2. \A s \in Slots : Building(req[s]) => req[s].ur.template \in 1..Len(b)
      BY RequestIs DEF RequestOK, BuildOK, SpotOK
    <2> QED BY <1>4, <1>6, <2>1, <2>2, SMTT(30)
  <1>14. RequestsOK(c, Passed, req')
    BY <1>3, <1>4, <1>8, <1>9, <1>12, <1>13, OneRequest DEF ServiceInv
  <1> QED BY <1>1, <1>8, <1>9, <1>10, <1>11, <1>14 DEF ServiceInv

(* A request that builds changes its own template alone.                    *)
LEMMA BuilderOK ==
  ASSUME ServiceInv, NEW r \in Slots, Building(req[r]),
         NEW c, Templates(c), Grows(built, c),
         \A h \in 1..Len(built) : h # req[r].ur.template => c[h] = built[h],
         NEW d, Passed \subseteq d, NEW q, RequestOK(c, d, q), q.ur = req[r].ur
  PROVE  RequestsOK(c, d, [req EXCEPT ![r] = q])
  <1>1. Templates(built) /\ RequestsOK(built, Passed, req)
    BY DEF ServiceInv
  <1>2. \A s \in Slots : Building(req[s]) => req[s].ur.template \in 1..Len(built)
    BY RequestIs DEF RequestOK, BuildOK, SpotOK
  <1>3. \A s \in Slots \ {r} : Building(req[s]) =>
          q.ur.template # req[s].ur.template /\ c[req[s].ur.template] = built[req[s].ur.template]
    BY <1>1, <1>2 DEF RequestsOK
  <1>4. \A s \in Slots \ {r} : Building(req[s]) =>
          /\ c[req[s].ur.template] = built[req[s].ur.template]
          /\ Building(q) => q.ur.template # req[s].ur.template
    BY <1>3
  <1> QED BY <1>1, <1>4, OneRequest

(* The phases of one template become more, or larger.                       *)
Larger(old, s) ==
  /\ s \in Seq(Nat) /\ Len(old) <= Len(s) /\ Len(s) <= Len(Size)
  /\ \A p \in 1..Len(old) : old[p] <= s[p]
  /\ \A p \in 1..Len(s) : s[p] <= Size[p]

LEMMA LongerSection ==
  ASSUME NEW b, Templates(b), NEW g \in 1..Len(b), NEW s, Larger(b[g], s),
         NEW c, c = [b EXCEPT ![g] = s]
  PROVE  /\ Templates(c) /\ Grows(b, c) /\ Len(c) = Len(b) /\ c[g] = s
         /\ \A h \in 1..Len(b) : h # g => c[h] = b[h]
  <1>1. b \in Seq(Seq(Nat)) /\ Len(b) \in Nat /\ s \in Seq(Nat)
    BY DEF Templates, Larger
  <1>2. /\ c \in Seq(Seq(Nat)) /\ Len(c) = Len(b) /\ c[g] = s
        /\ \A h \in 1..Len(b) : h # g => c[h] = b[h]
    BY <1>1
  <1>3. Templates(c)
    <2>1. ASSUME NEW h \in 1..Len(c)
          PROVE  Len(c[h]) <= Len(Size) /\ \A p \in 1..Len(c[h]) : c[h][p] <= Size[p]
      <3>1. CASE h = g BY <1>2, <3>1 DEF Larger
      <3>2. CASE h # g BY <1>2, <2>1, <3>2, SizeOf
      <3> QED BY <3>1, <3>2
    <2>2. Len(c) <= Generations
      BY <1>2 DEF Templates
    <2> QED BY <1>2, <2>1, <2>2 DEF Templates
  <1>4. Grows(b, c)
    <2>1. ASSUME NEW h \in 1..Len(b)
          PROVE  Len(b[h]) <= Len(c[h]) /\ \A p \in 1..Len(b[h]) : b[h][p] <= c[h][p]
      <3>1. CASE h = g BY <1>2, <3>1 DEF Larger
      <3>2. CASE h # g BY <1>2, <2>1, <3>2, SizeOf
      <3> QED BY <3>1, <3>2
    <2>2. Len(b) <= Len(c)
      BY <1>1, <1>2
    <2> QED BY <2>1, <2>2 DEF Grows
  <1> QED BY <1>2, <1>3, <1>4

(* The request that goes on to its next spot.                               *)
LEMMA SpotRequest ==
  ASSUME NEW b, NEW c, Templates(b), Templates(c), Grows(b, c), NEW e, NEW d,
         NEW q, RequestOK(b, e, q), Building(q), NEW n, DOMAIN n = Fields,
         n.ur = q.ur, n.phases = q.phases, n.rows = q.rows, n.answer = q.answer,
         Building(n), n.spot \in Nat \X Nat, SpotOK(c, q.ur.template, n.at, n.spot)
  PROVE  RequestOK(c, d, n)
  <1>1. IsRequest(q) /\ q.rows = NoRows
    BY DEF RequestOK, RowsOK, Building
  <1>2. IsRequest(n)
    BY <1>1 DEF IsRequest
  <1>3. AnswerOK(c, n.answer)
    BY GrowAnswer DEF RequestOK
  <1>4. BuildOK(c, n)
    BY DEF BuildOK
  <1> QED BY <1>1, <1>2, <1>3, <1>4 DEF RequestOK, ReadOK, RowsOK, Building

LEMMA AppendZero ==
  ASSUME NEW s \in Seq(Nat), NEW t, t = Append(s, 0)
  PROVE  /\ t \in Seq(Nat) /\ Len(t) = Len(s) + 1 /\ t[Len(s) + 1] = 0
         /\ \A k \in 1..Len(s) : t[k] = s[k]
         /\ \A k \in 1..Len(t) : k \in 1..Len(s) \/ k = Len(s) + 1
  OBVIOUS

LEMMA CreatePhaseOK ==
  ASSUME ServiceInv, NEW r \in Slots, CreatePhase(r)
  PROVE  ServiceInv' /\ Grows(built, built')
  <1>0. PICK g, p : g = req[r].ur.template /\ p = req[r].spot[1]
    OBVIOUS
  <1>1. /\ req[r].at = "build" /\ req[r].spot[2] = 0 /\ p \in Phases
        /\ built' = [built EXCEPT ![g] = Append(@, 0)]
        /\ req' = [req EXCEPT ![r].spot = <<p, 1>>]
        /\ UNCHANGED <<ur, progress, short>> /\ Remember
    BY <1>0 DEF CreatePhase
  <1>2. RequestOK(built, Passed, req[r]) /\ Templates(built)
    BY RequestIs DEF ServiceInv
  <1>3. g \in 1..Len(built) /\ Len(built[g]) = p - 1 /\ p \in 1..Len(Size)
    BY <1>0, <1>1, <1>2, Sizes DEF RequestOK, BuildOK, SpotOK, Building
  <1>4. PICK s : s = Append(built[g], 0)
    OBVIOUS
  <1>5. PICK c : c = [built EXCEPT ![g] = s]
    OBVIOUS
  <1>6. built' = c
    BY <1>1, <1>2, <1>3, <1>4, <1>5 DEF Templates
  <1>7. built[g] \in Seq(Nat) /\ Len(built[g]) \in Nat /\ \A k \in 1..Len(built[g]) :
          built[g][k] \in Nat /\ built[g][k] <= Size[k]
    BY <1>2, <1>3, SizeOf
  <1>8. /\ s \in Seq(Nat) /\ Len(s) = p /\ s[p] = 0
        /\ \A k \in 1..Len(built[g]) : s[k] = built[g][k]
        /\ \A k \in 1..Len(s) : k \in 1..Len(built[g]) \/ k = p
    <2>1. Len(built[g]) + 1 = p
      BY <1>3
    <2> QED BY <1>4, <1>7, <2>1, AppendZero
  <1>9. Larger(built[g], s)
    <2>1. \A k \in 1..Len(s) : s[k] <= Size[k]
      BY <1>3, <1>7, <1>8, Sizes
    <2>2. Len(built[g]) <= Len(s) /\ Len(s) <= Len(Size)
      BY <1>3, <1>8, Sizes
    <2> QED BY <1>7, <1>8, <2>1, <2>2 DEF Larger
  <1>10. /\ Templates(c) /\ Grows(built, c) /\ Len(c) = Len(built) /\ c[g] = s
         /\ \A h \in 1..Len(built) : h # g => c[h] = built[h]
    <2>1. Templates(built) /\ g \in 1..Len(built) /\ s \in Seq(Nat)
      BY <1>2, <1>3, <1>8
    <2>2. Templates(c) /\ Grows(built, c) 
      BY <2>1, <1>5, <1>9, LongerSection
    <2>3. Len(c) = Len(built) /\ c[g] = s
      BY <2>1, <1>5, <1>9, LongerSection
    <2>4. \A h \in 1..Len(built) : h # g => c[h] = built[h]
      BY <2>1, <1>5, <1>9, LongerSection
    <2> QED BY <2>2, <2>3, <2>4
  <1>11. Passed' = Passed \cup EarnedNow(c, progress) /\ Passed \subseteq Passed'
    BY <1>1, <1>6 DEF Remember, Passed
  <1>12. PICK q : q = [req[r] EXCEPT !.spot = <<p, 1>>]
    OBVIOUS
  <1>13. req' = [req EXCEPT ![r] = q]
    BY <1>1, <1>12, RequestIs
  <1>14. RequestOK(c, Passed', q) /\ q.ur = req[r].ur
    <2>1. <<p, 1>> \in Nat \X Nat
      BY <1>3, Sizes
    <2>2. /\ g \in 1..Len(c) /\ p \in 1..(Len(Size) + 1) /\ p <= Len(Size)
          /\ 1 <= Size[p] /\ Len(c[g]) = p /\ c[g][p] < 1 /\ c[g][p] <= 1
      BY <1>3, <1>8, <1>10, Sizes
    <2>3. /\ DOMAIN q = Fields /\ q.at = "build" /\ q.spot = <<p, 1>> /\ q.ur = req[r].ur
          /\ q.phases = req[r].phases /\ q.rows = req[r].rows /\ q.answer = req[r].answer
      BY <1>1, <1>12, RequestIs DEF IsRequest, Fields
    <2>4. SpotOK(c, g, "build", q.spot)
      BY <2>2, <2>3 DEF SpotOK
    <2>5. Templates(built) /\ Templates(c) /\ Grows(built, c)
      BY <1>2, <1>10
    <2>6. Building(q) /\ Building(req[r])
      BY <1>1, <2>3 DEF Building
    <2> QED BY <1>0, <1>2, <2>1, <2>3, <2>4, <2>5, <2>6, SpotRequest
  <1>15. RequestsOK(c, Passed', [req EXCEPT ![r] = q])
    BY <1>0, <1>1, <1>10, <1>11, <1>14, BuilderOK DEF Building
  <1>16. PositionOK(c, Passed', ur)
    <2>1. PositionOK(built, Passed, ur) /\ (Len(c) > 0 => ur.template > 0)
      BY <1>10 DEF ServiceInv, PositionOK
    <2> QED BY <1>2, <1>10, <1>11, <2>1, GrowPosition
  <1>17. ProgressOK(c, Passed', progress)
    BY <1>2, <1>10, <1>11, GrowProgress DEF ServiceInv
  <1> QED BY <1>1, <1>6, <1>13, <1>10, <1>15, <1>16, <1>17 DEF ServiceInv

LEMMA NextSpotOK ==
  ASSUME NEW c, NEW g \in 1..Len(c), NEW p \in 1..Len(Size), NEW j \in 1..Size[p],
         Len(c[g]) = p, c[g][p] \in Nat, c[g][p] <= j
  PROVE  SpotOK(c, g, "build", NextSpot(p, j)) /\ NextSpot(p, j) \in Nat \X Nat
  <1>1. p \in Nat \ {0} /\ j \in Nat \ {0} /\ Size[p] \in Nat /\ Len(Size) \in Nat
    BY Sizes
  <1>2. PICK s : s = NextSpot(p, j)
    OBVIOUS
  <1>3. CASE j < Size[p]
    <2>1. s[1] = p /\ s[2] = j + 1 /\ s \in Nat \X Nat
      BY <1>1, <1>2, <1>3 DEF NextSpot
    <2>2. c[g][p] < j + 1 /\ j + 1 <= Size[p] /\ p <= Len(Size) /\ j + 1 # 0
      BY <1>1, <1>3
    <2> QED BY <1>1, <1>2, <2>1, <2>2 DEF SpotOK
  <1>4. CASE ~(j < Size[p])
    <2>1. s[1] = p + 1 /\ s[2] = 0 /\ s \in Nat \X Nat
      BY <1>1, <1>2, <1>4 DEF NextSpot
    <2>2. p + 1 \in 1..(Len(Size) + 1) /\ p = p + 1 - 1
      BY <1>1
    <2> QED BY <1>1, <1>2, <2>1, <2>2 DEF SpotOK
  <1> QED BY <1>3, <1>4

LEMMA CountOne ==
  ASSUME NEW old \in Seq(Nat), NEW p \in 1..Len(old), NEW n \in Nat, NEW s, s = [old EXCEPT ![p] = n]
  PROVE  /\ s \in Seq(Nat) /\ Len(s) = Len(old) /\ s[p] = n
         /\ \A k \in 1..Len(old) : k # p => s[k] = old[k]
  OBVIOUS

(* Where no more nodes are settled, no more sections are earned.            *)
LEMMA FewerSettled ==
  ASSUME NEW b, Templates(b), NEW rows, NEW more,
         \A x \in Nodes : isNodeSettled(rows[x]) => isNodeSettled(more[x])
  PROVE  EarnedNow(b, rows) \subseteq EarnedNow(b, more)
  <1> SUFFICES ASSUME NEW x \in EarnedNow(b, rows) PROVE x \in EarnedNow(b, more)
    OBVIOUS
  <1>1. PICK n : n = b[x[1]][x[2]]
    OBVIOUS
  <1>2. /\ x \in (1..Len(b)) \X Phases /\ x[2] < Len(b[x[1]]) /\ n > 0
        /\ \A j \in 1..n : isNodeSettled(rows[<<x[1], x[2], j>>])
    BY <1>1 DEF EarnedNow
  <1>3. x[1] \in 1..Len(b) /\ x[2] \in 1..Len(b[x[1]])
    <2>1. x[1] \in 1..Len(b) /\ x[2] \in 1..Len(Size)
      BY <1>2, Sizes
    <2>2. Len(b[x[1]]) \in Nat
      BY <2>1, SizeOf
    <2> QED BY <1>2, <2>1, <2>2
  <1>4. \A j \in 1..n : <<x[1], x[2], j>> \in Nodes
    <2>1. \A j \in 1..n : BuiltIn(b, <<x[1], x[2], j>>)
      BY <1>1, <1>3 DEF BuiltIn
    <2> QED BY <2>1, BuiltNodes
  <1>5. \A j \in 1..n : isNodeSettled(more[<<x[1], x[2], j>>])
    BY <1>2, <1>4
  <1> QED BY <1>1, <1>2, <1>5 DEF EarnedNow

LEMMA CreateNodeOK ==
  ASSUME ServiceInv, NEW r \in Slots, CreateNode(r)
  PROVE  ServiceInv' /\ Grows(built, built')
  <1>0. PICK g, p, j : g = req[r].ur.template /\ p = req[r].spot[1] /\ j = req[r].spot[2]
    OBVIOUS
  <1>1. PICK n : n = built[g][p] + 1
    OBVIOUS
  <1>2. /\ req[r].at = "build" /\ j > 0
        /\ built' = [built EXCEPT ![g][p] = n]
        /\ req' = [req EXCEPT ![r].at = "row"]
        /\ UNCHANGED <<ur, progress, short>> /\ Remember
    BY <1>0, <1>1 DEF CreateNode
  <1>3. RequestOK(built, Passed, req[r]) /\ Templates(built)
    BY RequestIs DEF ServiceInv
  <1>4. /\ g \in 1..Len(built) /\ Len(built[g]) = p /\ p \in 1..Len(Size)
        /\ j \in 1..Size[p] /\ built[g][p] < j
    <2>1. SpotOK(built, g, "build", req[r].spot) /\ j \in Nat
      BY <1>0, <1>2, <1>3 DEF RequestOK, BuildOK, IsRequest, Building
    <2> QED BY <1>0, <1>2, <2>1, Sizes DEF SpotOK
  <1>5. built[g] \in Seq(Nat) /\ \A k \in 1..Len(built[g]) :
          built[g][k] \in Nat /\ built[g][k] <= Size[k]
    BY <1>3, <1>4, SizeOf
  <1>6. p \in 1..Len(built[g]) /\ built[g][p] \in Nat /\ n \in Nat /\ n <= j /\ n <= Size[p]
        /\ built[g][p] <= n /\ n > 0
    BY <1>1, <1>4, <1>5, Sizes, SMTT(30)
  <1>7. PICK s : s = [built[g] EXCEPT ![p] = n]
    OBVIOUS
  <1>8. PICK c : c = [built EXCEPT ![g] = s]
    OBVIOUS
  <1>9. built' = c
    BY <1>2, <1>3, <1>4, <1>7, <1>8 DEF Templates
  <1>10. /\ s \in Seq(Nat) /\ Len(s) = Len(built[g]) /\ s[p] = n
         /\ \A k \in 1..Len(built[g]) : k # p => s[k] = built[g][k]
    BY <1>5, <1>6, <1>7, CountOne
  <1>11. Larger(built[g], s)
    <2>1. \A k \in 1..Len(s) : s[k] <= Size[k]
      BY <1>5, <1>6, <1>10
    <2>2. \A k \in 1..Len(built[g]) : built[g][k] <= s[k]
      BY <1>5, <1>6, <1>10, SMTT(30)
    <2>3. Len(built[g]) <= Len(s) /\ Len(s) <= Len(Size)
      BY <1>4, <1>10, Sizes
    <2> QED BY <1>10, <2>1, <2>2, <2>3 DEF Larger
  <1>12. Templates(c) /\ Grows(built, c)
    BY <1>3, <1>4, <1>8, <1>11, LongerSection
  <1>13. Len(c) = Len(built) /\ c[g] = s
    BY <1>3, <1>4, <1>8, <1>11, LongerSection
  <1>14. \A h \in 1..Len(built) : h # g => c[h] = built[h]
    BY <1>3, <1>4, <1>8, <1>11, LongerSection
  <1>15. Passed' = Passed \cup EarnedNow(c, progress) /\ Passed \subseteq Passed'
    BY <1>2, <1>9 DEF Remember, Passed
  <1>16. PICK q : q = [req[r] EXCEPT !.at = "row"]
    OBVIOUS
  <1>17. req' = [req EXCEPT ![r] = q]
    BY <1>2, <1>16, RequestIs
  <1>18. RequestOK(c, Passed', q) /\ q.ur = req[r].ur
    <2>1. /\ DOMAIN q = Fields /\ q.at = "row" /\ q.spot = req[r].spot /\ q.ur = req[r].ur
          /\ q.phases = req[r].phases /\ q.rows = req[r].rows /\ q.answer = req[r].answer
      BY <1>16, RequestIs DEF IsRequest, Fields
    <2>2. q.spot \in Nat \X Nat /\ q.spot[1] = p /\ q.spot[2] = j
      BY <1>0, <1>3, <2>1 DEF RequestOK, IsRequest
    <2>3. /\ g \in 1..Len(c) /\ p \in 1..(Len(Size) + 1) /\ p <= Len(Size) /\ j <= Size[p]
          /\ Len(c[g]) = p /\ c[g][p] <= j /\ c[g][p] > 0 /\ j > 0 /\ j # 0
      BY <1>4, <1>6, <1>10, <1>13, Sizes
    <2>4. SpotOK(c, g, q.at, q.spot)
      BY <2>1, <2>2, <2>3 DEF SpotOK
    <2>5. Building(q) /\ Building(req[r])
      BY <1>2, <2>1 DEF Building
    <2> QED BY <1>0, <1>3, <1>12, <2>1, <2>2, <2>4, <2>5, SpotRequest
  <1>19. RequestsOK(c, Passed', [req EXCEPT ![r] = q])
    BY <1>0, <1>2, <1>12, <1>14, <1>15, <1>18, BuilderOK DEF Building
  <1>20. PositionOK(c, Passed', ur)
    <2>1. PositionOK(built, Passed, ur) /\ (Len(c) > 0 => ur.template > 0)
      BY <1>13 DEF ServiceInv, PositionOK
    <2> QED BY <1>3, <1>12, <1>15, <2>1, GrowPosition
  <1>21. ProgressOK(c, Passed', progress)
    BY <1>3, <1>12, <1>15, GrowProgress DEF ServiceInv
  <1> QED BY <1>2, <1>9, <1>12, <1>17, <1>19, <1>20, <1>21 DEF ServiceInv

(* Its progress row settles nothing.                                        *)
LEMMA CreateUserNodeProgressOK ==
  ASSUME ServiceInv, NEW r \in Slots, CreateUserNodeProgress(r)
  PROVE  ServiceInv'
  <1>0. PICK g, p, j, n, at : /\ g = req[r].ur.template /\ p = req[r].spot[1]
                              /\ j = req[r].spot[2] /\ n = built[g][p] /\ at = NextSpot(p, j)
    OBVIOUS
  <1>1. /\ req[r].at = "row" /\ UNCHANGED <<ur, built, Passed>>
        /\ \/ progress' = progress
           \/ \E st \in {"locked", "unlocked"} : progress' = [progress EXCEPT ![<<g, p, n>>] = st]
        /\ req' = [req EXCEPT ![r].at = "build", ![r].spot = at]
    BY <1>0 DEF CreateUserNodeProgress, Passed
  <1>2. /\ RequestOK(built, Passed, req[r]) /\ Templates(built) /\ Grows(built, built)
        /\ RequestsOK(built, Passed, req)
    BY RequestIs, Same DEF ServiceInv
  <1>3. /\ g \in 1..Len(built) /\ Len(built[g]) = p /\ p \in 1..Len(Size) /\ p \in 1..Len(built[g])
        /\ j \in 1..Size[p] /\ n \in Nat /\ n <= j /\ n > 0
    <2>1. SpotOK(built, g, "row", req[r].spot) /\ j \in Nat
      BY <1>0, <1>1, <1>2 DEF RequestOK, BuildOK, IsRequest, Building
    <2>2. /\ g \in 1..Len(built) /\ Len(built[g]) = p /\ p \in 1..Len(Size)
          /\ j \in 1..Size[p] /\ n <= j /\ n > 0
      BY <1>0, <2>1, Sizes DEF SpotOK
    <2>3. p \in 1..Len(built[g])
      BY <2>2, Sizes
    <2>4. n \in Nat
      BY <1>0, <1>2, <2>2, <2>3, SizeOf
    <2> QED BY <2>2, <2>3, <2>4
  <1>4. PICK q : q = [req[r] EXCEPT !.at = "build", !.spot = at]
    OBVIOUS
  <1>5. req' = [req EXCEPT ![r] = q]
    BY <1>1, <1>4, RequestIs
  <1>6. /\ DOMAIN q = Fields /\ q.at = "build" /\ q.spot = at /\ q.ur = req[r].ur
        /\ q.phases = req[r].phases /\ q.rows = req[r].rows /\ q.answer = req[r].answer
    BY <1>4, RequestIs DEF IsRequest, Fields
  <1>7. Building(q) /\ Building(req[r])
    BY <1>1, <1>6 DEF Building
  <1>8. RequestOK(built, Passed, q)
    <2>1. SpotOK(built, g, "build", at) /\ at \in Nat \X Nat
      BY <1>0, <1>3, NextSpotOK
    <2> QED BY <1>0, <1>2, <1>6, <1>7, <2>1, SpotRequest
  <1>9. RequestsOK(built, Passed, req')
    BY <1>2, <1>5, <1>6, <1>7, <1>8, OneQuiet
  <1>10. /\ progress \in [Nodes -> Status] /\ EarnedNow(built, progress) \subseteq Passed
         /\ \A x \in Nodes : progress[x] # "none" => BuiltIn(built, x)
    BY DEF ServiceInv, ProgressOK
  <1>11. progress' \in [Nodes -> Status]
    BY <1>1, <1>10 DEF Status
  <1>12. \A x \in Nodes : progress'[x] # "none" => BuiltIn(built, x)
    <2>1. n \in 1..n
      BY <1>3
    <2>4. BuiltIn(built, <<g, p, n>>)
      BY <1>0, <1>3, <2>1 DEF BuiltIn
    <2> SUFFICES ASSUME NEW x \in Nodes, progress'[x] # "none" PROVE BuiltIn(built, x)
      OBVIOUS
    <2>2. CASE x = <<g, p, n>>
      BY <2>4, <2>2
    <2>3. CASE x # <<g, p, n>>
      BY <1>1, <1>10, <2>3
    <2> QED BY <2>2, <2>3
  <1>13. \A x \in Nodes : isNodeSettled(progress'[x]) => isNodeSettled(progress[x])
    BY <1>1, <1>10 DEF isNodeSettled
  <1>14. ProgressOK(built, Passed, progress')
    BY <1>2, <1>10, <1>11, <1>12, <1>13, FewerSettled DEF ProgressOK
  <1> QED BY <1>1, <1>9, <1>14 DEF ServiceInv

LEMMA SkipNodeOK ==
  ASSUME ServiceInv, NEW r \in Slots, SkipNode(r)
  PROVE  ServiceInv'
  <1>0. PICK g, p, j : g = req[r].ur.template /\ p = req[r].spot[1] /\ j = req[r].spot[2]
    OBVIOUS
  <1>1. PICK at : at = NextSpot(p, j)
    OBVIOUS
  <1>2. /\ req[r].at = "build" /\ j > 0
        /\ req' = [req EXCEPT ![r].spot = at]
        /\ UNCHANGED <<ur, built, progress, Passed>>
    BY <1>0, <1>1 DEF SkipNode, Passed
  <1>3. RequestOK(built, Passed, req[r]) /\ Templates(built) /\ Grows(built, built)
    BY RequestIs, Same DEF ServiceInv
  <1>4. SpotOK(built, g, "build", at) /\ at \in Nat \X Nat
    <2>1. SpotOK(built, g, "build", req[r].spot) /\ j \in Nat
      BY <1>0, <1>2, <1>3 DEF RequestOK, BuildOK, IsRequest, Building
    <2>2. /\ g \in 1..Len(built) /\ Len(built[g]) = p /\ p \in 1..Len(Size)
          /\ j \in 1..Size[p] /\ built[g][p] < j
      BY <1>0, <1>2, <2>1, Sizes DEF SpotOK
    <2>3. p \in 1..Len(built[g])
      BY <2>2, Sizes
    <2>4. built[g][p] \in Nat
      BY <1>3, <2>2, <2>3, SizeOf
    <2>5. built[g][p] <= j
      BY <2>2, <2>4, Sizes
    <2> QED BY <1>1, <2>2, <2>4, <2>5, NextSpotOK
  <1>5. PICK q : q = [req[r] EXCEPT !.spot = at]
    OBVIOUS
  <1>6. req' = [req EXCEPT ![r] = q]
    BY <1>2, <1>5, RequestIs
  <1>7. RequestOK(built, Passed, q) /\ q.ur = req[r].ur
    <2>1. /\ DOMAIN q = Fields /\ q.at = "build" /\ q.spot = at /\ q.ur = req[r].ur
          /\ q.phases = req[r].phases /\ q.rows = req[r].rows /\ q.answer = req[r].answer
      BY <1>2, <1>5, RequestIs DEF IsRequest, Fields
    <2>2. Building(q) /\ Building(req[r])
      BY <1>2, <2>1 DEF Building
    <2> QED BY <1>0, <1>3, <1>4, <2>1, <2>2, SpotRequest
  <1>8. RequestsOK(built, Passed, req')
    <2>1. Building(q) => Building(req[r]) /\ q.ur = req[r].ur
      BY <1>2, <1>7 DEF Building
    <2>2. RequestsOK(built, Passed, req)
      BY DEF ServiceInv
    <2>3. RequestsOK(built, Passed, [req EXCEPT ![r] = q])
      BY <1>3, <1>7, <2>1, <2>2, OneQuiet
    <2> QED BY <1>6, <2>3
  <1> QED BY <1>2, <1>8 DEF ServiceInv

LEMMA UpdateUserRoadmapPhaseOK ==
  ASSUME ServiceInv, NEW r \in Slots, UpdateUserRoadmapPhase(r)
  PROVE  ServiceInv'
  <1>0. PICK g : g = req[r].ur.template
    OBVIOUS
  <1>1. /\ req[r].at = "build" /\ req[r].spot[1] \notin Phases
        /\ ur' = [ur EXCEPT !.phase = <<g, 1>>]
        /\ req' = [req EXCEPT ![r].at = "roadmap", ![r].spot = <<0, 0>>, ![r].ur = NoRoadmap]
        /\ UNCHANGED <<built, progress, Passed>>
    BY <1>0 DEF UpdateUserRoadmapPhase, Passed
  <1>2. RequestOK(built, Passed, req[r]) /\ Templates(built) /\ PositionOK(built, Passed, ur)
    BY RequestIs DEF ServiceInv
  <1>3. g \in 1..Len(built) /\ Len(built[g]) = Len(Size)
    <2>1. SpotOK(built, g, "build", req[r].spot) /\ req[r].spot \in Nat \X Nat
      BY <1>0, <1>1, <1>2 DEF RequestOK, BuildOK, IsRequest, Building
    <2>2. req[r].spot[1] = Len(Size) + 1 /\ req[r].spot[2] = 0
      BY <1>1, <2>1, Sizes DEF SpotOK
    <2> QED BY <2>1, <2>2, Sizes DEF SpotOK
  <1>4. PositionOK(built, Passed, ur')
    <2>1. ur \in Position /\ ur.template <= Len(built) /\ (Len(built) > 0 => ur.template > 0)
      BY <1>2 DEF PositionOK
    <2>2. ur' = [template |-> ur.template, phase |-> <<g, 1>>] /\ ur.template \in Nat
      BY <1>1, <2>1 DEF Position
    <2>3. ur' \in Position /\ ur'.template = ur.template /\ ur'.phase[1] = g /\ ur'.phase[2] = 1
      BY <1>3, <2>2 DEF Position
    <2>4. EarnedBefore(Passed, ur'.phase)
      BY <2>3 DEF EarnedBefore
    <2> QED BY <1>2, <1>3, <2>1, <2>3, <2>4, Sizes DEF PositionOK, Templates
  <1>5. PICK q : q = [req[r] EXCEPT !.at = "roadmap", !.spot = <<0, 0>>, !.ur = NoRoadmap]
    OBVIOUS
  <1>6. req' = [req EXCEPT ![r] = q]
    BY <1>1, <1>5, RequestIs
  <1>7. RequestOK(built, Passed, q)
    <2>1. DOMAIN req[r] = Fields /\ IsRequest(req[r])
      BY RequestIs DEF IsRequest
    <2>2. /\ DOMAIN q = Fields /\ q.at = "roadmap" /\ q.ur = NoRoadmap /\ q.spot = <<0, 0>>
          /\ q.phases = req[r].phases /\ q.rows = req[r].rows /\ q.answer = req[r].answer
      BY <1>5, <2>1 DEF Fields
    <2>3. IsRequest(q)
      BY <2>1, <2>2 DEF IsRequest, NoRoadmap, NoPhase, Position
    <2>4. q.rows = NoRows /\ AnswerOK(built, q.answer)
      BY <1>1, <1>2, <2>2 DEF RequestOK, RowsOK
    <2> QED BY <2>2, <2>3, <2>4 DEF RequestOK, ReadOK, RowsOK, BuildOK, Building
  <1>8. ~Building(q)
    BY <1>5, RequestIs DEF IsRequest, Fields, Building
  <1>9. RequestsOK(built, Passed, req')
    BY <1>2, <1>6, <1>7, <1>8, OneQuiet DEF ServiceInv
  <1> QED BY <1>1, <1>4, <1>9 DEF ServiceInv

(* An answer: the request has nothing else left.                            *)
LEMMA RespondOK ==
  ASSUME NEW b, Templates(b), NEW e, RequestsOK(b, e, req), NEW r \in Slots,
         NEW a, AnswerOK(b, a), Respond(r, a)
  PROVE  RequestsOK(b, e, req')
  <1>1. PICK blank : blank = Request(req[r].op, "answered", req[r].owner, req[r].node)
    OBVIOUS
  <1>2. RequestOK(b, e, blank) /\ blank.at = "answered" /\ DOMAIN blank = Fields
    <2>1. RequestOK(b, e, blank) /\ blank.at = "answered"
      BY <1>1, NewRequest
    <2> QED BY <2>1 DEF RequestOK, IsRequest
  <1>3. PICK q : q = [blank EXCEPT !.answer = a]
    OBVIOUS
  <1>4. req' = [req EXCEPT ![r] = q]
    BY <1>1, <1>3 DEF Respond
  <1>5. /\ DOMAIN q = Fields /\ q.at = "answered" /\ q.ur = blank.ur /\ q.spot = blank.spot
        /\ q.phases = blank.phases /\ q.rows = blank.rows /\ q.answer = a
    BY <1>2, <1>3 DEF Fields
  <1>6. IsRequest(q)
    BY <1>2, <1>5 DEF RequestOK, IsRequest
  <1>7. q.rows = NoRows
    BY <1>2, <1>5 DEF RequestOK, RowsOK
  <1>8. RequestOK(b, e, q)
    BY <1>5, <1>6, <1>7 DEF RequestOK, ReadOK, RowsOK, BuildOK, Building
  <1>9. ~Building(q)
    BY <1>5 DEF Building
  <1> QED BY <1>4, <1>8, <1>9, OneQuiet

LEMMA NoAnswerOK ==
  ASSUME NEW b, NEW ok
  PROVE  AnswerOK(b, NoAnswer) /\ AnswerOK(b, [NoAnswer EXCEPT !.ok = ok])
  BY DEF AnswerOK, NoAnswer

LEMMA QuietOK ==
  ASSUME ServiceInv, UNCHANGED <<ur, built, progress, earned, short>>, RequestsOK(built, Passed, req')
  PROVE  ServiceInv'
  BY DEF ServiceInv, Passed

LEMMA FailOK ==
  ASSUME ServiceInv, NEW r \in Slots, Fail(r)
  PROVE  ServiceInv'
  <1>1. PICK ok : Respond(r, [NoAnswer EXCEPT !.ok = ok])
    BY DEF Fail
  <1>2. RequestsOK(built, Passed, req')
    BY <1>1, NoAnswerOK, RespondOK DEF ServiceInv
  <1> QED BY <1>2, QuietOK DEF Fail

LEMMA NoPhasesFoundOK ==
  ASSUME ServiceInv, NEW r \in Slots, NoPhasesFound(r)
  PROVE  ServiceInv'
  <1>1. PICK ok : Respond(r, [NoAnswer EXCEPT !.ok = ok])
    BY DEF NoPhasesFound
  <1>2. RequestsOK(built, Passed, req')
    BY <1>1, NoAnswerOK, RespondOK DEF ServiceInv
  <1> QED BY <1>2, QuietOK DEF NoPhasesFound

LEMMA GetUserRoadmapOK ==
  ASSUME ServiceInv, NEW r \in Slots, GetUserRoadmap(r)
  PROVE  ServiceInv'
  <1>1. PICK q : q = [req[r] EXCEPT !.at = "template"]
    OBVIOUS
  <1>2. req' = [req EXCEPT ![r] = q] /\ req[r].at = "roadmap"
    BY <1>1, RequestIs DEF GetUserRoadmap
  <1>3. RequestOK(built, Passed, req[r]) /\ DOMAIN req[r] = Fields /\ IsRequest(req[r])
    BY RequestIs DEF IsRequest
  <1>4. /\ DOMAIN q = Fields /\ q.at = "template" /\ q.ur = req[r].ur /\ q.spot = req[r].spot
        /\ q.phases = req[r].phases /\ q.rows = req[r].rows /\ q.answer = req[r].answer
    BY <1>1, <1>3 DEF Fields
  <1>5. IsRequest(q)
    BY <1>3, <1>4 DEF IsRequest
  <1>6. RequestOK(built, Passed, q) /\ ~Building(q)
    BY <1>2, <1>3, <1>4, <1>5 DEF RequestOK, ReadOK, RowsOK, BuildOK, Building
  <1>7. RequestsOK(built, Passed, req')
    BY <1>2, <1>6, OneQuiet DEF ServiceInv
  <1> QED BY <1>7, QuietOK DEF GetUserRoadmap

LEMMA GetTemplatePhasesOK ==
  ASSUME ServiceInv, NEW r \in Slots, GetTemplatePhases(r)
  PROVE  ServiceInv'
  <1>0. PICK g : g = ur.template
    OBVIOUS
  <1>1. PICK m, read :
          /\ m \in 1..Len(built[g])
          /\ \/ read = ur /\ ur.phase[1] = g /\ ur.phase[2] <= m
             \/ read = [ur EXCEPT !.phase = <<g, 1>>]
          /\ ur' = ur \/ ur' = read
          /\ req' = [req EXCEPT ![r].at = "progress", ![r].phases = m, ![r].ur = read]
    BY <1>0, ZenonT(40) DEF GetTemplatePhases
  <1>2. /\ req[r].at = "roadmap" /\ ur # NoRoadmap
        /\ UNCHANGED <<built, progress, Passed>>
    BY DEF GetTemplatePhases, Passed
  <1>3. Templates(built) /\ PositionOK(built, Passed, ur) /\ RequestOK(built, Passed, req[r])
    BY RequestIs DEF ServiceInv
  <1>4. /\ ur \in Position /\ g \in 1..Len(built) /\ Len(built) \in Nat
        /\ (Len(built) > 0 => ur.template > 0)
    BY <1>0, <1>2, <1>3 DEF PositionOK, Position, Templates
  <1>5. Len(built[g]) \in Nat
    BY <1>3, <1>4, SizeOf
  <1>6. /\ read \in Position /\ read.template = g /\ read.phase[1] = g
        /\ read.phase[2] \in 1..Len(built[g]) /\ EarnedBefore(Passed, read.phase)
    <2>1. CASE read = ur /\ ur.phase[1] = g
      BY <1>0, <1>3, <1>4, <2>1 DEF PositionOK
    <2>2. CASE read = [ur EXCEPT !.phase = <<g, 1>>]
      <3>1. read = [template |-> g, phase |-> <<g, 1>>]
        BY <1>0, <1>4, <2>2 DEF Position
      <3>2. read \in Position /\ read.template = g /\ read.phase[1] = g /\ read.phase[2] = 1
        BY <1>4, <3>1 DEF Position
      <3> QED BY <1>1, <1>5, <3>2 DEF EarnedBefore
    <2> QED BY <1>1, <2>1, <2>2
  <1>7. PositionOK(built, Passed, ur')
    <2>1. PositionOK(built, Passed, read)
      BY <1>4, <1>6 DEF PositionOK
    <2> QED BY <1>1, <1>3, <2>1
  <1>8. PICK q : q = [req[r] EXCEPT !.at = "progress", !.phases = m, !.ur = read]
    OBVIOUS
  <1>9. req' = [req EXCEPT ![r] = q]
    BY <1>1, <1>8, RequestIs
  <1>10. RequestOK(built, Passed, q) /\ ~Building(q)
    <2>1. DOMAIN req[r] = Fields /\ IsRequest(req[r])
      BY RequestIs DEF IsRequest
    <2>2. /\ DOMAIN q = Fields /\ q.at = "progress" /\ q.ur = read /\ q.spot = req[r].spot
          /\ q.phases = m /\ q.rows = req[r].rows /\ q.answer = req[r].answer
      BY <1>8, <2>1 DEF Fields
    <2>3. IsRequest(q)
      BY <1>1, <1>5, <1>6, <2>1, <2>2 DEF IsRequest
    <2>4. q.rows = NoRows /\ AnswerOK(built, q.answer)
      BY <1>2, <1>3, <2>2 DEF RequestOK, RowsOK
    <2>5. ReadOK(built, Passed, q)
      BY <1>1, <1>4, <1>5, <1>6, <2>2 DEF ReadOK
    <2> QED BY <2>2, <2>3, <2>4, <2>5 DEF RequestOK, RowsOK, BuildOK, Building
  <1>11. RequestsOK(built, Passed, req')
    BY <1>3, <1>9, <1>10, OneQuiet DEF ServiceInv
  <1> QED BY <1>2, <1>7, <1>11 DEF ServiceInv

(* A read that fails returns rows that are there.                           *)
LEMMA SomeAreRows ==
  ASSUME NEW rows \in [Nodes -> Status], NEW g, NEW some \in SomeRows(g, rows)
  PROVE  some \in [Nodes -> Status] /\ \A x \in Nodes : some[x] \in {"none", rows[x]}
  <1>1. PICK S : some = [x \in Nodes |-> IF x \in S THEN rows[x] ELSE "none"]
    BY DEF SomeRows
  <1> QED BY <1>1 DEF Status

LEMMA GetUserNodeProgressesOK ==
  ASSUME ServiceInv, NEW r \in Slots, GetUserNodeProgresses(r)
  PROVE  ServiceInv'
  <1>1. RequestOK(built, Passed, req[r]) /\ DOMAIN req[r] = Fields /\ IsRequest(req[r])
    BY RequestIs DEF IsRequest
  <1>2. req[r].at = "progress" /\ UNCHANGED <<ur, built, progress, earned, short>>
    BY DEF GetUserNodeProgresses
  <1>3. PICK q, rows : /\ \/ q = [req[r] EXCEPT !.at = "nodes", !.rows = rows]
                          \/ q = [req[r] EXCEPT !.at = "nodes", !.rows = rows, !.blind = TRUE]
                       /\ rows = progress \/ rows \in SomeRows(req[r].ur.template, progress)
                       /\ req' = [req EXCEPT ![r] = q]
    <2>1. CASE req' = [req EXCEPT ![r].at = "nodes", ![r].rows = progress]
      <3>1. req' = [req EXCEPT ![r] = [req[r] EXCEPT !.at = "nodes", !.rows = progress]]
        BY <2>1, RequestIs
      <3> QED BY <3>1
    <2>2. CASE \E rows \in SomeRows(req[r].ur.template, progress) :
                 req' = [req EXCEPT ![r].at = "nodes", ![r].rows = rows, ![r].blind = TRUE]
      <3>1. PICK rows \in SomeRows(req[r].ur.template, progress) :
              req' = [req EXCEPT ![r].at = "nodes", ![r].rows = rows, ![r].blind = TRUE]
        BY <2>2
      <3>2. req' = [req EXCEPT ![r] =
                      [req[r] EXCEPT !.at = "nodes", !.rows = rows, !.blind = TRUE]]
        BY <3>1, RequestIs
      <3> QED BY <3>1, <3>2
    <2> QED BY <2>1, <2>2 DEF GetUserNodeProgresses
  <1>4. /\ progress \in [Nodes -> Status] /\ EarnedNow(built, progress) \subseteq Passed
        /\ \A x \in Nodes : progress[x] # "none" => BuiltIn(built, x)
    BY DEF ServiceInv, ProgressOK
  <1>5. rows \in [Nodes -> Status] /\ \A x \in Nodes : rows[x] \in {"none", progress[x]}
    BY <1>3, <1>4, SomeAreRows
  <1>6. /\ DOMAIN q = Fields /\ q.at = "nodes" /\ q.ur = req[r].ur /\ q.spot = req[r].spot
        /\ q.phases = req[r].phases /\ q.answer = req[r].answer /\ q.rows = rows
    BY <1>1, <1>3 DEF Fields
  <1>7. IsRequest(q)
    BY <1>1, <1>5, <1>6 DEF IsRequest
  <1>8. ReadOK(built, Passed, q)
    BY <1>1, <1>2, <1>6 DEF RequestOK, ReadOK
  <1>9. PICK g : g = q.ur.template
    OBVIOUS
  <1>10. g \in 1..Len(built) /\ q.phases \in Nat /\ q.phases <= Len(built[g]) /\ Templates(built)
    BY <1>6, <1>7, <1>8, <1>9 DEF ReadOK, IsRequest, ServiceInv
  <1>11. RowsOK(built, Passed, q)
    <2>1. \A x \in Nodes : isNodeSettled(rows[x]) => isNodeSettled(progress[x])
      BY <1>5 DEF isNodeSettled
    <2>2. \A x \in Nodes : isNodeSettled(q.rows[x]) => BuiltIn(built, x)
      BY <1>4, <1>6, <2>1 DEF isNodeSettled
    <2>3. EarnedNow(built, rows) \subseteq Passed
      BY <1>4, <1>10, <2>1, FewerSettled
    <2>4. ASSUME NEW p \in 1..(q.phases - 1), AllMastered(q.rows, g, p, built[g][p])
          PROVE  <<g, p>> \in Passed
      <3>1. Len(built[g]) \in Nat /\ Len(built[g]) <= Len(Size)
        BY <1>10, SizeOf
      <3>2. p \in 1..Len(built[g]) /\ p < Len(built[g]) /\ p \in Phases
        BY <1>10, <3>1, Sizes
      <3>3. PICK n : n = built[g][p]
        OBVIOUS
      <3>4. n > 0 /\ \A j \in 1..n : isNodeSettled(rows[<<g, p, j>>])
        BY <1>6, <2>4, <3>3 DEF AllMastered
      <3>5. PICK x : x = <<g, p>>
        OBVIOUS
      <3>6. x \in (1..Len(built)) \X Phases /\ x[1] = g /\ x[2] = p
        BY <1>10, <3>2, <3>5
      <3>7. x \in EarnedNow(built, rows)
        BY <3>2, <3>3, <3>4, <3>6 DEF EarnedNow
      <3> QED BY <2>3, <3>5, <3>7
    <2> QED BY <1>6, <1>9, <2>2, <2>4 DEF RowsOK
  <1>12. RequestOK(built, Passed, q) /\ ~Building(q)
    BY <1>1, <1>6, <1>7, <1>8, <1>11 DEF RequestOK, BuildOK, Building
  <1>13. RequestsOK(built, Passed, req')
    BY <1>3, <1>10, <1>12, OneQuiet DEF ServiceInv
  <1> QED BY <1>2, <1>13, QuietOK

(* What is answered of a section, cut short or not, are nodes built.        *)
LEMMA SectionOK ==
  ASSUME NEW b, NEW g \in 1..Len(b), NEW p \in 1..Len(b[g]), NEW n, n <= b[g][p],
         b[g][p] \in Nat, n \in Nat,
         NEW rows, NEW blind
  PROVE  AnswerOK(b, Section(g, p, n, rows, blind))
  <1>1. PICK a : a = Section(g, p, n, rows, blind)
    OBVIOUS
  <1>2. a.gen = g /\ a.phase = p /\ DOMAIN a.status = 1..n
    BY <1>1 DEF Section
  <1>3. \A j \in 1..n : BuiltIn(b, <<g, p, j>>)
    BY DEF BuiltIn
  <1> QED BY <1>1, <1>2, <1>3 DEF AnswerOK

LEMMA GetPhaseNodesOK ==
  ASSUME ServiceInv, NEW r \in Slots, GetPhaseNodes(r)
  PROVE  ServiceInv'
  <1>0. PICK g, p, n : g = req[r].ur.template /\ p = req[r].ur.phase[2] /\ n = built[g][p]
    OBVIOUS
  <1>1. RequestOK(built, Passed, req[r]) /\ DOMAIN req[r] = Fields /\ IsRequest(req[r])
    BY RequestIs DEF IsRequest
  <1>2. PICK m \in 0..n :
          \/ /\ AllMastered(req[r].rows, g, p, m) /\ p < req[r].phases
             /\ req' = [req EXCEPT ![r].at = "unlock", ![r].ur.phase = <<g, p + 1>>]
             /\ ur' = ur \/ ur' = [ur EXCEPT !.phase = <<g, p + 1>>]
             /\ short' = IF m < n THEN short \cup {<<g, p>>} ELSE short
          \/ /\ Respond(r, Section(g, p, m, req[r].rows, req[r].blind))
             /\ UNCHANGED <<ur, short>>
    BY <1>0, ZenonT(40) DEF GetPhaseNodes
  <1>3. req[r].at = "nodes" /\ UNCHANGED <<built, progress, earned>>
    BY DEF GetPhaseNodes
  <1>4. /\ g \in 1..Len(built) /\ req[r].ur.phase[1] = g /\ p \in 1..Len(built[g])
        /\ req[r].phases <= Len(built[g]) /\ EarnedBefore(Passed, req[r].ur.phase)
    BY <1>0, <1>1, <1>3 DEF RequestOK, ReadOK
  <1>5. /\ Templates(built) /\ RequestsOK(built, Passed, req) /\ PositionOK(built, Passed, ur)
        /\ ProgressOK(built, Passed, progress) /\ Grows(built, built)
    BY Same DEF ServiceInv
  <1>6. /\ Len(built[g]) \in Nat /\ p \in Nat /\ req[r].phases \in Nat /\ Len(built) \in Nat
        /\ n \in Nat /\ m \in Nat /\ m <= n
    <2>1. n \in Nat
      BY <1>0, <1>4, <1>5, SizeOf
    <2> QED BY <1>1, <1>4, <1>5, <2>1, SizeOf DEF IsRequest
  <1>7. CASE /\ Respond(r, Section(g, p, m, req[r].rows, req[r].blind))
             /\ UNCHANGED <<ur, short>>
    <2>1. AnswerOK(built, Section(g, p, m, req[r].rows, req[r].blind))
      BY <1>0, <1>4, <1>6, SectionOK
    <2>2. RequestsOK(built, Passed, req')
      BY <1>5, <1>7, <2>1, RespondOK
    <2> QED BY <1>3, <1>7, <2>2, QuietOK
  <1>8. CASE /\ AllMastered(req[r].rows, g, p, m) /\ p < req[r].phases
             /\ req' = [req EXCEPT ![r].at = "unlock", ![r].ur.phase = <<g, p + 1>>]
             /\ ur' = ur \/ ur' = [ur EXCEPT !.phase = <<g, p + 1>>]
             /\ short' = IF m < n THEN short \cup {<<g, p>>} ELSE short
    <2>0. Passed \subseteq Passed'
      BY <1>3, <1>8 DEF Passed
    <2>1. <<g, p>> \in Passed'
      <3>1. CASE m < n
        BY <1>8, <3>1 DEF Passed
      <3>2. CASE m = n
        <4>1. p \in 1..(req[r].phases - 1)
          BY <1>4, <1>6, <1>8
        <4>2. RowsOK(built, Passed, req[r])
          BY <1>1 DEF RequestOK
        <4>3. AllMastered(req[r].rows, g, p, built[g][p])
          BY <1>0, <1>8, <3>2
        <4> QED BY <1>0, <1>3, <2>0, <4>1, <4>2, <4>3 DEF RowsOK
      <3> QED BY <1>6, <3>1, <3>2
    <2>2. p + 1 \in 1..Len(built[g])
      BY <1>4, <1>6, <1>8
    <2>3. PICK ph : ph = <<g, p + 1>>
      OBVIOUS
    <2>4. ph \in Nat \X Nat /\ ph[1] = g /\ ph[2] = p + 1
      BY <1>4, <1>6, <2>3
    <2>5. EarnedBefore(Passed', ph)
      <3>1. \A k \in 1..((p + 1) - 1) : k \in 1..(p - 1) \/ k = p
        BY <1>6
      <3> QED BY <1>0, <1>4, <2>0, <2>1, <2>4, <3>1 DEF EarnedBefore
    <2>6. PositionOK(built, Passed', ur')
      <3>1. PositionOK(built, Passed', ur)
        BY <1>5, <2>0, GrowPosition DEF PositionOK
      <3>2. CASE ur' = [ur EXCEPT !.phase = <<g, p + 1>>]
        <4>1. ur \in Position
          BY <1>5 DEF PositionOK
        <4>2. ur' = [template |-> ur.template, phase |-> ph]
          BY <2>3, <3>2, <4>1 DEF Position
        <4>3. ur' \in Position /\ ur'.template = ur.template /\ ur'.phase = ph
          BY <2>4, <4>1, <4>2 DEF Position
        <4> QED BY <1>4, <1>5, <1>6, <2>2, <2>4, <2>5, <4>3 DEF PositionOK
      <3> QED BY <1>8, <3>1, <3>2
    <2>7. PICK u : u = [template |-> g, phase |-> ph]
      OBVIOUS
    <2>8. u \in Position /\ u.template = g /\ u.phase = ph
      BY <1>4, <1>6, <2>4, <2>7 DEF Position
    <2>9. req[r].ur \in Position
      BY <1>1 DEF IsRequest
    <2>10. [req[r].ur EXCEPT !.phase = ph] = u
      BY <1>0, <2>7, <2>9 DEF Position
    <2>11. PICK q : q = [req[r] EXCEPT !.at = "unlock", !.ur = u]
      OBVIOUS
    <2>12. req' = [req EXCEPT ![r] = q]
      <3>1. [req[r] EXCEPT !.at = "unlock", !.ur.phase = ph] = q
        BY <1>1, <2>10, <2>11 DEF Fields
      <3> QED BY <1>8, <2>3, <3>1, RequestIs
    <2>13. /\ DOMAIN q = Fields /\ q.at = "unlock" /\ q.ur = u /\ q.spot = req[r].spot
           /\ q.phases = req[r].phases /\ q.rows = req[r].rows /\ q.answer = req[r].answer
      BY <1>1, <2>11 DEF Fields
    <2>14. IsRequest(q)
      BY <1>1, <2>8, <2>13 DEF IsRequest
    <2>15. ReadOK(built, Passed', q)
      BY <1>4, <2>2, <2>4, <2>5, <2>8, <2>13 DEF ReadOK
    <2>16. RequestOK(built, Passed', q) /\ ~Building(q)
      BY <1>1, <2>13, <2>14, <2>15 DEF RequestOK, RowsOK, BuildOK, Building
    <2>17. RequestsOK(built, Passed', req)
      BY <1>5, <2>0, GrowRequest DEF RequestsOK
    <2>18. RequestsOK(built, Passed', req')
      BY <1>5, <2>12, <2>16, <2>17, OneQuiet
    <2>19. ProgressOK(built, Passed', progress)
      BY <1>5, <2>0, GrowProgress DEF ProgressOK
    <2> QED BY <1>3, <1>5, <2>6, <2>18, <2>19 DEF ServiceInv
  <1> QED BY <1>2, <1>7, <1>8

LEMMA UnlockSectionOK ==
  ASSUME ServiceInv, NEW r \in Slots, UnlockSection(r)
  PROVE  ServiceInv'
  <1>0. PICK g, p : g = req[r].ur.template /\ p = req[r].ur.phase[2]
    OBVIOUS
  <1>1. req[r].at = "unlock" /\ UNCHANGED <<ur, built, Passed>>
    BY DEF UnlockSection, Passed
  <1>2. PICK m, S :
          /\ m \in 0..built[g][p] /\ S \subseteq 1..m
          /\ progress' = [x \in Nodes |->
               IF x[1] = g /\ x[2] = p /\ x[3] \in S THEN "unlocked" ELSE progress[x]]
          /\ \E rows, lost : Respond(r, Section(g, p, m, rows, lost))
    <2>1. PICK m \in 0..built[req[r].ur.template][req[r].ur.phase[2]] :
            \E S \in SUBSET {j \in (IF rule[req[r].ur.template] = "gated" THEN {1} ELSE 1..m) \cap 1..m :
                       req[r].rows[<<req[r].ur.template, req[r].ur.phase[2], j>>] \in {"none", "locked"}},
               lost \in BOOLEAN :
              /\ progress' = [x \in Nodes |->
                   IF x[1] = req[r].ur.template /\ x[2] = req[r].ur.phase[2] /\ x[3] \in S
                   THEN "unlocked" ELSE progress[x]]
              /\ \E rows : Respond(r, Section(req[r].ur.template, req[r].ur.phase[2], m, rows, lost))
      BY ZenonT(40) DEF UnlockSection
    <2>2. m \in 0..built[g][p]
      BY <1>0
    <2>3. PICK locked :
            \E S \in SUBSET {j \in locked \cap 1..m :
                       req[r].rows[<<req[r].ur.template, req[r].ur.phase[2], j>>] \in {"none", "locked"}},
               lost \in BOOLEAN :
              /\ progress' = [x \in Nodes |->
                   IF x[1] = req[r].ur.template /\ x[2] = req[r].ur.phase[2] /\ x[3] \in S
                   THEN "unlocked" ELSE progress[x]]
              /\ \E rows : Respond(r, Section(req[r].ur.template, req[r].ur.phase[2], m, rows, lost))
      BY <2>1, Zenon
    <2>4. PICK S, lost :
            /\ S \subseteq 1..m
            /\ progress' = [x \in Nodes |->
                 IF x[1] = g /\ x[2] = p /\ x[3] \in S THEN "unlocked" ELSE progress[x]]
            /\ \E rows : Respond(r, Section(g, p, m, rows, lost))
      BY <1>0, <2>3
    <2> QED BY <2>2, <2>4
  <1>3. RequestOK(built, Passed, req[r]) /\ Templates(built) /\ RequestsOK(built, Passed, req)
    BY RequestIs DEF ServiceInv
  <1>4. g \in 1..Len(built) /\ p \in 1..Len(built[g]) /\ built[g][p] \in Nat
    <2>1. g \in 1..Len(built) /\ p \in 1..Len(built[g])
      BY <1>0, <1>1, <1>3 DEF RequestOK, ReadOK
    <2> QED BY <1>3, <2>1, SizeOf
  <1>5. RequestsOK(built, Passed, req')
    <2>1. m \in Nat /\ m <= built[g][p]
      BY <1>2, <1>4
    <2>2. \A rows, lost : AnswerOK(built, Section(g, p, m, rows, lost))
      BY <1>4, <2>1, SectionOK
    <2> QED BY <1>2, <1>3, <2>2, RespondOK
  <1>6. /\ progress \in [Nodes -> Status] /\ EarnedNow(built, progress) \subseteq Passed
        /\ \A x \in Nodes : progress[x] # "none" => BuiltIn(built, x)
    BY DEF ServiceInv, ProgressOK
  <1>7. progress' \in [Nodes -> Status]
    BY <1>2, <1>6 DEF Status
  <1>8. \A x \in Nodes : progress'[x] # "none" => BuiltIn(built, x)
    <2> SUFFICES ASSUME NEW x \in Nodes, progress'[x] # "none" PROVE BuiltIn(built, x)
      OBVIOUS
    <2>1. CASE x[1] = g /\ x[2] = p /\ x[3] \in S
      <3>1. m \in Nat /\ m <= built[g][p]
        BY <1>2, <1>4
      <3>3. x[3] \in 1..m
        BY <1>2, <2>1, Zenon
      <3>2. x[3] \in 1..built[g][p]
        BY <1>4, <3>1, <3>3
      <3> QED BY <1>4, <2>1, <3>2 DEF BuiltIn
    <2>2. CASE ~(x[1] = g /\ x[2] = p /\ x[3] \in S)
      BY <1>2, <1>6, <2>2
    <2> QED BY <2>1, <2>2
  <1>9. \A x \in Nodes : isNodeSettled(progress'[x]) => isNodeSettled(progress[x])
    BY <1>2 DEF isNodeSettled
  <1>10. ProgressOK(built, Passed, progress')
    BY <1>3, <1>6, <1>7, <1>8, <1>9, FewerSettled DEF ProgressOK
  <1> QED BY <1>1, <1>5, <1>10 DEF ServiceInv

LEMMA CompleteNodeOK ==
  ASSUME ServiceInv, NEW r \in Slots, CompleteNode(r)
  PROVE  ServiceInv'
  <1>0. PICK x : x = req[r].node
    OBVIOUS
  <1>1. /\ req[r].at = "settle" /\ progress' = [progress EXCEPT ![x] = "mastered"]
        /\ \E ok : Respond(r, [NoAnswer EXCEPT !.ok = ok])
        /\ UNCHANGED <<ur, built>> /\ Passed' = Passed \cup EarnedNow(built, progress')
    BY <1>0 DEF CompleteNode, Remember, Passed
  <1>2. /\ Templates(built) /\ Grows(built, built) /\ PositionOK(built, Passed, ur)
        /\ RequestsOK(built, Passed, req) /\ RequestOK(built, Passed, req[r])
    BY RequestIs, Same DEF ServiceInv
  <1>3. PICK d : d = Passed \cup EarnedNow(built, progress')
    OBVIOUS
  <1>4. Passed' = d /\ Passed \subseteq d
    BY <1>1, <1>3
  <1>5. PositionOK(built, d, ur)
    BY <1>2, <1>4, GrowPosition DEF PositionOK
  <1>6. RequestsOK(built, d, req)
    BY <1>2, <1>4, GrowRequest DEF RequestsOK
  <1>7. RequestsOK(built, d, req')
    BY <1>1, <1>2, <1>6, NoAnswerOK, RespondOK
  <1>8. ProgressOK(built, d, progress')
    <2>1. progress \in [Nodes -> Status] /\ \A y \in Nodes : progress[y] # "none" => BuiltIn(built, y)
      BY DEF ServiceInv, ProgressOK
    <2>2. BuiltIn(built, x)
      BY <1>0, <1>1, <1>2 DEF RequestOK
    <2>3. progress' \in [Nodes -> Status]
      BY <1>1, <2>1 DEF Status
    <2>4. \A y \in Nodes : progress'[y] # "none" => BuiltIn(built, y)
      BY <1>1, <2>1, <2>2
    <2> QED BY <1>3, <2>3, <2>4 DEF ProgressOK
  <1> QED BY <1>1, <1>2, <1>4, <1>5, <1>7, <1>8 DEF ServiceInv

LEMMA ServeOK ==
  ASSUME ServiceInv, NEW r \in Slots, Serve(r) \/ Fail(r)
  PROVE  ServiceInv' /\ Grows(built, built')
  <1>1. CASE CreateTemplate(r) \/ CreatePhase(r) \/ CreateNode(r)
    BY <1>1, CreateTemplateOK, CreatePhaseOK, CreateNodeOK
  <1>2. CASE CreateUserNodeProgress(r) \/ SkipNode(r) \/ UpdateUserRoadmapPhase(r) \/ GetUserRoadmap(r) \/ GetTemplatePhases(r)
             \/ NoPhasesFound(r) \/ GetUserNodeProgresses(r) \/ GetPhaseNodes(r)
             \/ UnlockSection(r) \/ CompleteNode(r) \/ Fail(r)
    <2>1. UNCHANGED built
      BY <1>2 DEF CreateUserNodeProgress, SkipNode, UpdateUserRoadmapPhase, GetUserRoadmap, GetTemplatePhases,
         NoPhasesFound, GetUserNodeProgresses, GetPhaseNodes, UnlockSection, CompleteNode, Fail
    <2>2. Grows(built, built')
      BY <2>1, Same DEF ServiceInv
    <2>3. ServiceInv'
      BY <1>2, CreateUserNodeProgressOK, SkipNodeOK, UpdateUserRoadmapPhaseOK, GetUserRoadmapOK, GetTemplatePhasesOK,
         NoPhasesFoundOK, GetUserNodeProgressesOK, GetPhaseNodesOK, UnlockSectionOK,
         CompleteNodeOK, FailOK
    <2> QED BY <2>2, <2>3
  <1> QED BY <1>1, <1>2 DEF Serve

-----------------------------------------------------------------------------
(* Steps of the pages: they send requests, take answers away and change who *)
(* waits for one                                                            *)

LEMMA NotThere ==
  ASSUME NEW b, NEW e, NEW rq, RequestsOK(b, e, rq), NEW r, r \notin Slots, NEW q
  PROVE  [rq EXCEPT ![r] = q] = rq
  BY DEF RequestsOK

LEMMA Sends ==
  ASSUME NEW b, Templates(b), NEW e, NEW rq, RequestsOK(b, e, rq), NEW r,
         NEW op, NEW at, NEW owner, NEW n,
         at \in {"idle", "roadmap", "template", "answered", "settle"},
         at = "settle" => BuiltIn(b, n)
  PROVE  RequestsOK(b, e, [rq EXCEPT ![r] = Request(op, at, owner, n)])
  <1>1. PICK q : q = Request(op, at, owner, n)
    OBVIOUS
  <1>2. RequestOK(b, e, q) /\ ~Building(q)
    <2>1. RequestOK(b, e, q) /\ q.at = at
      BY <1>1, NewRequest
    <2> QED BY <2>1 DEF Building
  <1>3. RequestsOK(b, e, [rq EXCEPT ![r] = q])
    <2>1. CASE r \in Slots BY <1>2, <2>1, OneQuiet
    <2>2. CASE r \notin Slots BY <2>2, NotThere
    <2> QED BY <2>1, <2>2
  <1> QED BY <1>1, <1>3

LEMMA Settles ==
  ASSUME NEW b, Templates(b), NEW e, NEW rq, RequestsOK(b, e, rq), NEW r,
         NEW owner, NEW n, BuiltIn(b, n)
  PROVE  RequestsOK(b, e, [rq EXCEPT ![r] = Request("settle", "settle", owner, n)])
  BY Sends

LEMMA Asks ==
  ASSUME NEW b, Templates(b), NEW e, NEW rq, RequestsOK(b, e, rq), NEW r,
         NEW op, NEW at, NEW owner, NEW n, at = "roadmap" \/ at = "template"
  PROVE  RequestsOK(b, e, [rq EXCEPT ![r] = Request(op, at, owner, n)])
  <1>1. at \in {"idle", "roadmap", "template", "answered", "settle"} /\ at # "settle"
    OBVIOUS
  <1> QED BY <1>1, Sends

LEMMA Takes ==
  ASSUME NEW b, Templates(b), NEW e, NEW rq, RequestsOK(b, e, rq), NEW r
  PROVE  RequestsOK(b, e, [rq EXCEPT ![r] = NoRequest])
  BY Sends DEF NoRequest

LEMMA OwnerOK ==
  ASSUME NEW b, NEW e, NEW q, RequestOK(b, e, q), NEW owner,
         NEW n, n = [q EXCEPT !.owner = owner]
  PROVE  RequestOK(b, e, n) /\ n.at = q.at /\ n.ur = q.ur
  <1>1. DOMAIN q = Fields /\ IsRequest(q)
    BY DEF RequestOK, IsRequest
  <1>2. /\ DOMAIN n = Fields /\ n.at = q.at /\ n.ur = q.ur /\ n.spot = q.spot
        /\ n.phases = q.phases /\ n.rows = q.rows /\ n.answer = q.answer /\ n.node = q.node
    BY <1>1 DEF Fields
  <1>3. IsRequest(n)
    BY <1>1, <1>2 DEF IsRequest
  <1> QED BY <1>2, <1>3 DEF RequestOK, ReadOK, RowsOK, BuildOK, Building

LEMMA OwnersOK ==
  ASSUME NEW b, NEW e, NEW rq, RequestsOK(b, e, rq), NEW new,
         new = [r \in Slots |-> new[r]],
         \A r \in Slots : new[r] = rq[r] \/ \E o : new[r] = [rq[r] EXCEPT !.owner = o]
  PROVE  RequestsOK(b, e, new)
  <1>1. \A r \in Slots : RequestOK(b, e, new[r]) /\ new[r].at = rq[r].at /\ new[r].ur = rq[r].ur
    <2> SUFFICES ASSUME NEW r \in Slots
                 PROVE  RequestOK(b, e, new[r]) /\ new[r].at = rq[r].at /\ new[r].ur = rq[r].ur
      OBVIOUS
    <2>1. RequestOK(b, e, rq[r])
      BY DEF RequestsOK
    <2>2. CASE new[r] = rq[r]
      BY <2>1, <2>2
    <2>3. CASE \E o : new[r] = [rq[r] EXCEPT !.owner = o]
      BY <2>1, <2>3, OwnerOK
    <2> QED BY <2>2, <2>3
  <1> QED BY <1>1 DEF RequestsOK, Building

LEMMA FetchOK ==
  ASSUME NEW b, Templates(b), NEW e, NEW rq, RequestsOK(b, e, rq), NEW q, DataOK(b, q)
  PROVE  RequestsOK(b, e, Fetch(q, rq).rq) /\ DataOK(b, Fetch(q, rq).q)
  <1>1. PICK r, f : r = First(Free(rq)) /\ f = Fetch(q, rq)
    OBVIOUS
  <1>2. /\ f.rq = [rq EXCEPT ![r] = Request("get", "roadmap", "query", NoNode)]
        /\ f.q = [q EXCEPT !.fetch = r, !.tries = 0, !.error = q.error /\ q.data # NoData]
    BY <1>1 DEF Fetch
  <1>3. RequestsOK(b, e, f.rq)
    BY <1>2, Sends
  <1>4. "data" \in DOMAIN f.q /\ f.q.data = q.data
    BY <1>2 DEF DataOK
  <1> QED BY <1>1, <1>3, <1>4 DEF DataOK

LEMMA RefetchOK ==
  ASSUME NEW b, Templates(b), NEW e, NEW rq, RequestsOK(b, e, rq), NEW q, DataOK(b, q)
  PROVE  RequestsOK(b, e, Refetch(q, rq).rq) /\ DataOK(b, Refetch(q, rq).q)
  <1>1. PICK left : left = [rq EXCEPT ![q.fetch].owner = "nobody"]
    OBVIOUS
  <1>2. RequestsOK(b, e, left)
    <2>1. left = [r \in Slots |-> left[r]]
      BY <1>1 DEF RequestsOK
    <2>2. \A r \in Slots : left[r] = rq[r] \/ left[r] = [rq[r] EXCEPT !.owner = "nobody"]
      BY <1>1 DEF RequestsOK
    <2> QED BY <2>1, <2>2, OwnersOK
  <1>3. CASE q.fetch = 0
    BY <1>3, FetchOK DEF Refetch
  <1>4. CASE q.fetch # 0 /\ q.data = NoData
    BY <1>4 DEF Refetch
  <1>5. CASE q.fetch # 0 /\ q.data # NoData
    <2>1. Refetch(q, rq) = Fetch(q, left)
      BY <1>1, <1>5 DEF Refetch
    <2> QED BY <1>2, <2>1, FetchOK
  <1> QED BY <1>3, <1>4, <1>5

LEMMA MountOK ==
  ASSUME NEW b, Templates(b), NEW e, NEW rq, RequestsOK(b, e, rq), NEW q, DataOK(b, q),
         NEW rt, Mount(rt, q, rq)
  PROVE  RequestsOK(b, e, req') /\ DataOK(b, query')
  <1>1. PICK left : left = [r \in Slots |-> IF rq[r].owner = "page"
                                            THEN [rq[r] EXCEPT !.owner = "gone"] ELSE rq[r]]
    OBVIOUS
  <1>2. RequestsOK(b, e, left)
    <2>1. left = [r \in Slots |-> left[r]]
      BY <1>1
    <2>2. \A r \in Slots : left[r] = rq[r] \/ left[r] = [rq[r] EXCEPT !.owner = "gone"]
      BY <1>1
    <2> QED BY <2>1, <2>2, OwnersOK
  <1>3. \/ query' = Fetch(q, left).q /\ req' = Fetch(q, left).rq
        \/ query' = q /\ req' = left
    BY <1>1 DEF Mount
  <1> QED BY <1>2, <1>3, FetchOK

(* What a page step is: the service stands, requests and the query are in   *)
(* order afterwards.                                                        *)
LEMMA PageStep ==
  ASSUME RoadmapInv, UNCHANGED <<ur, built, progress, earned, short>>,
         RequestsOK(built, Passed, req'), DataOK(built, query')
  PROVE  RoadmapInv'
  BY QuietOK DEF RoadmapInv

LEMMA ShownIsBuilt ==
  ASSUME NEW b, DataOK(b, query), NEW n, Found(n)
  PROVE  BuiltIn(b, n)
  <1>1. query.data.gen = n[1] /\ query.data.phase = n[2] /\ n[3] \in DOMAIN query.data.status
    BY DEF Found, Shown
  <1>2. BuiltIn(b, <<n[1], n[2], n[3]>>)
    BY <1>1 DEF DataOK, AnswerOK
  <1> QED BY <1>2 DEF BuiltIn

LEMMA OpenIsBuilt ==
  ASSUME ServiceInv, NEW n \in Nodes, Open(n)
  PROVE  BuiltIn(built, n)
  <1>1. CASE progress[n] = "unlocked"
    BY <1>1 DEF ServiceInv, ProgressOK
  <1>2. CASE n[3] = 1 /\ n[1] \in DOMAIN built /\ n[2] \in DOMAIN built[n[1]] /\ built[n[1]][n[2]] > 0
    <2>1. built \in Seq(Seq(Nat)) /\ Templates(built)
      BY DEF ServiceInv, Templates
    <2>2. n[1] \in 1..Len(built)
      BY <1>2, <2>1
    <2>3. built[n[1]] \in Seq(Nat)
      BY <2>1, <2>2
    <2>4. n[2] \in 1..Len(built[n[1]])
      BY <1>2, <2>3
    <2>5. built[n[1]][n[2]] \in Nat
      BY <2>3, <2>4
    <2> QED BY <1>2, <2>2, <2>4, <2>5 DEF BuiltIn
  <1> QED BY <1>1, <1>2 DEF Open

LEMMA PagesOK ==
  ASSUME RoadmapInv,
         Visit \/ Complete \/ Retry \/ Generate \/ OtherDevice \/ Updated
           \/ TimerFires
  PROVE  RoadmapInv'
  <1>1. Templates(built) /\ RequestsOK(built, Passed, req) /\ DataOK(built, query)
    BY DEF RoadmapInv, ServiceInv
  <1>2. CASE Visit
    BY <1>1, <1>2, MountOK, PageStep DEF Visit
  <1>3. CASE Complete
    <2>1. Found(route.node)
      BY <1>3 DEF Complete, MayComplete, NodeDetailView, TutorialReader, Panel
    <2>2. BuiltIn(built, route.node)
      BY <1>1, <2>1, ShownIsBuilt
    <2>3. PICK r : req' = [req EXCEPT ![r] = Request("settle", "settle", "page", route.node)]
      BY <1>3 DEF Complete
    <2>4. RequestsOK(built, Passed, req')
      BY <1>1, <2>2, <2>3, Settles
    <2> QED BY <1>1, <1>3, <2>4, PageStep DEF Complete
  <1>4. CASE Retry
    <2>1. query' = Refetch(query, req).q /\ req' = Refetch(query, req).rq
      BY <1>4 DEF Retry
    <2>2. RequestsOK(built, Passed, req') /\ DataOK(built, query')
      BY <1>1, <2>1, RefetchOK
    <2> QED BY <1>4, <2>2, PageStep DEF Retry
  <1>5. CASE Generate
    <2>1. PICK r : req' = [req EXCEPT ![r] = Request("generate", "template", "page", NoNode)]
      BY <1>5 DEF Generate
    <2>2. RequestsOK(built, Passed, req')
      BY <1>1, <2>1, Asks
    <2> QED BY <1>1, <1>5, <2>2, PageStep DEF Generate
  <1>6. CASE OtherDevice
    <2>1. PICK r :
            \/ req' = [req EXCEPT ![r] = Request("get", "roadmap", "nobody", NoNode)]
            \/ \E n \in Nodes :
                 /\ Open(n)
                 /\ req' = [req EXCEPT ![r] = Request("settle", "settle", "nobody", n)]
      BY <1>6 DEF OtherDevice
    <2>2. \A n \in Nodes : Open(n) => BuiltIn(built, n)
      BY OpenIsBuilt DEF RoadmapInv
    <2>3. RequestsOK(built, Passed, req')
      BY <1>1, <2>1, <2>2, Asks, Settles
    <2> QED BY <1>1, <1>6, <2>3, PageStep DEF OtherDevice
  <1>7. CASE TimerFires
    <2>1. UNCHANGED <<ur, built, progress, earned, short, req, query>>
      BY <1>7 DEF TimerFires, service
    <2> QED BY <1>1, <2>1, PageStep
  <1>8. CASE Updated
    <2>1. PICK q : q = [query EXCEPT !.invalid = TRUE]
      OBVIOUS
    <2>2. DataOK(built, q)
      <3>1. "data" \in DOMAIN q /\ q.data = query.data
        BY <1>1, <2>1 DEF DataOK
      <3> QED BY <1>1, <3>1 DEF DataOK
    <2>3. \/ query' = Refetch(q, req).q /\ req' = Refetch(q, req).rq
          \/ query' = q /\ req' = req
      BY <1>8, <2>1 DEF Updated
    <2>4. RequestsOK(built, Passed, req') /\ DataOK(built, query')
      BY <1>1, <2>2, <2>3, RefetchOK
    <2> QED BY <1>8, <2>4, PageStep DEF Updated
  <1> QED BY <1>2, <1>3, <1>4, <1>5, <1>6, <1>7, <1>8

LEMMA AnswersOK ==
  ASSUME RoadmapInv, NEW r \in Slots,
         Loaded(r) \/ LoadFails(r) \/ Completed(r) \/ CompleteFails(r) \/ Generated(r) \/ Dropped(r)
  PROVE  RoadmapInv'
  <1>1. Templates(built) /\ RequestsOK(built, Passed, req) /\ DataOK(built, query)
    BY DEF RoadmapInv, ServiceInv
  <1>2. CASE Loaded(r)
    <2>1. /\ query' = [query EXCEPT !.data = req[r].answer, !.error = FALSE, !.invalid = FALSE,
                                    !.fetch = 0, !.tries = 0]
          /\ req' = [req EXCEPT ![r] = NoRequest] /\ UNCHANGED <<ur, built, progress, earned, short>>
      BY <1>2 DEF Loaded
    <2>2. AnswerOK(built, req[r].answer)
      BY <1>1 DEF RequestsOK, RequestOK
    <2>3. DataOK(built, query')
      <3>1. "data" \in DOMAIN query' /\ query'.data = req[r].answer
        BY <1>1, <2>1 DEF DataOK
      <3> QED BY <2>2, <3>1 DEF DataOK
    <2>4. RequestsOK(built, Passed, req')
      BY <1>1, <2>1, Takes
    <2> QED BY <2>1, <2>3, <2>4, PageStep
  <1>3. CASE LoadFails(r)
    <2>1. /\ \/ req' = [req EXCEPT ![r] = NoRequest]
             \/ req' = [req EXCEPT ![r] = Request("get", "roadmap", "query", NoNode)]
          /\ UNCHANGED <<ur, built, progress, earned, short>>
      BY <1>3 DEF LoadFails
    <2>2. RequestsOK(built, Passed, req')
      BY <1>1, <2>1, Takes, Sends
    <2>3. "data" \in DOMAIN query' /\ query'.data = query.data
      BY <1>1, <1>3 DEF LoadFails, DataOK
    <2>4. DataOK(built, query')
      BY <1>1, <2>3 DEF DataOK
    <2> QED BY <2>1, <2>2, <2>4, PageStep
  <1>4. CASE Completed(r)
    <2>1. PICK q, rq : q = [query EXCEPT !.invalid = TRUE] /\ rq = [req EXCEPT ![r] = NoRequest]
      OBVIOUS
    <2>2. DataOK(built, q)
      <3>1. "data" \in DOMAIN q /\ q.data = query.data
        BY <1>1, <2>1 DEF DataOK
      <3> QED BY <1>1, <3>1 DEF DataOK
    <2>3. RequestsOK(built, Passed, rq)
      BY <1>1, <2>1, Takes
    <2>4. \/ query' = Refetch(q, rq).q /\ req' = Refetch(q, rq).rq
          \/ query' = q /\ req' = rq
      BY <1>4, <2>1 DEF Completed
    <2>5. RequestsOK(built, Passed, req') /\ DataOK(built, query')
      BY <1>1, <2>2, <2>3, <2>4, RefetchOK
    <2> QED BY <1>4, <2>5, PageStep DEF Completed
  <1>5. CASE CompleteFails(r)
    <2>1. RequestsOK(built, Passed, req')
      BY <1>1, <1>5, Takes DEF CompleteFails
    <2> QED BY <1>1, <1>5, <2>1, PageStep DEF CompleteFails
  <1>6. CASE Generated(r)
    <2>1. RequestsOK(built, Passed, [req EXCEPT ![r] = NoRequest])
      BY <1>1, Takes
    <2>2. \/ Mount(Route("roadmap", NoNode), query, [req EXCEPT ![r] = NoRequest])
          \/ req' = [req EXCEPT ![r] = NoRequest] /\ query' = query
      BY <1>6 DEF Generated
    <2>3. RequestsOK(built, Passed, req') /\ DataOK(built, query')
      BY <1>1, <2>1, <2>2, MountOK
    <2> QED BY <1>6, <2>3, PageStep DEF Generated
  <1>7. CASE Dropped(r)
    <2>1. RequestsOK(built, Passed, req')
      BY <1>1, <1>7, Takes DEF Dropped
    <2> QED BY <1>1, <1>7, <2>1, PageStep DEF Dropped, tab
  <1> QED BY <1>2, <1>3, <1>4, <1>5, <1>6, <1>7

-----------------------------------------------------------------------------
(* The invariant, and what it is for *)

LEMMA InitOK ==
  ASSUME Init
  PROVE  RoadmapInv
  <1>1. \A r \in Slots : req[r] = NoRequest
    BY DEF Init, ServiceInit
  <1>2. \A b, e : RequestsOK(b, e, req)
    <2>1. req = [r \in Slots |-> req[r]]
      BY DEF Init, ServiceInit
    <2> QED BY <1>1, <2>1, NoRequestOK DEF RequestsOK, Building
  <1>3. "data" \in DOMAIN query
    BY DEF Init
  <1>4. CASE ur = NoRoadmap /\ built = <<>> /\ progress = NoRows
    <2>1. Len(built) = 0 /\ built \in Seq(Seq(Nat))
      BY <1>4
    <2>2. Templates(built)
      BY <2>1, RoadmapAssumption DEF Templates
    <2>3. PositionOK(built, Passed, ur)
      BY <1>4, <2>1 DEF PositionOK, Position, NoRoadmap, NoPhase, EarnedBefore
    <2>4. EarnedNow(built, progress) = {}
      BY <2>1 DEF EarnedNow
    <2>5. ProgressOK(built, Passed, progress)
      BY <1>4, <2>4, NoRowsType DEF ProgressOK
    <2>6. query.data = NoAnswer
      BY <1>4 DEF Init, NoData
    <2> QED BY <1>2, <1>3, <2>2, <2>3, <2>5, <2>6, NoAnswerOK DEF RoadmapInv, ServiceInv, DataOK
  <1>5. CASE /\ ur = [template |-> 1, phase |-> <<1, 1>>] /\ built = <<Size>>
             /\ progress = [n \in Nodes |-> IF n[1] # 1 THEN "none"
                              ELSE IF n = <<1, 1, 1>> THEN "unlocked" ELSE "locked"]
    <2>1. Size \in Seq(Nat) /\ Len(Size) \in Nat \ {0}
      <3>1. Size \in Seq(Nat \ {0})
        BY RoadmapAssumption
      <3> QED BY <3>1, Sizes
    <2>2. built \in Seq(Seq(Nat)) /\ Len(built) = 1 /\ built[1] = Size
      BY <1>5, <2>1
    <2>3. Templates(built)
      BY <2>1, <2>2, RoadmapAssumption, Sizes DEF Templates
    <2>4. PositionOK(built, Passed, ur)
      <3>1. ur \in Position /\ ur.template = 1 /\ ur.phase[1] = 1 /\ ur.phase[2] = 1
        BY <1>5 DEF Position
      <3> QED BY <2>1, <2>2, <3>1 DEF PositionOK, EarnedBefore
    <2>5. progress \in [Nodes -> Status]
      BY <1>5 DEF Status
    <2>6. \A x \in Nodes : progress[x] # "none" => BuiltIn(built, x)
      <3> SUFFICES ASSUME NEW x \in Nodes, progress[x] # "none" PROVE BuiltIn(built, x)
        OBVIOUS
      <3>1. x[1] = 1 /\ x = <<x[1], x[2], x[3]>>
        BY <1>5, NodeIs
      <3>2. x[2] \in 1..Len(Size) /\ x[3] \in 1..Size[x[2]]
        BY <3>1, NodeIs, Sizes
      <3> QED BY <2>2, <3>1, <3>2 DEF BuiltIn
    <2>7. EarnedNow(built, progress) = {}
      <3> SUFFICES ASSUME NEW x \in EarnedNow(built, progress) PROVE FALSE
        OBVIOUS
      <3>1. PICK n : n = built[x[1]][x[2]]
        OBVIOUS
      <3>2. /\ x \in (1..Len(built)) \X Phases /\ n > 0
            /\ \A j \in 1..n : isNodeSettled(progress[<<x[1], x[2], j>>])
        BY <3>1 DEF EarnedNow
      <3>3. x[1] = 1 /\ x[2] \in 1..Len(Size) /\ n = Size[x[2]]
        BY <2>2, <3>1, <3>2, Sizes
      <3>4. 1 \in 1..n /\ 1 \in 1..Generations
        BY <3>2, <3>3, Sizes, RoadmapAssumption
      <3>5. <<1, x[2], 1>> \in Nodes
        BY <3>3, <3>4, NodeIs, Sizes
      <3>6. isNodeSettled(progress[<<1, x[2], 1>>])
        BY <3>2, <3>3, <3>4
      <3> QED BY <1>5, <3>5, <3>6 DEF isNodeSettled
    <2>8. ProgressOK(built, Passed, progress)
      BY <2>5, <2>6, <2>7 DEF ProgressOK
    <2>9. DataOK(built, query)
      <3>1. query.data = Section(1, 1, Size[1], progress, FALSE)
        <4>1. ur # NoRoadmap
          BY <1>5 DEF NoRoadmap
        <4> QED BY <4>1 DEF Init
      <3>2. AnswerOK(built, Section(1, 1, Size[1], progress, FALSE))
        <4>1. /\ 1 \in 1..Len(built) /\ 1 \in 1..Len(built[1]) /\ Size[1] = built[1][1]
              /\ Size[1] \in Nat /\ Size[1] <= built[1][1]
          BY <2>1, <2>2
        <4> QED BY <4>1, SectionOK
      <3> QED BY <1>3, <3>1, <3>2 DEF DataOK
    <2> QED BY <1>2, <2>3, <2>4, <2>8, <2>9 DEF RoadmapInv, ServiceInv
  <1> QED BY <1>4, <1>5 DEF Init, ServiceInit

LEMMA StepOK ==
  ASSUME RoadmapInv, [Next]_vars
  PROVE  RoadmapInv'
  <1>1. CASE Visit \/ Complete \/ Retry \/ Generate \/ OtherDevice \/ Updated
             \/ TimerFires
    BY <1>1, PagesOK
  <1>2. ASSUME NEW r \in Slots, (Serve(r) \/ Fail(r)) /\ UNCHANGED tab
        PROVE  RoadmapInv'
    <2>1. ServiceInv' /\ Grows(built, built')
      BY <1>2, ServeOK DEF RoadmapInv
    <2>2. AnswerOK(built', query.data)
      BY <2>1, GrowAnswer DEF RoadmapInv, DataOK, ServiceInv
    <2>3. "data" \in DOMAIN query' /\ query' = query
      BY <1>2 DEF tab, RoadmapInv, DataOK
    <2> QED BY <2>1, <2>2, <2>3 DEF RoadmapInv, DataOK
  <1>3. ASSUME NEW r \in Slots,
               Loaded(r) \/ LoadFails(r) \/ Completed(r) \/ CompleteFails(r) \/ Generated(r) \/ Dropped(r)
        PROVE  RoadmapInv'
    BY <1>3, AnswersOK
  <1>4. CASE UNCHANGED vars
    <2>1. UNCHANGED <<ur, built, progress, earned, short, req, query>>
      BY <1>4 DEF vars, service, tab
    <2>2. RequestsOK(built, Passed, req') /\ DataOK(built, query')
      BY <2>1 DEF RoadmapInv, ServiceInv
    <2> QED BY <2>1, <2>2, PageStep
  <1> QED BY <1>1, <1>2, <1>3, <1>4 DEF Next, Progress

(* The section a user is in was earned: whatever requests of the pages and  *)
(* of other devices overlap in GetCurrentRoadmap, Generate and CompleteNode *)
(* (service.go), every section before the current one was at some instant   *)
(* complete and settled, node by node, or was left on a list of its nodes   *)
(* that was cut short and taken for all of them (roadmap_repo.go).          *)
THEOREM SectionsAlwaysEarned == Spec => []SectionsEarned
  <1>1. Init => RoadmapInv
    BY InitOK
  <1>2. RoadmapInv /\ [Next]_vars => RoadmapInv'
    BY StepOK
  <1>3. RoadmapInv => SectionsEarned
    <2> SUFFICES ASSUME RoadmapInv, NEW p \in 1..(CurrentSection - 1)
                 PROVE  <<ur.template, p>> \in Passed
      BY DEF SectionsEarned, Passed
    <2>1. EarnedBefore(Passed, ur.phase)
      BY DEF RoadmapInv, ServiceInv, PositionOK
    <2>2. CASE ur.phase[1] = ur.template
      BY <2>1, <2>2 DEF CurrentSection, EarnedBefore
    <2>3. CASE ur.phase[1] # ur.template
      BY <2>3 DEF CurrentSection
    <2> QED BY <2>2, <2>3
  <1> QED BY <1>1, <1>2, <1>3, PTL DEF Spec

-----------------------------------------------------------------------------
(* What the pages show.  A confirmed node is settled on the server unless a *)
(* late upsert took it back.  The fetch the query waits for reads the rows  *)
(* after the confirmation, and what it read says so; so does what is shown  *)
(* while nothing is fetched.  `k` is the set of nodes that were confirmed   *)
(* and not taken back.                                                      *)

QueryFields == {"data", "error", "invalid", "fetch", "tries"}

Settled(rows, und, n) == n \in Nodes /\ (isNodeSettled(rows[n]) \/ n \in und)

ConfirmOK(rows, und, q) ==
  q.op = "settle" =>
    /\ q.node \in Nodes /\ q.at \in {"settle", "answered"}
    /\ q.at = "answered" /\ q.answer.ok => Settled(rows, und, q.node)

Shows(k, a) ==
  ~a.blind => \A j \in DOMAIN a.status :
                <<a.gen, a.phase, j>> \in k => isNodeSettled(a.status[j])

ReadsWell(k, q) ==
  /\ q.at = "nodes" /\ ~q.blind => \A n \in k : isNodeSettled(q.rows[n])
  /\ Shows(k, q.answer)

ClaimsOK(rows, und, cl, rq) ==
  /\ \A n \in cl : Settled(rows, und, n)
  /\ \A r \in Slots : ConfirmOK(rows, und, rq[r])

FetchedOK(k, q, rq) ==
  /\ q.fetch # 0 => /\ q.fetch \in Slots /\ ReadsWell(k, rq[q.fetch])
                    /\ rq[q.fetch].op = "get" /\ rq[q.fetch].owner = "query"
  /\ q.fetch = 0 /\ ~q.error => Shows(k, q.data)

(* A node is completed from a page that shows a roadmap.                    *)
AskedOK(q, rq) ==
  \A r \in Slots : rq[r].op = "settle" /\ rq[r].owner # "nobody" => q.data.ok

TabOK(rows, und, cl, q, rq) ==
  /\ DOMAIN q = QueryFields
  /\ ClaimsOK(rows, und, cl, rq) /\ FetchedOK(cl \ und, q, rq) /\ AskedOK(q, rq)

IsPlace(n) == n = <<n[1], n[2], n[3]>>
RouteOK(rt) == DOMAIN rt = {"at", "node", "lost"} /\ IsPlace(rt.node)

ShowInv == RoadmapInv /\ RouteOK(route) /\ TabOK(progress, undone, claimed, query, req)

(* The least of a set of numbers is one of them.                            *)
LEMMA FirstOf ==
  ASSUME NEW S, S \subseteq Nat, S # {}
  PROVE  First(S) \in S
  <1>1. PICK R : IsWellFoundedOn(R, Nat) /\ R = OpToRel(<, Nat)
    BY NatLessThanWellFounded
  <1>2. R = {ss \in Nat \X Nat : ss[1] < ss[2]}
    BY <1>1 DEF OpToRel
  <1>3. \A x, y \in Nat : <<x, y>> \in R <=> x < y
    BY <1>2
  <1>4. PICK x \in S : \A y \in S : ~(<<y, x>> \in R)
    BY <1>1, WFMin
  <1>5. \A y \in S : x <= y
    <2> SUFFICES ASSUME NEW y \in S PROVE x <= y
      OBVIOUS
    <2>1. x \in Nat /\ y \in Nat
      OBVIOUS
    <2>2. ~(y < x)
      BY <1>3, <1>4, <2>1
    <2> QED BY <2>1, <2>2
  <1> QED BY <1>5 DEF First

LEMMA FreeSlot ==
  ASSUME NEW rq, Free(rq) # {}
  PROVE  First(Free(rq)) \in Slots /\ First(Free(rq)) # 0 /\ rq[First(Free(rq))].op = "none"
  <1>1. Free(rq) \subseteq Slots /\ Slots \subseteq Nat \ {0}
    BY RoadmapAssumption DEF Free
  <1>2. First(Free(rq)) \in Free(rq)
    BY <1>1, FirstOf
  <1> QED BY <1>1, <1>2 DEF Free

LEMMA RequestFields ==
  ASSUME NEW op, NEW at, NEW owner, NEW n
  PROVE  LET q == Request(op, at, owner, n) IN
         /\ q.op = op /\ q.at = at /\ q.owner = owner /\ q.node = n /\ q.answer = NoAnswer
         /\ DOMAIN q = Fields
  BY DEF Request, Fields

LEMMA EmptyShows ==
  ASSUME NEW k, NEW ok
  PROVE  /\ Shows(k, NoAnswer) /\ ~NoAnswer.ok
         /\ Shows(k, [NoAnswer EXCEPT !.ok = ok]) /\ [NoAnswer EXCEPT !.ok = ok].ok = ok
  BY DEF Shows, NoAnswer

LEMMA FewerReads ==
  ASSUME NEW k, NEW l, l \subseteq k, NEW q, ReadsWell(k, q)
  PROVE  ReadsWell(l, q)
  BY DEF ReadsWell, Shows

LEMMA FewerShows ==
  ASSUME NEW k, NEW l, l \subseteq k, NEW a, Shows(k, a)
  PROVE  Shows(l, a)
  BY DEF Shows

-----------------------------------------------------------------------------
(* A step of the server: one request moves, and what it learns is so.       *)

LEMMA OneMoves ==
  ASSUME NEW b, NEW e, NEW rq, RequestsOK(b, e, rq), NEW r \in Slots, NEW m,
         m.op = rq[r].op, m.owner = rq[r].owner,
         NEW rows, NEW und, NEW cl, NEW q, TabOK(rows, und, cl, q, rq),
         NEW rows2, NEW und2, und \subseteq und2,
         \A n : Settled(rows, und, n) => Settled(rows2, und2, n),
         ReadsWell(cl \ und, rq[r]) => ReadsWell(cl \ und2, m),
         ConfirmOK(rows2, und2, m)
  PROVE  TabOK(rows2, und2, cl, q, [rq EXCEPT ![r] = m])
  <1> DEFINE new == [rq EXCEPT ![r] = m]
  <1>1. \A s \in Slots : new[s] = IF s = r THEN m ELSE rq[s]
    BY DEF RequestsOK
  <1> HIDE DEF new
  <1>2. ClaimsOK(rows2, und2, cl, new)
    <2>1. \A n \in cl : Settled(rows2, und2, n)
      BY DEF TabOK, ClaimsOK
    <2>2. \A s \in Slots : ConfirmOK(rows2, und2, rq[s])
      BY DEF TabOK, ClaimsOK, ConfirmOK
    <2> QED BY <1>1, <2>1, <2>2 DEF ClaimsOK
  <1>3. cl \ und2 \subseteq cl \ und
    OBVIOUS
  <1>4. ASSUME q.fetch # 0
        PROVE  /\ q.fetch \in Slots /\ ReadsWell(cl \ und2, new[q.fetch])
               /\ new[q.fetch].op = "get" /\ new[q.fetch].owner = "query"
    <2>1. /\ q.fetch \in Slots /\ ReadsWell(cl \ und, rq[q.fetch])
          /\ rq[q.fetch].op = "get" /\ rq[q.fetch].owner = "query"
      BY <1>4 DEF TabOK, FetchedOK
    <2>2. CASE q.fetch = r
      BY <1>1, <2>1, <2>2
    <2>3. CASE q.fetch # r
      BY <1>1, <1>3, <2>1, <2>3, FewerReads
    <2> QED BY <2>2, <2>3
  <1>5. q.fetch = 0 /\ ~q.error => Shows(cl \ und2, q.data)
    BY <1>3, FewerShows DEF TabOK, FetchedOK
  <1>6. AskedOK(q, new)
    BY <1>1 DEF TabOK, AskedOK
  <1> QED BY <1>2, <1>4, <1>5, <1>6 DEF TabOK, FetchedOK, new

(* ... and settles nothing and takes nothing back.                          *)
LEMMA OneReads ==
  ASSUME NEW b, NEW e, NEW rq, RequestsOK(b, e, rq), NEW r \in Slots, NEW m,
         m.op = rq[r].op, m.owner = rq[r].owner,
         NEW rows, NEW und, NEW cl, NEW q, TabOK(rows, und, cl, q, rq),
         ReadsWell(cl \ und, rq[r]) => ReadsWell(cl \ und, m),
         ConfirmOK(rows, und, m)
  PROVE  TabOK(rows, und, cl, q, [rq EXCEPT ![r] = m])
  BY OneMoves

(* The answer of a request.                                                 *)
LEMMA RespondIs ==
  ASSUME NEW b, NEW e, RequestsOK(b, e, req), NEW r \in Slots, NEW a, Respond(r, a)
  PROVE  \E m : /\ req' = [req EXCEPT ![r] = m]
                /\ m.op = req[r].op /\ m.owner = req[r].owner /\ m.node = req[r].node
                /\ m.at = "answered" /\ m.answer = a
  <1>1. PICK blank : blank = Request(req[r].op, "answered", req[r].owner, req[r].node)
    OBVIOUS
  <1>2. /\ DOMAIN blank = Fields /\ blank.op = req[r].op /\ blank.at = "answered"
        /\ blank.owner = req[r].owner /\ blank.node = req[r].node
    BY <1>1, RequestFields
  <1>3. PICK m : m = [blank EXCEPT !.answer = a]
    OBVIOUS
  <1>4. req' = [req EXCEPT ![r] = m]
    BY <1>1, <1>3 DEF Respond
  <1>5. /\ m.op = req[r].op /\ m.owner = req[r].owner /\ m.node = req[r].node
        /\ m.at = "answered" /\ m.answer = a
    BY <1>2, <1>3 DEF Fields
  <1> QED BY <1>4, <1>5

(* The roadmap is looked for, or built, by a request that is not about a    *)
(* node, and has read nothing.                                              *)
LEMMA BuildersShow ==
  ASSUME ShowInv, NEW r \in Slots,
         \/ CreateTemplate(r) \/ CreatePhase(r) \/ CreateNode(r) \/ SkipNode(r)
         \/ UpdateUserRoadmapPhase(r) \/ GetUserRoadmap(r) \/ GetTemplatePhases(r)
  PROVE  TabOK(progress, undone, claimed, query, req') /\ UNCHANGED <<progress, undone>>
  <1>1. RequestsOK(built, Passed, req) /\ TabOK(progress, undone, claimed, query, req)
    BY DEF ShowInv, RoadmapInv, ServiceInv
  <1>2. PICK old : old = req[r] /\ DOMAIN old = Fields
    BY RequestIs DEF ShowInv, RoadmapInv, IsRequest
  <1>3. PICK m : /\ req' = [req EXCEPT ![r] = m]
                 /\ m.op = old.op /\ m.owner = old.owner /\ m.answer = old.answer
                 /\ m.at \notin {"nodes", "settle", "answered"}
    <2>1. CASE CreateTemplate(r)
      <3>1. PICK t : req' = [req EXCEPT ![r] = [old EXCEPT !.at = "build", !.spot = <<1, 0>>, !.ur = t]]
        BY <1>2, <2>1 DEF CreateTemplate
      <3>2. PICK m : m = [old EXCEPT !.at = "build", !.spot = <<1, 0>>, !.ur = t]
        OBVIOUS
      <3>3. /\ m.op = old.op /\ m.owner = old.owner /\ m.answer = old.answer
            /\ m.at \in {"build", "roadmap", "template", "progress"}
        BY <1>2, <3>2 DEF Fields
      <3>4. req' = [req EXCEPT ![r] = m]
        BY <3>1, <3>2
      <3> QED BY <3>3, <3>4
    <2>2. CASE CreatePhase(r) \/ SkipNode(r)
      <3>1. PICK t : req' = [req EXCEPT ![r] = [old EXCEPT !.spot = t]]
        BY <1>2, <2>2 DEF CreatePhase, SkipNode
      <3>2. PICK m : m = [old EXCEPT !.spot = t]
        OBVIOUS
      <3>3. old.at = "build"
        BY <1>2, <2>2 DEF CreatePhase, SkipNode
      <3>4. /\ m.op = old.op /\ m.owner = old.owner /\ m.answer = old.answer /\ m.at = "build"
        BY <1>2, <3>2, <3>3 DEF Fields
      <3>5. req' = [req EXCEPT ![r] = m]
        BY <3>1, <3>2
      <3> QED BY <3>4, <3>5
    <2>3. CASE UpdateUserRoadmapPhase(r)
      <3>1. req' = [req EXCEPT ![r] = [old EXCEPT !.at = "roadmap", !.spot = <<0, 0>>, !.ur = NoRoadmap]]
        BY <1>2, <2>3 DEF UpdateUserRoadmapPhase
      <3>2. PICK m : m = [old EXCEPT !.at = "roadmap", !.spot = <<0, 0>>, !.ur = NoRoadmap]
        OBVIOUS
      <3>3. /\ m.op = old.op /\ m.owner = old.owner /\ m.answer = old.answer
            /\ m.at \in {"build", "roadmap", "template", "progress"}
        BY <1>2, <3>2 DEF Fields
      <3>4. req' = [req EXCEPT ![r] = m]
        BY <3>1, <3>2
      <3> QED BY <3>3, <3>4
    <2>4. CASE GetUserRoadmap(r)
      <3>1. req' = [req EXCEPT ![r] = [old EXCEPT !.at = "template"]]
        BY <1>2, <2>4 DEF GetUserRoadmap
      <3>2. PICK m : m = [old EXCEPT !.at = "template"]
        OBVIOUS
      <3>3. /\ m.op = old.op /\ m.owner = old.owner /\ m.answer = old.answer
            /\ m.at \in {"build", "roadmap", "template", "progress"}
        BY <1>2, <3>2 DEF Fields
      <3>4. req' = [req EXCEPT ![r] = m]
        BY <3>1, <3>2
      <3> QED BY <3>3, <3>4
    <2>5. CASE GetTemplatePhases(r)
      <3>1. PICK k, t : req' = [req EXCEPT ![r] = [old EXCEPT !.at = "progress", !.phases = k, !.ur = t]]
        <4>1. PICK k, t : req' = [req EXCEPT ![r].at = "progress", ![r].phases = k, ![r].ur = t]
          BY <2>5, ZenonT(40) DEF GetTemplatePhases
        <4> QED BY <1>2, <4>1
      <3>2. PICK m : m = [old EXCEPT !.at = "progress", !.phases = k, !.ur = t]
        OBVIOUS
      <3>3. /\ m.op = old.op /\ m.owner = old.owner /\ m.answer = old.answer
            /\ m.at \in {"build", "roadmap", "template", "progress"}
        BY <1>2, <3>2 DEF Fields
      <3>4. req' = [req EXCEPT ![r] = m]
        BY <3>1, <3>2
      <3> QED BY <3>3, <3>4
    <2>6. CASE CreateNode(r)
      <3>1. req' = [req EXCEPT ![r] = [old EXCEPT !.at = "row"]]
        BY <1>2, <2>6 DEF CreateNode
      <3>2. PICK m : m = [old EXCEPT !.at = "row"]
        OBVIOUS
      <3>3. m.op = old.op /\ m.owner = old.owner /\ m.answer = old.answer /\ m.at = "row"
        BY <1>2, <3>2 DEF Fields
      <3>4. req' = [req EXCEPT ![r] = m]
        BY <3>1, <3>2
      <3> QED BY <3>3, <3>4
    <2> QED BY <2>1, <2>2, <2>3, <2>4, <2>5, <2>6
  <1>4. old.at \notin {"settle", "answered"}
    BY <1>2 DEF CreateTemplate, CreatePhase, CreateNode, SkipNode,
       UpdateUserRoadmapPhase, GetUserRoadmap, GetTemplatePhases
  <1>5. ConfirmOK(progress, undone, m)
    BY <1>1, <1>2, <1>3, <1>4 DEF TabOK, ClaimsOK, ConfirmOK
  <1>6. ReadsWell(claimed \ undone, req[r]) => ReadsWell(claimed \ undone, m)
    BY <1>2, <1>3 DEF ReadsWell
  <1>7. TabOK(progress, undone, claimed, query, req')
    BY <1>1, <1>2, <1>3, <1>5, <1>6, OneReads
  <1>8. UNCHANGED <<progress, undone>>
    BY DEF CreateTemplate, CreatePhase, CreateNode, SkipNode,
       UpdateUserRoadmapPhase, GetUserRoadmap, GetTemplatePhases
  <1> QED BY <1>7, <1>8

(* What a late upsert takes back is in `undone`.                            *)
LEMMA TakenBack ==
  ASSUME TakeBack
  PROVE  /\ undone \subseteq undone'
         /\ \A n : Settled(progress, undone, n) => Settled(progress', undone', n)
  BY DEF TakeBack, Settled

LEMMA CreateUserNodeProgressShows ==
  ASSUME ShowInv, NEW r \in Slots, CreateUserNodeProgress(r)
  PROVE  TabOK(progress', undone', claimed, query, req')
  <1>1. RequestsOK(built, Passed, req) /\ TabOK(progress, undone, claimed, query, req)
    BY DEF ShowInv, RoadmapInv, ServiceInv
  <1>2. PICK old : old = req[r] /\ DOMAIN old = Fields
    BY RequestIs DEF ShowInv, RoadmapInv, IsRequest
  <1>3. PICK t : req' = [req EXCEPT ![r] = [old EXCEPT !.at = "build", !.spot = t]]
    BY <1>2 DEF CreateUserNodeProgress
  <1>4. old.at = "row" /\ TakeBack
    BY <1>2 DEF CreateUserNodeProgress
  <1>5. PICK m : m = [old EXCEPT !.at = "build", !.spot = t]
    OBVIOUS
  <1>6. /\ m.op = old.op /\ m.owner = old.owner /\ m.answer = old.answer /\ m.at = "build"
    BY <1>2, <1>5 DEF Fields
  <1>7. PICK rows, und : rows = progress' /\ und = undone'
    OBVIOUS
  <1>8. undone \subseteq und /\ \A n : Settled(progress, undone, n) => Settled(rows, und, n)
    BY <1>4, <1>7, TakenBack
  <1>9. ConfirmOK(rows, und, m)
    <2>1. m.op # "settle"
      BY <1>1, <1>2, <1>4, <1>6 DEF TabOK, ClaimsOK, ConfirmOK
    <2> QED BY <2>1 DEF ConfirmOK
  <1>10. ReadsWell(claimed \ undone, req[r]) => ReadsWell(claimed \ und, m)
    BY <1>2, <1>6, <1>8 DEF ReadsWell, Shows
  <1>11. req' = [req EXCEPT ![r] = m]
    BY <1>3, <1>5
  <1>12. TabOK(rows, und, claimed, query, [req EXCEPT ![r] = m])
    BY <1>1, <1>2, <1>6, <1>8, <1>9, <1>10, OneMoves
  <1> QED BY <1>7, <1>11, <1>12

(* Answers without a section.                                               *)
LEMMA NoSectionShows ==
  ASSUME ShowInv, NEW r \in Slots, NoPhasesFound(r) \/ Fail(r)
  PROVE  TabOK(progress, undone, claimed, query, req') /\ UNCHANGED <<progress, undone>>
  <1>1. RequestsOK(built, Passed, req) /\ TabOK(progress, undone, claimed, query, req)
    BY DEF ShowInv, RoadmapInv, ServiceInv
  <1>2. PICK ok : Respond(r, [NoAnswer EXCEPT !.ok = ok]) /\ (ok => req[r].op = "generate")
    BY ZenonT(40) DEF NoPhasesFound, Fail
  <1>3. PICK a : a = [NoAnswer EXCEPT !.ok = ok]
    OBVIOUS
  <1>4. a.ok = ok /\ \A k : Shows(k, a)
    BY <1>3, EmptyShows
  <1>5. PICK m : /\ req' = [req EXCEPT ![r] = m]
                 /\ m.op = req[r].op /\ m.owner = req[r].owner /\ m.node = req[r].node
                 /\ m.at = "answered" /\ m.answer = a
    BY <1>1, <1>2, <1>3, RespondIs
  <1>6. ConfirmOK(progress, undone, m)
    BY <1>1, <1>2, <1>4, <1>5 DEF ConfirmOK, TabOK, ClaimsOK
  <1>7. ReadsWell(claimed \ undone, m)
    BY <1>4, <1>5 DEF ReadsWell
  <1>8. TabOK(progress, undone, claimed, query, req')
    BY <1>1, <1>5, <1>6, <1>7, OneReads
  <1> QED BY <1>8 DEF NoPhasesFound, Fail

(* The rows are read as they are, or the answer is blind.                   *)
LEMMA GetUserNodeProgressesShows ==
  ASSUME ShowInv, NEW r \in Slots, GetUserNodeProgresses(r)
  PROVE  TabOK(progress, undone, claimed, query, req') /\ UNCHANGED <<progress, undone>>
  <1>1. RequestsOK(built, Passed, req) /\ TabOK(progress, undone, claimed, query, req)
    BY DEF ShowInv, RoadmapInv, ServiceInv
  <1>2. PICK old : old = req[r] /\ DOMAIN old = Fields
    BY RequestIs DEF ShowInv, RoadmapInv, IsRequest
  <1>3. PICK m : /\ req' = [req EXCEPT ![r] = m]
                 /\ m.op = old.op /\ m.owner = old.owner /\ m.answer = old.answer
                 /\ m.blind \/ m.rows = progress
    <2>1. PICK rows : \/ req' = [req EXCEPT ![r] = [old EXCEPT !.at = "nodes", !.rows = progress]]
                      \/ req' = [req EXCEPT ![r] =
                                   [old EXCEPT !.at = "nodes", !.rows = rows, !.blind = TRUE]]
      BY <1>2 DEF GetUserNodeProgresses
    <2>2. PICK read, blind : /\ read = [old EXCEPT !.at = "nodes", !.rows = progress]
                             /\ blind = [old EXCEPT !.at = "nodes", !.rows = rows, !.blind = TRUE]
      OBVIOUS
    <2>3. /\ read.op = old.op /\ read.owner = old.owner /\ read.answer = old.answer
          /\ read.rows = progress
      BY <1>2, <2>2 DEF Fields
    <2>4. /\ blind.op = old.op /\ blind.owner = old.owner /\ blind.answer = old.answer
          /\ blind.blind
      BY <1>2, <2>2 DEF Fields
    <2> QED BY <2>1, <2>2, <2>3, <2>4
  <1>4. \A n \in claimed \ undone : isNodeSettled(progress[n])
    BY <1>1 DEF TabOK, ClaimsOK, Settled
  <1>5. ConfirmOK(progress, undone, m)
    <2>1. old.op # "settle"
      BY <1>1, <1>2 DEF TabOK, ClaimsOK, ConfirmOK, GetUserNodeProgresses
    <2> QED BY <1>3, <2>1 DEF ConfirmOK
  <1>6. ReadsWell(claimed \ undone, req[r]) => ReadsWell(claimed \ undone, m)
    BY <1>2, <1>3, <1>4 DEF ReadsWell
  <1>7. TabOK(progress, undone, claimed, query, req')
    BY <1>1, <1>2, <1>3, <1>5, <1>6, OneReads
  <1> QED BY <1>7 DEF GetUserNodeProgresses

(* A section that is answered shows the rows it is made of.                 *)
LEMMA SectionShows ==
  ASSUME NEW g, NEW p, NEW n \in Nat, NEW rows, NEW blind, NEW k,
         ~blind => \A x \in k : isNodeSettled(rows[x])
  PROVE  Shows(k, Section(g, p, n, rows, blind))
  <1>1. PICK a : a = Section(g, p, n, rows, blind)
    OBVIOUS
  <1>2. /\ a.gen = g /\ a.phase = p /\ a.blind = blind /\ DOMAIN a.status = 1..n
        /\ \A j \in 1..n : rows[<<g, p, j>>] # "none" => a.status[j] = rows[<<g, p, j>>]
    BY <1>1 DEF Section
  <1>3. Shows(k, a)
    BY <1>2 DEF Shows, isNodeSettled
  <1> QED BY <1>1, <1>3

LEMMA GetPhaseNodesShows ==
  ASSUME ShowInv, NEW r \in Slots, GetPhaseNodes(r)
  PROVE  TabOK(progress, undone, claimed, query, req') /\ UNCHANGED <<progress, undone>>
  <1>1. RequestsOK(built, Passed, req) /\ TabOK(progress, undone, claimed, query, req)
    BY DEF ShowInv, RoadmapInv, ServiceInv
  <1>2. PICK old : old = req[r] /\ DOMAIN old = Fields
    BY RequestIs DEF ShowInv, RoadmapInv, IsRequest
  <1>3. PICK g, p, n : g = old.ur.template /\ p = old.ur.phase[2] /\ n = built[g][p]
    OBVIOUS
  <1>4. PICK c \in 0..n :
          \/ Respond(r, Section(g, p, c, old.rows, old.blind))
          \/ req' = [req EXCEPT ![r].at = "unlock", ![r].ur.phase = <<g, p + 1>>]
    BY <1>2, <1>3, ZenonT(40) DEF GetPhaseNodes
  <1>11. PICK a : a = Section(g, p, c, old.rows, old.blind)
    OBVIOUS
  <1>5. old.at = "nodes" /\ old.op # "settle"
    BY <1>1, <1>2 DEF TabOK, ClaimsOK, ConfirmOK, GetPhaseNodes
  <1>6. c \in Nat
    <2>1. g \in 1..Len(built) /\ p \in 1..Len(built[g])
      BY <1>1, <1>2, <1>3, <1>5 DEF RequestsOK, RequestOK, ReadOK
    <2>2. n \in Nat
      BY <1>3, <2>1, SizeOf DEF ShowInv, RoadmapInv, ServiceInv
    <2> QED BY <2>2
  <1>7. UNCHANGED <<progress, undone>>
    BY DEF GetPhaseNodes
  <1>8. CASE Respond(r, a)
    <2>1. PICK m : /\ req' = [req EXCEPT ![r] = m]
                   /\ m.op = req[r].op /\ m.owner = req[r].owner /\ m.node = req[r].node
                   /\ m.at = "answered" /\ m.answer = a
      BY <1>1, <1>8, RespondIs
    <2>2. ConfirmOK(progress, undone, m)
      BY <1>2, <1>5, <2>1 DEF ConfirmOK
    <2>3. ASSUME ReadsWell(claimed \ undone, req[r]) PROVE ReadsWell(claimed \ undone, m)
      <3>1. ~old.blind => \A x \in claimed \ undone : isNodeSettled(old.rows[x])
        BY <1>2, <1>5, <2>3 DEF ReadsWell
      <3>2. Shows(claimed \ undone, a)
        BY <1>6, <1>11, <3>1, SectionShows
      <3> QED BY <2>1, <3>2 DEF ReadsWell
    <2> QED BY <1>1, <1>7, <2>1, <2>2, <2>3, OneReads
  <1>9. CASE req' = [req EXCEPT ![r].at = "unlock", ![r].ur.phase = <<g, p + 1>>]
    <2>1. PICK u : u = [old.ur EXCEPT !.phase = <<g, p + 1>>]
      OBVIOUS
    <2>2. PICK m : m = [old EXCEPT !.at = "unlock", !.ur = u]
      OBVIOUS
    <2>3. m.op = old.op /\ m.owner = old.owner /\ m.answer = old.answer /\ m.at = "unlock"
      BY <1>2, <2>2 DEF Fields
    <2>4. ConfirmOK(progress, undone, m)
      BY <1>5, <2>3 DEF ConfirmOK
    <2>5. ReadsWell(claimed \ undone, req[r]) => ReadsWell(claimed \ undone, m)
      BY <1>2, <2>3 DEF ReadsWell
    <2>6. req' = [req EXCEPT ![r] = m]
      BY <1>2, <1>9, <2>1, <2>2
    <2> QED BY <1>1, <1>2, <2>3, <2>4, <2>5, <2>6, <1>7, OneReads
  <1>10. Respond(r, a) \/ req' = [req EXCEPT ![r].at = "unlock", ![r].ur.phase = <<g, p + 1>>]
    BY <1>4, <1>11
  <1> QED BY <1>8, <1>9, <1>10

(* What a slow reader unlocks again is taken back, and its answer is read   *)
(* back from the rows.                                                      *)
LEMMA UnlockSectionShows ==
  ASSUME ShowInv, NEW r \in Slots, UnlockSection(r)
  PROVE  TabOK(progress', undone', claimed, query, req')
  <1>1. RequestsOK(built, Passed, req) /\ TabOK(progress, undone, claimed, query, req)
    BY DEF ShowInv, RoadmapInv, ServiceInv
  <1>2. PICK rows, und, g, p, n : /\ rows = progress' /\ und = undone'
                                  /\ g = req[r].ur.template /\ p = req[r].ur.phase[2]
                                  /\ n = built[g][p]
    OBVIOUS
  <1>3. req[r].at = "unlock" /\ TakeBack
    BY ZenonT(40) DEF UnlockSection
  <1>4. PICK m, lost, read : /\ m \in 0..n /\ Respond(r, Section(g, p, m, read, lost))
                             /\ ~lost => read = rows
    <2>1. PICK m \in 0..n, lost \in BOOLEAN :
            \E read \in IF lost THEN SomeRows(g, rows) ELSE {rows} :
              Respond(r, Section(g, p, m, read, lost))
      BY <1>2, ZenonT(40) DEF UnlockSection
    <2> QED BY <2>1
  <1>5. req[r].op # "settle"
    BY <1>1, <1>3 DEF TabOK, ClaimsOK, ConfirmOK
  <1>6. undone \subseteq und /\ \A x : Settled(progress, undone, x) => Settled(rows, und, x)
    BY <1>2, <1>3, TakenBack
  <1>7. PICK a : a = Section(g, p, m, read, lost)
    OBVIOUS
  <1>8. Shows(claimed \ und, a)
    <2>1. m \in Nat
      <3>1. g \in 1..Len(built) /\ p \in 1..Len(built[g])
        BY <1>1, <1>2, <1>3 DEF RequestsOK, RequestOK, ReadOK
      <3>2. n \in Nat
        BY <1>2, <3>1, SizeOf DEF ShowInv, RoadmapInv, ServiceInv
      <3> QED BY <1>4, <3>2
    <2>2. ~lost => \A x \in claimed \ und : isNodeSettled(read[x])
      BY <1>1, <1>4, <1>6 DEF TabOK, ClaimsOK, Settled
    <2> QED BY <1>7, <2>1, <2>2, SectionShows
  <1>9. PICK new : /\ req' = [req EXCEPT ![r] = new]
                   /\ new.op = req[r].op /\ new.owner = req[r].owner /\ new.node = req[r].node
                   /\ new.at = "answered" /\ new.answer = a
    BY <1>1, <1>4, <1>7, RespondIs
  <1>10. ConfirmOK(rows, und, new) /\ ReadsWell(claimed \ und, new)
    BY <1>5, <1>8, <1>9 DEF ConfirmOK, ReadsWell
  <1>11. TabOK(rows, und, claimed, query, [req EXCEPT ![r] = new])
    BY <1>1, <1>6, <1>9, <1>10, OneMoves
  <1> QED BY <1>2, <1>9, <1>11

LEMMA CompleteNodeShows ==
  ASSUME ShowInv, NEW r \in Slots, CompleteNode(r)
  PROVE  TabOK(progress', undone', claimed, query, req')
  <1>1. RequestsOK(built, Passed, req) /\ TabOK(progress, undone, claimed, query, req)
        /\ progress \in [Nodes -> Status] /\ Templates(built)
    BY DEF ShowInv, RoadmapInv, ServiceInv, ProgressOK
  <1>2. PICK x, a, rows : /\ x = req[r].node /\ a = [NoAnswer EXCEPT !.ok = TRUE]
                          /\ rows = progress'
    OBVIOUS
  <1>3. /\ req[r].at = "settle" /\ rows = [progress EXCEPT ![x] = "mastered"]
        /\ Respond(r, a) /\ undone' = undone
    BY <1>2 DEF CompleteNode
  <1>4. ASSUME NEW n, Settled(progress, undone, n) PROVE Settled(rows, undone, n)
    BY <1>1, <1>3, <1>4 DEF Settled, isNodeSettled
  <1>5. req[r].op = "settle" => x \in Nodes /\ Settled(rows, undone, x)
    <2>1. req[r].op = "settle" => x \in Nodes
      BY <1>1, <1>2 DEF TabOK, ClaimsOK, ConfirmOK
    <2> QED BY <1>1, <1>3, <2>1 DEF Settled, isNodeSettled
  <1>6. PICK m : /\ req' = [req EXCEPT ![r] = m]
                 /\ m.op = req[r].op /\ m.owner = req[r].owner /\ m.node = req[r].node
                 /\ m.at = "answered" /\ m.answer = a
    BY <1>1, <1>3, RespondIs
  <1>7. ConfirmOK(rows, undone, m)
    BY <1>2, <1>5, <1>6 DEF ConfirmOK
  <1>8. ReadsWell(claimed \ undone, m)
    BY <1>2, <1>6, EmptyShows DEF ReadsWell
  <1>9. TabOK(rows, undone, claimed, query, [req EXCEPT ![r] = m])
    BY <1>1, <1>4, <1>6, <1>7, <1>8, OneMoves
  <1> QED BY <1>2, <1>3, <1>6, <1>9

LEMMA ServeShows ==
  ASSUME ShowInv, NEW r \in Slots, Serve(r) \/ Fail(r)
  PROVE  TabOK(progress', undone', claimed, query, req')
  <1>1. CASE \/ CreateTemplate(r) \/ CreatePhase(r) \/ CreateNode(r) \/ SkipNode(r)
             \/ UpdateUserRoadmapPhase(r) \/ GetUserRoadmap(r) \/ GetTemplatePhases(r)
    BY <1>1, BuildersShow
  <1>2. CASE NoPhasesFound(r) \/ Fail(r)
    BY <1>2, NoSectionShows
  <1>3. CASE GetUserNodeProgresses(r)
    BY <1>3, GetUserNodeProgressesShows
  <1>4. CASE GetPhaseNodes(r)
    BY <1>4, GetPhaseNodesShows
  <1>5. CASE CreateUserNodeProgress(r) \/ UnlockSection(r) \/ CompleteNode(r)
    BY <1>5, CreateUserNodeProgressShows, UnlockSectionShows, CompleteNodeShows
  <1> QED BY <1>1, <1>2, <1>3, <1>4, <1>5 DEF Serve

-----------------------------------------------------------------------------
(* Steps of the pages: the rows stand, requests come and go.                *)

LEMMA NoRequestIs == NoRequest.op = "none"
  BY RequestFields DEF NoRequest

(* A slot the query does not wait for is used or freed.                     *)
LEMMA OneAsks ==
  ASSUME NEW b, NEW e, NEW rq, RequestsOK(b, e, rq), NEW s \in Slots, NEW m,
         NEW rows, NEW und, NEW cl, NEW q, TabOK(rows, und, cl, q, rq), q.fetch # s,
         ConfirmOK(rows, und, m), m.op = "settle" /\ m.owner # "nobody" => q.data.ok
  PROVE  TabOK(rows, und, cl, q, [rq EXCEPT ![s] = m])
  <1> DEFINE new == [rq EXCEPT ![s] = m]
  <1>1. \A t \in Slots : new[t] = IF t = s THEN m ELSE rq[t]
    BY DEF RequestsOK
  <1> HIDE DEF new
  <1>2. ClaimsOK(rows, und, cl, new)
    BY <1>1 DEF TabOK, ClaimsOK
  <1>3. FetchedOK(cl \ und, q, new)
    BY <1>1 DEF TabOK, FetchedOK
  <1>4. AskedOK(q, new)
    BY <1>1 DEF TabOK, AskedOK
  <1> QED BY <1>2, <1>3, <1>4 DEF TabOK, new

LEMMA OneLeaves ==
  ASSUME NEW b, NEW e, NEW rq, RequestsOK(b, e, rq), NEW s \in Slots,
         NEW rows, NEW und, NEW cl, NEW q, TabOK(rows, und, cl, q, rq), q.fetch # s
  PROVE  TabOK(rows, und, cl, q, [rq EXCEPT ![s] = NoRequest])
  <1>1. ConfirmOK(rows, und, NoRequest) /\ NoRequest.op # "settle"
    BY NoRequestIs DEF ConfirmOK
  <1> QED BY <1>1, OneAsks

(* A fetch that starts now reads the rows later than every confirmation.    *)
LEMMA FetchShows ==
  ASSUME NEW b, NEW e, NEW rq, RequestsOK(b, e, rq), NEW q, DOMAIN q = QueryFields,
         NEW rows, NEW und, NEW cl, ClaimsOK(rows, und, cl, rq), AskedOK(q, rq), Free(rq) # {}
  PROVE  TabOK(rows, und, cl, Fetch(q, rq).q, Fetch(q, rq).rq)
  <1>1. PICK r, m, f, new : /\ r = First(Free(rq)) /\ m = Request("get", "roadmap", "query", NoNode)
                            /\ f = Fetch(q, rq).q /\ new = Fetch(q, rq).rq
    OBVIOUS
  <1>2. /\ new = [rq EXCEPT ![r] = m]
        /\ f = [q EXCEPT !.fetch = r, !.tries = 0, !.error = q.error /\ q.data # NoData]
    BY <1>1 DEF Fetch
  <1>3. r \in Slots /\ r # 0
    BY <1>1, FreeSlot
  <1>4. m.op = "get" /\ m.at = "roadmap" /\ m.owner = "query" /\ m.answer = NoAnswer
    BY <1>1, RequestFields
  <1>5. \A t \in Slots : new[t] = IF t = r THEN m ELSE rq[t]
    BY <1>2 DEF RequestsOK
  <1>6. DOMAIN f = QueryFields /\ f.fetch = r /\ f.data = q.data
    BY <1>2 DEF QueryFields
  <1>7. ClaimsOK(rows, und, cl, new)
    <2>1. ConfirmOK(rows, und, m)
      BY <1>4 DEF ConfirmOK
    <2> QED BY <1>5, <2>1 DEF ClaimsOK
  <1>8. FetchedOK(cl \ und, f, new)
    <2>1. ReadsWell(cl \ und, m)
      BY <1>4, EmptyShows DEF ReadsWell
    <2> QED BY <1>3, <1>4, <1>5, <1>6, <2>1 DEF FetchedOK
  <1>9. AskedOK(f, new)
    BY <1>4, <1>5, <1>6 DEF AskedOK
  <1> QED BY <1>1, <1>6, <1>7, <1>8, <1>9 DEF TabOK

(* Who waits for a request changes: from the page to one that has left, or  *)
(* to nobody.                                                               *)
LEMMA OwnersShow ==
  ASSUME NEW b, NEW e, NEW rq, RequestsOK(b, e, rq), NEW new,
         \A r \in Slots : \/ new[r] = rq[r]
                          \/ new[r] = [rq[r] EXCEPT !.owner = "nobody"]
                          \/ rq[r].owner = "page" /\ new[r] = [rq[r] EXCEPT !.owner = "gone"],
         NEW rows, NEW und, NEW cl, NEW q, ClaimsOK(rows, und, cl, rq), AskedOK(q, rq)
  PROVE  ClaimsOK(rows, und, cl, new) /\ AskedOK(q, new)
  <1>1. ASSUME NEW r \in Slots
        PROVE  /\ new[r].op = rq[r].op /\ new[r].at = rq[r].at /\ new[r].node = rq[r].node
               /\ new[r].answer = rq[r].answer
               /\ new[r].owner # "nobody" => rq[r].owner # "nobody"
    <2>1. DOMAIN rq[r] = Fields
      BY DEF RequestsOK, RequestOK, IsRequest
    <2>2. CASE new[r] = rq[r]
      BY <2>2
    <2>3. CASE new[r] = [rq[r] EXCEPT !.owner = "nobody"]
      BY <2>1, <2>3 DEF Fields
    <2>4. CASE rq[r].owner = "page" /\ new[r] = [rq[r] EXCEPT !.owner = "gone"]
      BY <2>1, <2>4 DEF Fields
    <2> QED BY <2>2, <2>3, <2>4
  <1>2. \A r \in Slots : ConfirmOK(rows, und, new[r])
    BY <1>1 DEF ClaimsOK, ConfirmOK
  <1> QED BY <1>1, <1>2 DEF ClaimsOK, AskedOK

LEMMA RefetchShows ==
  ASSUME NEW b, NEW e, NEW rq, RequestsOK(b, e, rq), NEW q, DOMAIN q = QueryFields,
         NEW rows, NEW und, NEW cl, ClaimsOK(rows, und, cl, rq), AskedOK(q, rq), Free(rq) # {},
         q.fetch # 0 /\ q.data = NoData => FetchedOK(cl \ und, q, rq)
  PROVE  TabOK(rows, und, cl, Refetch(q, rq).q, Refetch(q, rq).rq)
  <1>1. CASE q.fetch = 0
    BY <1>1, FetchShows DEF Refetch
  <1>2. CASE q.fetch # 0 /\ q.data = NoData
    BY <1>2 DEF Refetch, TabOK
  <1>3. CASE q.fetch # 0 /\ q.data # NoData
    <2>1. PICK left : left = [rq EXCEPT ![q.fetch].owner = "nobody"]
      OBVIOUS
    <2>2. Refetch(q, rq) = Fetch(q, left)
      BY <1>3, <2>1 DEF Refetch
    <2>3. \A r \in Slots : left[r] = rq[r] \/ left[r] = [rq[r] EXCEPT !.owner = "nobody"]
      BY <2>1 DEF RequestsOK
    <2>4. left = [r \in Slots |-> left[r]]
      BY <2>1 DEF RequestsOK
    <2>5. RequestsOK(b, e, left)
      BY <2>3, <2>4, OwnersOK
    <2>6. ClaimsOK(rows, und, cl, left) /\ AskedOK(q, left)
      BY <2>3, OwnersShow
    <2>7. Free(left) = Free(rq)
      <3>1. \A r \in Slots : left[r].op = rq[r].op
        <4> SUFFICES ASSUME NEW r \in Slots PROVE left[r].op = rq[r].op
          OBVIOUS
        <4>1. DOMAIN rq[r] = Fields
          BY DEF RequestsOK, RequestOK, IsRequest
        <4> QED BY <2>3, <4>1 DEF Fields
      <3> QED BY <3>1 DEF Free
    <2> QED BY <2>2, <2>5, <2>6, <2>7, FetchShows
  <1> QED BY <1>1, <1>2, <1>3

LEMMA MountShows ==
  ASSUME NEW b, NEW e, NEW rq, RequestsOK(b, e, rq), NEW q,
         NEW rows, NEW und, NEW cl, TabOK(rows, und, cl, q, rq),
         NEW rt, Mount(rt, q, rq)
  PROVE  TabOK(rows, und, cl, query', req') /\ route' = rt
  <1>1. PICK left : left = [r \in Slots |-> IF rq[r].owner = "page"
                                            THEN [rq[r] EXCEPT !.owner = "gone"] ELSE rq[r]]
    OBVIOUS
  <1>2. RequestsOK(b, e, left)
    <2>1. left = [r \in Slots |-> left[r]]
      BY <1>1
    <2>2. \A r \in Slots : left[r] = rq[r] \/ left[r] = [rq[r] EXCEPT !.owner = "gone"]
      BY <1>1
    <2> QED BY <2>1, <2>2, OwnersOK
  <1>3. ClaimsOK(rows, und, cl, left) /\ AskedOK(q, left)
    BY <1>1, OwnersShow DEF TabOK
  <1>4. route' = rt /\ \/ Free(left) # {} /\ query' = Fetch(q, left).q /\ req' = Fetch(q, left).rq
                       \/ query' = q /\ req' = left
    BY <1>1 DEF Mount
  <1>5. CASE Free(left) # {} /\ query' = Fetch(q, left).q /\ req' = Fetch(q, left).rq
    <2>1. TabOK(rows, und, cl, Fetch(q, left).q, Fetch(q, left).rq)
      BY <1>2, <1>3, <1>5, FetchShows DEF TabOK
    <2> QED BY <1>4, <1>5, <2>1
  <1>6. CASE query' = q /\ req' = left
    <2>1. FetchedOK(cl \ und, q, left)
      BY <1>1 DEF TabOK, FetchedOK
    <2>2. TabOK(rows, und, cl, q, left)
      BY <1>3, <2>1 DEF TabOK
    <2> QED BY <1>4, <1>6, <2>2
  <1> QED BY <1>4, <1>5, <1>6

LEMMA PlaceIs ==
  ASSUME NEW at, NEW n
  PROVE  /\ IsPlace(n) => RouteOK(Route(at, n))
         /\ IsPlace(NoNode) /\ \A j : IsPlace(NodeOf(j))
  <1>1. IsPlace(n) => RouteOK(Route(at, n))
    BY DEF RouteOK, Route
  <1>2. IsPlace(NoNode)
    BY DEF IsPlace, NoNode
  <1>3. \A j : IsPlace(NodeOf(j))
    BY DEF IsPlace, NodeOf
  <1> QED BY <1>1, <1>2, <1>3

LEMMA LinksOK ==
  ASSUME RouteOK(route), NEW rt \in Links
  PROVE  RouteOK(rt)
  <1>1. IsPlace(route.node)
    BY DEF RouteOK
  <1>2. \E at, n : rt = Route(at, n) /\ (n = NoNode \/ n = route.node \/ \E j : n = NodeOf(j))
    BY DEF Links
  <1>3. PICK at, n : rt = Route(at, n) /\ (n = NoNode \/ n = route.node \/ \E j : n = NodeOf(j))
    BY <1>2
  <1>4. IsPlace(n)
    BY <1>1, <1>3, PlaceIs
  <1> QED BY <1>3, <1>4, PlaceIs

LEMMA PagesShow ==
  ASSUME ShowInv,
         Visit \/ Complete \/ Retry \/ Generate \/ OtherDevice \/ Updated \/ TimerFires
  PROVE  RouteOK(route') /\ TabOK(progress, undone, claimed', query', req')
         /\ UNCHANGED <<progress, undone>>
  <1>1. /\ RequestsOK(built, Passed, req) /\ Templates(built) /\ DataOK(built, query)
        /\ RouteOK(route) /\ TabOK(progress, undone, claimed, query, req)
    BY DEF ShowInv, RoadmapInv, ServiceInv
  <1>2. UNCHANGED <<progress, undone, claimed>>
    BY DEF Visit, Complete, Retry, Generate, OtherDevice, Updated, TimerFires, service
  <1>3. CASE Visit
    <2>1. PICK rt \in Links : Mount(rt, query, req)
      BY <1>3 DEF Visit
    <2>2. RouteOK(rt)
      BY <1>1, LinksOK
    <2> QED BY <1>1, <1>2, <2>1, <2>2, MountShows
  <1>4. ASSUME NEW op, NEW at, NEW owner, NEW n, Free(req) # {},
               req' = [req EXCEPT ![First(Free(req))] = Request(op, at, owner, n)],
               op = "settle" => at = "settle" /\ n \in Nodes /\ (owner # "nobody" => query.data.ok),
               UNCHANGED <<route, query>>
        PROVE  RouteOK(route') /\ TabOK(progress, undone, claimed', query', req')
    <2>1. PICK s, m : s = First(Free(req)) /\ m = Request(op, at, owner, n)
      OBVIOUS
    <2>2. s \in Slots /\ s # 0 /\ req[s].op = "none"
      BY <1>4, <2>1, FreeSlot
    <2>3. m.op = op /\ m.at = at /\ m.owner = owner /\ m.node = n
      BY <2>1, RequestFields
    <2>4. query.fetch # s
      BY <1>1, <2>2 DEF TabOK, FetchedOK
    <2>5. ConfirmOK(progress, undone, m)
      BY <1>4, <2>3 DEF ConfirmOK
    <2>6. m.op = "settle" /\ m.owner # "nobody" => query.data.ok
      BY <1>4, <2>3
    <2>7. TabOK(progress, undone, claimed, query, [req EXCEPT ![s] = m])
      BY <1>1, <2>2, <2>4, <2>5, <2>6, OneAsks
    <2> QED BY <1>1, <1>2, <1>4, <2>1, <2>7
  <1>5. CASE Complete
    <2>1. Found(route.node)
      BY <1>5 DEF Complete, MayComplete, NodeDetailView, TutorialReader, Panel
    <2>2. BuiltIn(built, route.node)
      BY <1>1, <2>1, ShownIsBuilt
    <2>3. route.node \in Nodes
      <3>1. PICK g, p, n : g = route.node[1] /\ p = route.node[2] /\ n = route.node[3]
        OBVIOUS
      <3>2. BuiltIn(built, <<g, p, n>>)
        BY <2>2, <3>1 DEF BuiltIn
      <3>3. <<g, p, n>> \in Nodes
        BY <1>1, <3>2, BuiltNodes
      <3> QED BY <1>1, <3>1, <3>3 DEF RouteOK, IsPlace
    <2>4. query.data.ok
      BY <2>1 DEF Found, Shown
    <2>5. /\ Free(req) # {} /\ UNCHANGED <<route, query>>
          /\ req' = [req EXCEPT ![First(Free(req))] = Request("settle", "settle", "page", route.node)]
      BY <1>5 DEF Complete
    <2> QED BY <1>2, <1>4, <2>3, <2>4, <2>5
  <1>6. CASE Retry
    <2>1. /\ query' = Refetch(query, req).q /\ req' = Refetch(query, req).rq
          /\ Free(req) # {} /\ UNCHANGED route
      BY <1>6 DEF Retry
    <2>2. TabOK(progress, undone, claimed, Refetch(query, req).q, Refetch(query, req).rq)
      BY <1>1, <2>1, RefetchShows DEF TabOK
    <2> QED BY <1>1, <1>2, <2>1, <2>2
  <1>7. CASE Generate
    <2>1. /\ Free(req) # {} /\ UNCHANGED <<route, query>>
          /\ req' = [req EXCEPT ![First(Free(req))] = Request("generate", "template", "page", NoNode)]
      BY <1>7 DEF Generate
    <2> QED BY <1>2, <1>4, <2>1
  <1>8. CASE OtherDevice
    <2>1. Free(req) # {} /\ UNCHANGED <<route, query>>
      BY <1>8 DEF OtherDevice
    <2>2. CASE req' = [req EXCEPT ![First(Free(req))] = Request("get", "roadmap", "nobody", NoNode)]
      BY <1>2, <1>4, <2>1, <2>2
    <2>3. ASSUME NEW n \in Nodes,
                 req' = [req EXCEPT ![First(Free(req))] = Request("settle", "settle", "nobody", n)]
          PROVE  RouteOK(route') /\ TabOK(progress, undone, claimed', query', req')
      BY <1>4, <2>1, <2>3
    <2> QED BY <1>2, <1>8, <2>2, <2>3 DEF OtherDevice
  <1>9. CASE TimerFires
    <2>1. UNCHANGED <<route, query, req>>
      BY <1>9 DEF TimerFires, service
    <2> QED BY <1>1, <1>2, <2>1
  <1>10. CASE Updated
    <2>1. PICK q : q = [query EXCEPT !.invalid = TRUE]
      OBVIOUS
    <2>2. /\ Free(req) # {} /\ UNCHANGED route
          /\ \/ query' = Refetch(q, req).q /\ req' = Refetch(q, req).rq
             \/ query' = q /\ req' = req
      BY <1>10, <2>1 DEF Updated
    <2>3. /\ DOMAIN q = QueryFields /\ q.data = query.data /\ q.fetch = query.fetch
          /\ q.error = query.error
      BY <1>1, <2>1 DEF TabOK, QueryFields
    <2>4. TabOK(progress, undone, claimed, q, req)
      BY <1>1, <2>3 DEF TabOK, FetchedOK, AskedOK
    <2>5. TabOK(progress, undone, claimed, Refetch(q, req).q, Refetch(q, req).rq)
      BY <1>1, <2>2, <2>4, RefetchShows DEF TabOK
    <2> QED BY <1>1, <1>2, <2>2, <2>4, <2>5
  <1> QED BY <1>2, <1>3, <1>5, <1>6, <1>7, <1>8, <1>9, <1>10

LEMMA AnswersShow ==
  ASSUME ShowInv, NEW r \in Slots,
         Loaded(r) \/ LoadFails(r) \/ Completed(r) \/ CompleteFails(r) \/ Generated(r) \/ Dropped(r)
  PROVE  RouteOK(route') /\ TabOK(progress, undone, claimed', query', req')
         /\ UNCHANGED <<progress, undone>>
  <1>1. /\ RequestsOK(built, Passed, req) /\ Templates(built)
        /\ RouteOK(route) /\ TabOK(progress, undone, claimed, query, req)
    BY DEF ShowInv, RoadmapInv, ServiceInv
  <1>2. UNCHANGED <<progress, undone>>
    BY DEF Loaded, LoadFails, Completed, CompleteFails, Generated, Dropped
  <1>3. /\ r # 0 /\ DOMAIN query = QueryFields
        /\ query.fetch # 0 => /\ query.fetch \in Slots /\ req[query.fetch].op = "get"
                              /\ req[query.fetch].owner = "query"
                              /\ ReadsWell(claimed \ undone, req[query.fetch])
    BY <1>1, RoadmapAssumption DEF TabOK, FetchedOK
  <1>4. RequestsOK(built, Passed, [req EXCEPT ![r] = NoRequest])
    BY <1>1, Takes
  <1>5. query.fetch # r => TabOK(progress, undone, claimed, query, [req EXCEPT ![r] = NoRequest])
    BY <1>1, OneLeaves
  <1>6. ClaimsOK(progress, undone, claimed, [req EXCEPT ![r] = NoRequest])
        /\ \A s \in Slots : [req EXCEPT ![r] = NoRequest][s] = IF s = r THEN NoRequest ELSE req[s]
    <2>1. \A s \in Slots : [req EXCEPT ![r] = NoRequest][s] = IF s = r THEN NoRequest ELSE req[s]
      BY <1>1 DEF RequestsOK
    <2> QED BY <1>1, <2>1, NoRequestIs DEF TabOK, ClaimsOK, ConfirmOK
  <1>7. CASE Loaded(r)
    <2>1. PICK a, new, f :
            /\ a = req[r].answer /\ new = [req EXCEPT ![r] = NoRequest]
            /\ f = [query EXCEPT !.data = a, !.error = FALSE, !.invalid = FALSE,
                                 !.fetch = 0, !.tries = 0]
      OBVIOUS
    <2>2. /\ query.fetch = r /\ a.ok /\ query' = f /\ req' = new /\ claimed' = claimed
          /\ \E lost : route' = [route EXCEPT !.lost = lost]
      BY <1>7, <2>1 DEF Loaded
    <2>3. RouteOK(route')
      BY <1>1, <2>2 DEF RouteOK
    <2>4. DOMAIN f = QueryFields /\ f.data = a /\ f.fetch = 0
      BY <1>3, <2>1 DEF QueryFields
    <2>5. Shows(claimed \ undone, a)
      BY <1>3, <2>1, <2>2 DEF ReadsWell
    <2>6. AskedOK(f, new)
      BY <2>2, <2>4 DEF AskedOK
    <2>7. FetchedOK(claimed \ undone, f, new)
      BY <2>4, <2>5 DEF FetchedOK
    <2>8. TabOK(progress, undone, claimed, f, new)
      BY <1>6, <2>1, <2>4, <2>6, <2>7 DEF TabOK
    <2> QED BY <1>2, <2>2, <2>3, <2>8
  <1>8. CASE LoadFails(r)
    <2>1. query.fetch = r /\ UNCHANGED <<route, claimed>>
      BY <1>8 DEF LoadFails
    <2>2. PICK m : m = Request("get", "roadmap", "query", NoNode)
      OBVIOUS
    <2>3. m.op = "get" /\ m.at = "roadmap" /\ m.owner = "query" /\ m.answer = NoAnswer
      BY <2>2, RequestFields
    <2>4. CASE /\ \E t : query' = [query EXCEPT !.tries = t]
               /\ req' = [req EXCEPT ![r] = m]
      <3>1. PICK t, f, new : /\ f = [query EXCEPT !.tries = t] /\ query' = f
                             /\ new = [req EXCEPT ![r] = m] /\ req' = new
        BY <2>4
      <3>2. \A s \in Slots : new[s] = IF s = r THEN m ELSE req[s]
        BY <1>1, <3>1 DEF RequestsOK
      <3>3. DOMAIN f = QueryFields /\ f.fetch = r /\ f.data = query.data
        BY <1>3, <2>1, <3>1 DEF QueryFields
      <3>4. ClaimsOK(progress, undone, claimed, new)
        <4>1. ConfirmOK(progress, undone, m)
          BY <2>3 DEF ConfirmOK
        <4> QED BY <1>1, <3>2, <4>1 DEF TabOK, ClaimsOK
      <3>5. FetchedOK(claimed \ undone, f, new)
        <4>1. ReadsWell(claimed \ undone, m)
          BY <2>3, EmptyShows DEF ReadsWell
        <4> QED BY <1>3, <2>3, <3>2, <3>3, <4>1 DEF FetchedOK
      <3>6. AskedOK(f, new)
        BY <1>1, <2>3, <3>2, <3>3 DEF TabOK, AskedOK
      <3>7. TabOK(progress, undone, claimed, f, new)
        BY <3>3, <3>4, <3>5, <3>6 DEF TabOK
      <3> QED BY <1>1, <1>2, <2>1, <3>1, <3>7
    <2>5. CASE /\ query' = [query EXCEPT !.error = TRUE, !.fetch = 0, !.tries = 0]
               /\ req' = [req EXCEPT ![r] = NoRequest]
      <3>1. PICK f, new : /\ f = [query EXCEPT !.error = TRUE, !.fetch = 0, !.tries = 0]
                          /\ query' = f
                          /\ new = [req EXCEPT ![r] = NoRequest] /\ req' = new
        BY <2>5
      <3>2. DOMAIN f = QueryFields /\ f.fetch = 0 /\ f.error /\ f.data = query.data
        BY <1>3, <3>1 DEF QueryFields
      <3>3. FetchedOK(claimed \ undone, f, new)
        BY <3>2 DEF FetchedOK
      <3>4. AskedOK(f, new)
        BY <1>1, <1>6, <3>1, <3>2, NoRequestIs DEF TabOK, AskedOK
      <3>5. TabOK(progress, undone, claimed, f, new)
        BY <1>6, <3>1, <3>2, <3>3, <3>4 DEF TabOK
      <3> QED BY <1>1, <1>2, <2>1, <3>1, <3>5
    <2>6. \/ /\ \E t : query' = [query EXCEPT !.tries = t]
             /\ req' = [req EXCEPT ![r] = m]
          \/ /\ query' = [query EXCEPT !.error = TRUE, !.fetch = 0, !.tries = 0]
             /\ req' = [req EXCEPT ![r] = NoRequest]
      BY <1>8, <2>2 DEF LoadFails
    <2> QED BY <2>4, <2>5, <2>6
  <1>9. CASE Completed(r)
    <2>1. PICK x, q, new : /\ x = req[r].node /\ q = [query EXCEPT !.invalid = TRUE]
                           /\ new = [req EXCEPT ![r] = NoRequest]
      OBVIOUS
    <2>2. /\ req[r].op = "settle" /\ req[r].owner # "nobody" /\ req[r].at = "answered"
          /\ req[r].answer.ok /\ UNCHANGED route
          /\ \/ /\ claimed' = claimed \cup {x}
                /\ query' = Refetch(q, new).q /\ req' = Refetch(q, new).rq
             \/ claimed' = claimed /\ query' = q /\ req' = new
      BY <1>9, <2>1 DEF Completed
    <2>3. query.fetch # r
      BY <1>3, <2>2
    <2>4. /\ DOMAIN q = QueryFields /\ q.data = query.data /\ q.fetch = query.fetch
          /\ q.error = query.error
      BY <1>3, <2>1 DEF QueryFields
    <2>5. TabOK(progress, undone, claimed, query, new)
      BY <1>5, <2>1, <2>3
    <2>6. TabOK(progress, undone, claimed, q, new)
      BY <2>4, <2>5 DEF TabOK, FetchedOK, AskedOK
    <2>7. ClaimsOK(progress, undone, claimed \cup {x}, new)
      <3>1. Settled(progress, undone, x)
        BY <1>1, <2>1, <2>2 DEF TabOK, ClaimsOK, ConfirmOK
      <3> QED BY <2>6, <3>1 DEF TabOK, ClaimsOK
    <2>8. q.data # NoData
      <3>1. query.data.ok
        BY <1>1, <2>2 DEF TabOK, AskedOK
      <3> QED BY <2>4, <3>1, EmptyShows DEF NoData
    <2>9. Free(new) # {}
      <3>1. new[r].op = "none"
        BY <1>6, <2>1, NoRequestIs
      <3> QED BY <3>1 DEF Free
    <2>10. TabOK(progress, undone, claimed \cup {x}, Refetch(q, new).q, Refetch(q, new).rq)
      BY <1>4, <2>1, <2>4, <2>6, <2>7, <2>8, <2>9, RefetchShows DEF TabOK
    <2> QED BY <1>1, <1>2, <2>2, <2>6, <2>10
  <1>10. CASE CompleteFails(r)
    <2>1. /\ req[r].op = "settle" /\ req' = [req EXCEPT ![r] = NoRequest]
          /\ UNCHANGED <<route, query, claimed>>
      BY <1>10 DEF CompleteFails
    <2>2. query.fetch # r
      BY <1>3, <2>1
    <2> QED BY <1>1, <1>2, <1>5, <2>1, <2>2
  <1>11. CASE Generated(r)
    <2>1. /\ req[r].op = "generate" /\ UNCHANGED claimed
          /\ \/ Mount(Route("roadmap", NoNode), query, [req EXCEPT ![r] = NoRequest])
             \/ req' = [req EXCEPT ![r] = NoRequest] /\ UNCHANGED <<route, query>>
      BY <1>11 DEF Generated
    <2>2. query.fetch # r
      BY <1>3, <2>1
    <2>3. TabOK(progress, undone, claimed, query, [req EXCEPT ![r] = NoRequest])
      BY <1>5, <2>2
    <2>4. PICK rt, new : rt = Route("roadmap", NoNode) /\ new = [req EXCEPT ![r] = NoRequest]
      OBVIOUS
    <2>5. RouteOK(rt)
      BY <2>4, PlaceIs
    <2>6. CASE Mount(rt, query, new)
      <3>1. TabOK(progress, undone, claimed, query', req') /\ route' = rt
        BY <1>4, <2>3, <2>4, <2>6, MountShows
      <3> QED BY <1>2, <2>1, <2>5, <3>1
    <2>7. CASE req' = new /\ UNCHANGED <<route, query>>
      BY <1>1, <1>2, <2>1, <2>3, <2>4, <2>7
    <2> QED BY <2>1, <2>4, <2>6, <2>7
  <1>12. CASE Dropped(r)
    <2>1. /\ req[r].owner = "nobody" /\ req' = [req EXCEPT ![r] = NoRequest]
          /\ UNCHANGED <<route, query, claimed>>
      BY <1>12 DEF Dropped, tab
    <2>2. query.fetch # r
      BY <1>3, <2>1
    <2> QED BY <1>1, <1>2, <1>5, <2>1, <2>2
  <1> QED BY <1>7, <1>8, <1>9, <1>10, <1>11, <1>12

LEMMA ShowInit ==
  ASSUME Init
  PROVE  ShowInv
  <1>1. RoadmapInv
    BY InitOK
  <1>2. \A s \in Slots : req[s].op = "none"
    BY NoRequestIs DEF Init, ServiceInit
  <1>3. RouteOK(route)
    <2>1. IsPlace(<<1, 1, 1>>)
      BY DEF IsPlace
    <2> QED BY <2>1, PlaceIs DEF Init
  <1>4. DOMAIN query = QueryFields /\ query.fetch = 0 /\ claimed = {}
    BY DEF Init, QueryFields
  <1>5. ClaimsOK(progress, undone, claimed, req) /\ AskedOK(query, req)
    BY <1>2, <1>4 DEF ClaimsOK, ConfirmOK, AskedOK
  <1>6. FetchedOK(claimed \ undone, query, req)
    BY <1>4 DEF FetchedOK, Shows
  <1> QED BY <1>1, <1>3, <1>4, <1>5, <1>6 DEF ShowInv, TabOK

LEMMA ShowStep ==
  ASSUME ShowInv, [Next]_vars
  PROVE  ShowInv'
  <1>1. RoadmapInv'
    BY StepOK DEF ShowInv
  <1>2. CASE Visit \/ Complete \/ Retry \/ Generate \/ OtherDevice \/ Updated
             \/ TimerFires
    BY <1>1, <1>2, PagesShow DEF ShowInv
  <1>3. ASSUME NEW r \in Slots, (Serve(r) \/ Fail(r)) /\ UNCHANGED tab
        PROVE  ShowInv'
    <2>1. TabOK(progress', undone', claimed, query, req')
      BY <1>3, ServeShows
    <2>2. UNCHANGED <<route, claimed, query>>
      BY <1>3 DEF tab
    <2> QED BY <1>1, <2>1, <2>2 DEF ShowInv
  <1>4. ASSUME NEW r \in Slots,
               Loaded(r) \/ LoadFails(r) \/ Completed(r) \/ CompleteFails(r) \/ Generated(r) \/ Dropped(r)
        PROVE  ShowInv'
    BY <1>1, <1>4, AnswersShow DEF ShowInv
  <1>5. CASE UNCHANGED vars
    <2>1. UNCHANGED <<progress, undone, route, claimed, query, req>>
      BY <1>5 DEF vars, service, tab
    <2> QED BY <1>1, <2>1 DEF ShowInv
  <1> QED BY <1>2, <1>3, <1>4, <1>5 DEF Next, Progress

(* A node that was completed shows as completed: once its completion was    *)
(* confirmed to a page that shows the roadmap, nothing is being fetched and *)
(* the last fetch did not fail, no page shows the node as open, whatever    *)
(* fetches were under way and for any number of templates, requests, clicks *)
(* and faults - unless an upsert that came after the completion took the    *)
(* node back, or the rows were not read in full (use-roadmap.ts,            *)
(* GetCurrentRoadmap and CompleteNode of service.go).                       *)
THEOREM CompletedAlwaysShows == Spec => []CompletedShows
  <1>1. Init => ShowInv
    BY ShowInit
  <1>2. ShowInv /\ [Next]_vars => ShowInv'
    BY ShowStep
  <1>3. ShowInv => CompletedShows
    <2> SUFFICES ASSUME ShowInv, query.fetch = 0, ~query.error, ~query.data.blind,
                        NEW n \in claimed \ undone
                 PROVE  Shown(n) \in {"mastered", "absent"}
      BY DEF CompletedShows
    <2>1. TabOK(progress, undone, claimed, query, req)
      BY DEF ShowInv
    <2>2. Shows(claimed \ undone, query.data)
      BY <2>1 DEF TabOK, FetchedOK
    <2>3. n = <<n[1], n[2], n[3]>>
      <3>1. n \in Nodes
        BY <2>1 DEF TabOK, ClaimsOK, Settled
      <3> QED BY <3>1, NodeIs
    <2>4. ASSUME query.data.gen = n[1], query.data.phase = n[2], n[3] \in DOMAIN query.data.status
          PROVE  query.data.status[n[3]] = "mastered"
      BY <2>2, <2>3, <2>4 DEF Shows, isNodeSettled
    <2> QED BY <2>4 DEF Shown
  <1> QED BY <1>1, <1>2, <1>3, PTL DEF Spec
=============================================================================
