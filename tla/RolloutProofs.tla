----------------------------- MODULE RolloutProofs -----------------------------
(***************************************************************************)
(* Theorems about Rollout, for every order of services, every set of       *)
(* commands, and any number of generations, interruptions, crashes and     *)
(* boots.  Where the operator has to leave the supplied files alone while  *)
(* a command runs the theorem says Careful.                                *)
(*                                                                         *)
(* The position in a command's program stands for what the command has     *)
(* done: the lemmas come first that say which step is where, then the      *)
(* types, then one inductive invariant each for deploy, for deploy by a    *)
(* careful operator, for stop and destroy, and for what runs meanwhile.    *)
(***************************************************************************)
EXTENDS Rollout, SequenceTheorems, TLAPS

N == Len(Order)

\* The services in their order, each once.
LEMMA OrderFacts ==
  /\ N \in Nat /\ N > 0
  /\ DOMAIN Order = 1..N
  /\ \A i \in 1..N : Order[i] \in Service
  /\ \A s \in Service : \E i \in 1..N : s = Order[i]
  /\ \A i, j \in 1..N : Order[i] = Order[j] => i = j
<1>1. N \in Nat /\ DOMAIN Order = 1..N
  BY OrderAssumption DEF N
<1>2. N > 0
  <2>1. N = 0 => Order = <<>>
    BY <1>1, OrderAssumption DEF N
  <2> QED
    BY <1>1, <2>1, OrderAssumption
<1> QED
  BY <1>1, <1>2, OrderAssumption DEF Service

-----------------------------------------------------------------------------
(* Where each step of a program is.                                        *)

DeployOps == {"check", "ca", "crt", "key", "proxy", "config", "script", "unit", "install",
              "reload", "restart"}
Op == DeployOps \cup {"start", "stop", "unlink"}
Instr(op, i) == [op |-> op, service |-> Order[i]]
Instrs == [op : Op, service : Service]

Join(s, t) == s \o t

\* s is a list of n instructions.
Lists(s, n) == s \in Seq(Instrs) /\ Len(s) = n

\* An instruction for a service is an instruction.
LEMMA InstrFacts ==
  ASSUME NEW op \in Op, NEW i \in 1..N
  PROVE  Instr(op, i) \in Instrs
BY OrderFacts DEF Instr, Instrs

\* A function that gives each of n places an instruction is a list of n.
LEMMA Listing ==
  ASSUME NEW n \in Nat, NEW f, DOMAIN f = 1..n, f = [i \in 1..n |-> f[i]],
         \A i \in 1..n : f[i] \in Instrs
  PROVE  Lists(f, n)
<1>1. f \in [1..n -> Instrs]
  OBVIOUS
<1>2. f \in Seq(Instrs)
  BY <1>1, SeqDef
<1>3. DOMAIN f = 1..Len(f) /\ Len(f) \in Nat
  BY <1>2, LenProperties
<1> QED
  BY <1>2, <1>3 DEF Lists

\* Where the instructions of two lists are in their concatenation.
LEMMA Concatenation ==
  ASSUME NEW s, NEW t, NEW m \in Nat, NEW n \in Nat, NEW k \in Nat, k = m + n,
         Lists(s, m), Lists(t, n)
  PROVE  /\ Lists(Join(s, t), k)
         /\ \A i \in 1..m : Join(s, t)[i] = s[i]
         /\ \A i \in 1..n : Join(s, t)[m + i] = t[i]
<1>1. s \in Seq(Instrs) /\ t \in Seq(Instrs) /\ Len(s) = m /\ Len(t) = n
  BY DEF Lists
<1>2. /\ s \o t \in Seq(Instrs)
      /\ Len(s \o t) = Len(s) + Len(t)
      /\ \A i \in 1..Len(s) + Len(t) : (s \o t)[i] = IF i <= Len(s) THEN s[i] ELSE t[i - Len(s)]
  BY <1>1, ConcatProperties
<1>3. ASSUME NEW i \in 1..m PROVE (s \o t)[i] = s[i]
  BY <1>1, <1>2
<1>4. ASSUME NEW i \in 1..n PROVE (s \o t)[m + i] = t[i]
  <2>1. m + i \in 1..(m + n) /\ ~(m + i <= m) /\ m + i - m = i
    OBVIOUS
  <2> QED
    BY <1>1, <1>2, <2>1
<1> QED
  BY <1>1, <1>2, <1>3, <1>4 DEF Lists, Join

\* One instruction for each service, in order.
LEMMA EachFacts ==
  ASSUME NEW op \in Op
  PROVE  /\ Lists(Each(op), N)
         /\ \A i \in 1..N : Each(op)[i] = Instr(op, i)
<1>1. \A i \in DOMAIN Order : Each(op)[i] = Instr(op, i)
  BY DEF Each, Instr
<1>2. DOMAIN Each(op) = 1..N
  BY OrderFacts DEF Each
<1>3. Each(op) = [i \in DOMAIN Order |-> Each(op)[i]]
  BY DEF Each
<1>4. ASSUME NEW i \in 1..N
      PROVE  Each(op)[i] \in Instrs
  <2>1. Instr(op, i) \in Instrs
    BY InstrFacts
  <2> QED
    BY <1>1, <2>1, OrderFacts
<1> QED
  BY <1>1, <1>2, <1>3, <1>4, OrderFacts, Listing

\* One instruction for each service, in the reverse order.
LEMMA BackwardsFacts ==
  ASSUME NEW op \in Op
  PROVE  /\ Lists(Backwards(op), N)
         /\ \A i \in 1..N : Backwards(op)[i] = Instr(op, N + 1 - i)
<1>1. ASSUME NEW i \in DOMAIN Order
      PROVE  Backwards(op)[i] = Instr(op, N + 1 - i)
  BY Zenon DEF Backwards, Instr, N
<1>2. DOMAIN Backwards(op) = 1..N
  BY OrderFacts DEF Backwards
<1>3. Backwards(op) = [i \in DOMAIN Order |-> Backwards(op)[i]]
  BY DEF Backwards
<1>4. ASSUME NEW i \in 1..N
      PROVE  Backwards(op)[i] \in Instrs
  <2>1. N + 1 - i \in 1..N
    BY OrderFacts
  <2>2. Instr(op, N + 1 - i) \in Instrs
    BY <2>1, InstrFacts
  <2> QED
    BY <1>1, <2>2, OrderFacts
<1> QED
  BY <1>1, <1>2, <1>3, <1>4, OrderFacts, Listing

\* The reload is one instruction.
LEMMA ReloadFacts == Lists(Reload, 1) /\ Reload[1] = Instr("reload", 1)
<1>1. Reload = <<Instr("reload", 1)>>
  BY DEF Reload, Instr
<1>2. Instr("reload", 1) \in Instrs
  BY OrderFacts, InstrFacts DEF Op, DeployOps
<1>3. ASSUME NEW r \in Instrs
      PROVE  <<r>> \in Seq(Instrs) /\ Len(<<r>>) = 1 /\ <<r>>[1] = r
  OBVIOUS
<1> QED
  BY <1>1, <1>2, <1>3, Zenon DEF Lists

\* The CA chain, the certificate and the key of each service, in turn.
LEMMA CopyFacts ==
  /\ Lists(CopyPairs, 3 * N)
  /\ \A i \in 1..N :
       /\ CopyPairs[3 * i - 2] = Instr("ca", i)
       /\ CopyPairs[3 * i - 1] = Instr("crt", i)
       /\ CopyPairs[3 * i] = Instr("key", i)
<1> DEFINE F(i) == CASE i % 3 = 1 -> "ca" [] i % 3 = 2 -> "crt" [] i % 3 = 0 -> "key"
<1>1. ASSUME NEW i \in 1..(3 * N)
      PROVE  CopyPairs[i] = Instr(F(i), (i + 2) \div 3)
  BY DEF CopyPairs, Instr, N
<1>2. DOMAIN CopyPairs = 1..(3 * N)
  BY DEF CopyPairs, N
<1>3. CopyPairs = [i \in 1..(3 * N) |-> CopyPairs[i]]
  BY DEF CopyPairs, N
<1>4. ASSUME NEW i \in 1..(3 * N)
      PROVE  CopyPairs[i] \in Instrs
  <2>1. (i + 2) \div 3 \in 1..N
    BY OrderFacts
  <2>2. F(i) \in Op
    <3>1. i % 3 = 1 \/ i % 3 = 2 \/ i % 3 = 0
      BY OrderFacts
    <3> QED
      BY <3>1 DEF Op, DeployOps
  <2>3. Instr(F(i), (i + 2) \div 3) \in Instrs
    <3> HIDE DEF F
    <3> QED
      BY <2>1, <2>2, InstrFacts
  <2> QED
    BY <1>1, <2>3
<1>5. Lists(CopyPairs, 3 * N)
  <2>1. 3 * N \in Nat
    BY OrderFacts
  <2> QED
    BY <1>2, <1>3, <1>4, <2>1, Listing
<1>6. ASSUME NEW i \in 1..N
      PROVE  /\ CopyPairs[3 * i - 2] = Instr("ca", i)
             /\ CopyPairs[3 * i - 1] = Instr("crt", i)
             /\ CopyPairs[3 * i] = Instr("key", i)
  <2>1. /\ 3 * i - 2 \in 1..(3 * N) /\ (3 * i - 2) % 3 = 1 /\ (3 * i - 2 + 2) \div 3 = i
        /\ 3 * i - 1 \in 1..(3 * N) /\ (3 * i - 1) % 3 = 2 /\ (3 * i - 1 + 2) \div 3 = i
        /\ 3 * i \in 1..(3 * N) /\ (3 * i) % 3 = 0 /\ (3 * i + 2) \div 3 = i
    BY OrderFacts
  <2>2. ASSUME NEW j \in 1..(3 * N)
        PROVE  /\ j % 3 = 1 => CopyPairs[j] = Instr("ca", (j + 2) \div 3)
               /\ j % 3 = 2 => CopyPairs[j] = Instr("crt", (j + 2) \div 3)
               /\ j % 3 = 0 => CopyPairs[j] = Instr("key", (j + 2) \div 3)
    <3>1. CopyPairs[j] = Instr(F(j), (j + 2) \div 3)
      BY <1>1
    <3>2. /\ j % 3 = 1 => F(j) = "ca"
          /\ j % 3 = 2 => F(j) = "crt"
          /\ j % 3 = 0 => F(j) = "key"
      OBVIOUS
    <3> HIDE DEF F
    <3> QED
      BY <3>1, <3>2
  <2> QED
    BY <2>1, <2>2
<1> QED
  BY <1>5, <1>6

\* One instruction for each service after m others.
LEMMA Appending ==
  ASSUME NEW s, NEW m \in Nat, NEW k \in Nat, k = m + N, Lists(s, m), NEW op \in Op
  PROVE  /\ Lists(Join(s, Each(op)), k)
         /\ \A i \in 1..m : Join(s, Each(op))[i] = s[i]
         /\ \A i \in 1..N : Join(s, Each(op))[m + i] = Instr(op, i)
<1>1. Lists(Each(op), N) /\ \A i \in 1..N : Each(op)[i] = Instr(op, i)
  BY EachFacts
<1>2. /\ Lists(Join(s, Each(op)), k)
      /\ \A i \in 1..m : Join(s, Each(op))[i] = s[i]
      /\ \A i \in 1..N : Join(s, Each(op))[m + i] = Each(op)[i]
  BY <1>1, OrderFacts, Concatenation
<1> QED
  BY <1>1, <1>2

\* Where deploy's step for an operation on the i-th service is.
Place(op, i) ==
  CASE op = "check" -> i
    [] op = "ca" -> N + 3 * i - 2
    [] op = "crt" -> N + 3 * i - 1
    [] op = "key" -> N + 3 * i
    [] op = "proxy" -> 4 * N + i
    [] op = "config" -> 5 * N + i
    [] op = "script" -> 6 * N + i
    [] op = "unit" -> 7 * N + i
    [] op = "install" -> 8 * N + i
    [] op = "reload" -> 9 * N + i
    [] op = "restart" -> 9 * N + 1 + i

\* There is one reload.
OnlyOnce(op, i) == op = "reload" => i = 1

\* Deploy does each operation at its place.
LEMMA DeployProgram ==
  /\ Len(Program("deploy")) = 10 * N + 1
  /\ \A op \in DeployOps, i \in 1..N : OnlyOnce(op, i) => Program("deploy")[Place(op, i)] = Instr(op, i)
<1> DEFINE A == Each("check")
           B == Join(A, CopyPairs)
           C == Join(B, Each("proxy"))
           D == Join(C, Each("config"))
           E == Join(D, Each("script"))
           F == Join(E, Each("unit"))
           G == Join(F, Each("install"))
           H == Join(G, Reload)
           P == Join(H, Each("restart"))
<1>0. /\ N \in Nat /\ N > 0
      /\ 3 * N \in Nat /\ 4 * N \in Nat /\ 5 * N \in Nat /\ 6 * N \in Nat /\ 7 * N \in Nat
      /\ 8 * N \in Nat /\ 9 * N \in Nat /\ 9 * N + 1 \in Nat /\ 10 * N + 1 \in Nat
      /\ 4 * N = N + 3 * N /\ 5 * N = 4 * N + N /\ 6 * N = 5 * N + N /\ 7 * N = 6 * N + N
      /\ 8 * N = 7 * N + N /\ 9 * N = 8 * N + N /\ 10 * N + 1 = 9 * N + 1 + N
  BY OrderFacts
<1>1. /\ Lists(A, N)
      /\ \A i \in 1..N : A[i] = Instr("check", i)
  BY EachFacts DEF Op, DeployOps
<1>2. /\ Lists(B, 4 * N)
      /\ \A i \in 1..N : B[i] = A[i]
      /\ \A i \in 1..(3 * N) : B[N + i] = CopyPairs[i]
  <2> HIDE DEF A
  <2> QED
    BY <1>0, <1>1, CopyFacts, Concatenation
<1>3. /\ Lists(C, 5 * N)
      /\ \A i \in 1..(4 * N) : C[i] = B[i]
      /\ \A i \in 1..N : C[4 * N + i] = Instr("proxy", i)
  <2> HIDE DEF B
  <2>1. "proxy" \in Op
    BY DEF Op, DeployOps
  <2> QED
    BY <1>0, <1>2, <2>1, Appending
<1>4. /\ Lists(D, 6 * N)
      /\ \A i \in 1..(5 * N) : D[i] = C[i]
      /\ \A i \in 1..N : D[5 * N + i] = Instr("config", i)
  <2> HIDE DEF C
  <2>1. "config" \in Op
    BY DEF Op, DeployOps
  <2> QED
    BY <1>0, <1>3, <2>1, Appending
<1>5. /\ Lists(E, 7 * N)
      /\ \A i \in 1..(6 * N) : E[i] = D[i]
      /\ \A i \in 1..N : E[6 * N + i] = Instr("script", i)
  <2> HIDE DEF D
  <2>1. "script" \in Op
    BY DEF Op, DeployOps
  <2> QED
    BY <1>0, <1>4, <2>1, Appending
<1>6. /\ Lists(F, 8 * N)
      /\ \A i \in 1..(7 * N) : F[i] = E[i]
      /\ \A i \in 1..N : F[7 * N + i] = Instr("unit", i)
  <2> HIDE DEF E
  <2>1. "unit" \in Op
    BY DEF Op, DeployOps
  <2> QED
    BY <1>0, <1>5, <2>1, Appending
<1>7. /\ Lists(G, 9 * N)
      /\ \A i \in 1..(8 * N) : G[i] = F[i]
      /\ \A i \in 1..N : G[8 * N + i] = Instr("install", i)
  <2> HIDE DEF F
  <2>1. "install" \in Op
    BY DEF Op, DeployOps
  <2> QED
    BY <1>0, <1>6, <2>1, Appending
<1>8. /\ Lists(H, 9 * N + 1)
      /\ \A i \in 1..(9 * N) : H[i] = G[i]
      /\ H[9 * N + 1] = Instr("reload", 1)
  <2> HIDE DEF G
  <2>1. /\ Lists(H, 9 * N + 1)
        /\ \A i \in 1..(9 * N) : H[i] = G[i]
        /\ \A i \in 1..1 : H[9 * N + i] = Reload[i]
    BY <1>0, <1>7, ReloadFacts, Concatenation
  <2> QED
    BY <2>1, ReloadFacts
<1>9. /\ Lists(P, 10 * N + 1)
      /\ \A i \in 1..(9 * N + 1) : P[i] = H[i]
      /\ \A i \in 1..N : P[9 * N + 1 + i] = Instr("restart", i)
  <2> HIDE DEF H
  <2>1. "restart" \in Op
    BY DEF Op, DeployOps
  <2> QED
    BY <1>0, <1>8, <2>1, Appending
<1>10. Program("deploy") = P
  BY DEF Program, Join
<1> HIDE DEF A, B, C, D, E, F, G, H, P
<1>11. ASSUME NEW j \in Nat, j > 0
       PROVE  /\ j <= 8 * N => P[j] = F[j]
              /\ j <= 7 * N => P[j] = E[j]
              /\ j <= 6 * N => P[j] = D[j]
              /\ j <= 5 * N => P[j] = C[j]
              /\ j <= 4 * N => P[j] = B[j]
              /\ j <= 9 * N => P[j] = G[j]
  <2>1. j <= 9 * N => P[j] = G[j]
    <3>1. j <= 9 * N => j \in 1..(9 * N + 1) /\ j \in 1..(9 * N)
      BY <1>0, <1>11
    <3> QED
      BY <1>8, <1>9, <3>1
  <2>2. j <= 8 * N => P[j] = F[j]
    <3>1. j <= 8 * N => j \in 1..(8 * N) /\ j <= 9 * N
      BY <1>0, <1>11
    <3> QED
      BY <1>7, <2>1, <3>1
  <2>3. j <= 7 * N => P[j] = E[j]
    <3>1. j <= 7 * N => j \in 1..(7 * N) /\ j <= 8 * N
      BY <1>0, <1>11
    <3> QED
      BY <1>6, <2>2, <3>1
  <2>4. j <= 6 * N => P[j] = D[j]
    <3>1. j <= 6 * N => j \in 1..(6 * N) /\ j <= 7 * N
      BY <1>0, <1>11
    <3> QED
      BY <1>5, <2>3, <3>1
  <2>5. j <= 5 * N => P[j] = C[j]
    <3>1. j <= 5 * N => j \in 1..(5 * N) /\ j <= 6 * N
      BY <1>0, <1>11
    <3> QED
      BY <1>4, <2>4, <3>1
  <2>6. j <= 4 * N => P[j] = B[j]
    <3>1. j <= 4 * N => j \in 1..(4 * N) /\ j <= 5 * N
      BY <1>0, <1>11
    <3> QED
      BY <1>3, <2>5, <3>1
  <2> QED
    BY <2>1, <2>2, <2>3, <2>4, <2>5, <2>6
<1>12. ASSUME NEW i \in 1..N
       PROVE  /\ P[i] = Instr("check", i)
              /\ P[N + 3 * i - 2] = Instr("ca", i)
              /\ P[N + 3 * i - 1] = Instr("crt", i)
              /\ P[N + 3 * i] = Instr("key", i)
  <2>1. P[i] = Instr("check", i)
    <3>1. i \in Nat /\ i > 0 /\ i <= 4 * N
      BY <1>0
    <3> QED
      BY <1>1, <1>2, <1>11, <3>1
  <2>2. ASSUME NEW j \in 1..(3 * N)
        PROVE  P[N + j] = CopyPairs[j]
    <3>1. N + j \in Nat /\ N + j > 0 /\ N + j <= 4 * N
      BY <1>0
    <3> QED
      BY <1>2, <1>11, <3>1
  <2>3. /\ 3 * i - 2 \in 1..(3 * N) /\ 3 * i - 1 \in 1..(3 * N) /\ 3 * i \in 1..(3 * N)
        /\ N + (3 * i - 2) = N + 3 * i - 2 /\ N + (3 * i - 1) = N + 3 * i - 1
    BY <1>0
  <2> QED
    BY <2>1, <2>2, <2>3, CopyFacts
<1>13. ASSUME NEW i \in 1..N
       PROVE  /\ P[4 * N + i] = Instr("proxy", i)
              /\ P[5 * N + i] = Instr("config", i)
              /\ P[6 * N + i] = Instr("script", i)
              /\ P[7 * N + i] = Instr("unit", i)
              /\ P[8 * N + i] = Instr("install", i)
  <2>1. P[4 * N + i] = Instr("proxy", i)
    <3>1. 4 * N + i \in Nat /\ 4 * N + i > 0 /\ 4 * N + i <= 5 * N
      BY <1>0
    <3> QED
      BY <1>3, <1>11, <3>1
  <2>2. P[5 * N + i] = Instr("config", i)
    <3>1. 5 * N + i \in Nat /\ 5 * N + i > 0 /\ 5 * N + i <= 6 * N
      BY <1>0
    <3> QED
      BY <1>4, <1>11, <3>1
  <2>3. P[6 * N + i] = Instr("script", i)
    <3>1. 6 * N + i \in Nat /\ 6 * N + i > 0 /\ 6 * N + i <= 7 * N
      BY <1>0
    <3> QED
      BY <1>5, <1>11, <3>1
  <2>4. P[7 * N + i] = Instr("unit", i)
    <3>1. 7 * N + i \in Nat /\ 7 * N + i > 0 /\ 7 * N + i <= 8 * N
      BY <1>0
    <3> QED
      BY <1>6, <1>11, <3>1
  <2>5. P[8 * N + i] = Instr("install", i)
    <3>1. 8 * N + i \in Nat /\ 8 * N + i > 0 /\ 8 * N + i <= 9 * N
      BY <1>0
    <3> QED
      BY <1>7, <1>11, <3>1
  <2> QED
    BY <2>1, <2>2, <2>3, <2>4, <2>5
<1>14. P[9 * N + 1] = Instr("reload", 1)
  <2>1. 9 * N + 1 \in 1..(9 * N + 1)
    BY <1>0
  <2> QED
    BY <1>8, <1>9, <2>1
<1>15. ASSUME NEW op \in DeployOps, NEW i \in 1..N, OnlyOnce(op, i)
       PROVE  P[Place(op, i)] = Instr(op, i)
  <2>1. CASE op \in {"check", "ca", "crt", "key"}
    BY <1>12, <2>1 DEF Place
  <2>2. CASE op \in {"proxy", "config", "script", "unit", "install"}
    BY <1>13, <2>2 DEF Place
  <2>3. CASE op = "reload"
    BY <1>14, <1>15, <2>3 DEF Place, OnlyOnce
  <2>4. CASE op = "restart"
    BY <1>9, <2>4 DEF Place
  <2> QED
    BY <2>1, <2>2, <2>3, <2>4 DEF DeployOps
<1> QED
  BY <1>9, <1>10, <1>15 DEF Lists

\* Where start, restart, stop and destroy do what.
LEMMA OtherPrograms ==
  /\ Len(Program("start")) = N /\ Len(Program("restart")) = N /\ Len(Program("stop")) = N
  /\ Len(Program("destroy")) = 2 * N + 1
  /\ \A i \in 1..N :
       /\ Program("start")[i] = Instr("start", i)
       /\ Program("restart")[i] = Instr("restart", i)
       /\ Program("stop")[i] = Instr("stop", N + 1 - i)
       /\ Program("destroy")[i] = Instr("stop", N + 1 - i)
       /\ Program("destroy")[N + i] = Instr("unlink", i)
  /\ Program("destroy")[2 * N + 1] = Instr("reload", 1)
<1>0. N \in Nat /\ 2 * N \in Nat /\ 2 * N + 1 \in Nat /\ 2 * N = N + N
  BY OrderFacts
<1> DEFINE A == Backwards("stop")
           B == Each("unlink")
           C == Join(A, B)
           D == Join(C, Reload)
<1>1. /\ Program("start") = Each("start") /\ Program("restart") = Each("restart")
      /\ Program("stop") = A /\ Program("destroy") = D
  BY DEF Program, Join
<1>2. /\ Lists(A, N)
      /\ \A i \in 1..N : A[i] = Instr("stop", N + 1 - i)
  BY BackwardsFacts DEF Op, DeployOps
<1>3. /\ Lists(B, N)
      /\ \A i \in 1..N : B[i] = Instr("unlink", i)
  BY EachFacts DEF Op, DeployOps
<1>4. /\ Lists(C, 2 * N)
      /\ \A i \in 1..N : C[i] = A[i]
      /\ \A i \in 1..N : C[N + i] = B[i]
  <2> HIDE DEF A, B
  <2> QED
    BY <1>0, <1>2, <1>3, Concatenation
<1>5. /\ Lists(D, 2 * N + 1)
      /\ \A i \in 1..(2 * N) : D[i] = C[i]
      /\ D[2 * N + 1] = Instr("reload", 1)
  <2> HIDE DEF C
  <2>1. /\ Lists(D, 2 * N + 1)
        /\ \A i \in 1..(2 * N) : D[i] = C[i]
        /\ \A i \in 1..1 : D[2 * N + i] = Reload[i]
    BY <1>0, <1>4, ReloadFacts, Concatenation
  <2> QED
    BY <2>1, ReloadFacts
<1> HIDE DEF A, B, C, D
<1>6. ASSUME NEW i \in 1..N
      PROVE  D[i] = Instr("stop", N + 1 - i) /\ D[N + i] = Instr("unlink", i)
  <2>1. i \in 1..(2 * N) /\ N + i \in 1..(2 * N)
    BY <1>0
  <2> QED
    BY <1>2, <1>3, <1>4, <1>5, <2>1
<1>7. /\ Lists(Each("start"), N) /\ \A i \in 1..N : Each("start")[i] = Instr("start", i)
      /\ Lists(Each("restart"), N) /\ \A i \in 1..N : Each("restart")[i] = Instr("restart", i)
  BY EachFacts DEF Op, DeployOps
<1> QED
  BY <1>1, <1>2, <1>5, <1>6, <1>7 DEF Lists

\* The places are in the program, and no two operations share one.
LEMMA PlaceBands ==
  ASSUME NEW op \in DeployOps, NEW i \in 1..N, OnlyOnce(op, i)
  PROVE  /\ Place(op, i) \in Nat
         /\ op = "check" => Place(op, i) >= 1 /\ Place(op, i) <= N
         /\ op \in {"ca", "crt", "key"} => Place(op, i) > N /\ Place(op, i) <= 4 * N
         /\ op = "proxy" => Place(op, i) > 4 * N /\ Place(op, i) <= 5 * N
         /\ op = "config" => Place(op, i) > 5 * N /\ Place(op, i) <= 6 * N
         /\ op = "script" => Place(op, i) > 6 * N /\ Place(op, i) <= 7 * N
         /\ op = "unit" => Place(op, i) > 7 * N /\ Place(op, i) <= 8 * N
         /\ op = "install" => Place(op, i) > 8 * N /\ Place(op, i) <= 9 * N
         /\ op = "reload" => Place(op, i) = 9 * N + 1
         /\ op = "restart" => Place(op, i) > 9 * N + 1 /\ Place(op, i) <= 10 * N + 1
<1>1. CASE op = "check"
  BY <1>1, OrderFacts DEF Place, OnlyOnce
<1>2. CASE op = "ca"
  BY <1>2, OrderFacts DEF Place, OnlyOnce
<1>3. CASE op = "crt"
  BY <1>3, OrderFacts DEF Place, OnlyOnce
<1>4. CASE op = "key"
  BY <1>4, OrderFacts DEF Place, OnlyOnce
<1>5. CASE op = "proxy"
  BY <1>5, OrderFacts DEF Place, OnlyOnce
<1>6. CASE op = "config"
  BY <1>6, OrderFacts DEF Place, OnlyOnce
<1>7. CASE op = "script"
  BY <1>7, OrderFacts DEF Place, OnlyOnce
<1>8. CASE op = "unit"
  BY <1>8, OrderFacts DEF Place, OnlyOnce
<1>9. CASE op = "install"
  BY <1>9, OrderFacts DEF Place, OnlyOnce
<1>10. CASE op = "reload"
  BY <1>10, OrderFacts DEF Place, OnlyOnce
<1>11. CASE op = "restart"
  BY <1>11, OrderFacts DEF Place, OnlyOnce
<1> QED
  BY <1>1, <1>2, <1>3, <1>4, <1>5, <1>6, <1>7, <1>8, <1>9, <1>10, <1>11 DEF DeployOps

LEMMA PlaceFacts ==
  ASSUME NEW op \in DeployOps, NEW i \in 1..N, OnlyOnce(op, i)
  PROVE  Place(op, i) \in 1..(10 * N + 1)
<1> DEFINE p == Place(op, i)
<1> HIDE DEF p
<1>1. p \in Nat /\ p >= 1 /\ p <= 10 * N + 1
  BY PlaceBands, OrderFacts DEF DeployOps, p
<1> QED
  BY <1>1, OrderFacts DEF p

LEMMA PlaceDistinct ==
  ASSUME NEW op \in DeployOps, NEW i \in 1..N, OnlyOnce(op, i),
         NEW other \in DeployOps, NEW j \in 1..N, OnlyOnce(other, j),
         Place(op, i) = Place(other, j)
  PROVE  op = other /\ i = j
<1>0. N \in Nat /\ N > 0 /\ i \in Nat /\ j \in Nat /\ Place(op, i) \in Nat
  BY OrderFacts, PlaceBands
<1>1. op = other \/ (op \in {"ca", "crt", "key"} /\ other \in {"ca", "crt", "key"})
  BY <1>0, PlaceBands DEF DeployOps
<1>2. CASE op \in {"ca", "crt", "key"} /\ other \in {"ca", "crt", "key"}
  BY <1>0, <1>2 DEF Place
<1>3. CASE op = other /\ op \notin {"ca", "crt", "key"}
  <2>1. CASE op = "check"
    BY <1>0, <1>3, <2>1 DEF Place, OnlyOnce
  <2>2. CASE op = "proxy"
    BY <1>0, <1>3, <2>2 DEF Place, OnlyOnce
  <2>3. CASE op = "config"
    BY <1>0, <1>3, <2>3 DEF Place, OnlyOnce
  <2>4. CASE op = "script"
    BY <1>0, <1>3, <2>4 DEF Place, OnlyOnce
  <2>5. CASE op = "unit"
    BY <1>0, <1>3, <2>5 DEF Place, OnlyOnce
  <2>6. CASE op = "install"
    BY <1>0, <1>3, <2>6 DEF Place, OnlyOnce
  <2>7. CASE op = "reload"
    BY <1>0, <1>3, <2>7 DEF Place, OnlyOnce
  <2>8. CASE op = "restart"
    BY <1>0, <1>3, <2>8 DEF Place, OnlyOnce
  <2> QED
    BY <1>3, <2>1, <2>2, <2>3, <2>4, <2>5, <2>6, <2>7, <2>8 DEF DeployOps
<1> QED
  BY <1>1, <1>2, <1>3

-----------------------------------------------------------------------------
(* Where a command is, and the types.                                      *)

Commands == {"deploy", "start", "stop", "restart", "destroy"}

Control ==
  /\ command \in Commands \cup {"none"}
  /\ half \in BOOLEAN /\ step \in Nat
  /\ command = "none" => step = 1 /\ ~half
  /\ command # "none" => step \in 1..(Len(Program(command)) + 1)

\* Nothing is written for a service but its own files.
Untouched == \A s \in Service : \A f \in Slot \ Has[s] : staged[s][f] = ABSENT

ControlInv == TypeOK /\ Control /\ Untouched

\* The step is the op on the k-th service.
At(op, k) ==
  \/ command = "deploy" /\ op \in DeployOps /\ OnlyOnce(op, k) /\ step = Place(op, k)
  \/ command = "start" /\ op = "start" /\ step = k
  \/ command = "restart" /\ op = "restart" /\ step = k
  \/ command \in {"stop", "destroy"} /\ op = "stop" /\ step = N + 1 - k
  \/ command = "destroy" /\ op = "unlink" /\ step = N + k
  \/ command = "destroy" /\ op = "reload" /\ step = 2 * N + 1 /\ k = 1

\* How long each program is.
LEMMA Lengths ==
  /\ Len(Program("deploy")) = 10 * N + 1
  /\ Len(Program("start")) = N /\ Len(Program("restart")) = N /\ Len(Program("stop")) = N
  /\ Len(Program("destroy")) = 2 * N + 1
  /\ \A c \in Commands : Len(Program(c)) \in 1..(10 * N + 1)
<1>1. /\ Len(Program("deploy")) = 10 * N + 1
      /\ Len(Program("start")) = N /\ Len(Program("restart")) = N /\ Len(Program("stop")) = N
      /\ Len(Program("destroy")) = 2 * N + 1
  BY DeployProgram, OtherPrograms
<1>2. N \in 1..(10 * N + 1) /\ 2 * N + 1 \in 1..(10 * N + 1) /\ 10 * N + 1 \in 1..(10 * N + 1)
  BY OrderFacts
<1>3. ASSUME NEW c \in Commands
      PROVE  Len(Program(c)) \in 1..(10 * N + 1)
  BY <1>1, <1>2, Zenon, <1>3 DEF Commands
<1> QED
  BY <1>1, <1>3

\* What an instruction says.
LEMMA InstrFields ==
  ASSUME NEW op, NEW k
  PROVE  Instr(op, k).op = op /\ Instr(op, k).service = Order[k]
BY DEF Instr

\* The step that a position names is at that position.
LEMMA AtMeans ==
  ASSUME NEW op, NEW k \in 1..N, At(op, k)
  PROVE  Program(command)[step] = Instr(op, k)
<1>1. CASE command = "deploy"
  <2>1. op \in DeployOps /\ OnlyOnce(op, k) /\ step = Place(op, k)
    BY <1>1, Zenon DEF At
  <2> QED
    BY <1>1, <2>1, DeployProgram
<1>2. CASE command \in {"start", "restart"}
  BY <1>2, OtherPrograms DEF At
<1>3. CASE command \in {"stop", "destroy"}
  <2>1. CASE op = "stop" /\ step = N + 1 - k
    <3>1. N + 1 - k \in 1..N /\ N + 1 - (N + 1 - k) = k
      BY OrderFacts
    <3>2. /\ Program("stop")[N + 1 - k] = Instr("stop", k)
          /\ Program("destroy")[N + 1 - k] = Instr("stop", k)
      BY <3>1, OtherPrograms
    <3> QED
      BY <1>3, <2>1, <3>2
  <2>2. CASE ~(op = "stop" /\ step = N + 1 - k)
    BY <1>3, <2>2, OtherPrograms DEF At
  <2> QED
    BY <2>1, <2>2
<1> QED
  BY <1>1, <1>2, <1>3 DEF At

\* Every step of deploy is at a place.
LEMMA Everywhere ==
  ASSUME NEW j \in 1..(10 * N + 1)
  PROVE  \E op \in DeployOps, k \in 1..N : OnlyOnce(op, k) /\ j = Place(op, k)
<1>0. N \in Nat /\ N > 0
  BY OrderFacts
<1>1. ASSUME NEW op \in DeployOps, NEW k \in 1..N, OnlyOnce(op, k), j = Place(op, k)
      PROVE  \E o \in DeployOps, i \in 1..N : OnlyOnce(o, i) /\ j = Place(o, i)
  BY <1>1
<1>2. CASE j <= N
  <2>1. j \in 1..N /\ j = Place("check", j) /\ OnlyOnce("check", j) /\ "check" \in DeployOps
    BY <1>0, <1>2 DEF Place, OnlyOnce, DeployOps
  <2> QED
    BY <1>1, <2>1
<1>3. CASE j > N /\ j <= 4 * N
  <2> DEFINE k == (j - N + 2) \div 3
  <2>1. k \in 1..N /\ (j = N + 3 * k - 2 \/ j = N + 3 * k - 1 \/ j = N + 3 * k)
    BY <1>0, <1>3
  <2> HIDE DEF k
  <2>2. PICK op \in {"ca", "crt", "key"} : j = Place(op, k)
    BY <2>1 DEF Place
  <2>3. op \in DeployOps /\ OnlyOnce(op, k)
    BY DEF DeployOps, OnlyOnce
  <2> QED
    BY <1>1, <2>1, <2>2, <2>3
<1>4. CASE j > 4 * N /\ j <= 5 * N
  <2>1. j - 4 * N \in 1..N /\ 4 * N + (j - 4 * N) = j
    BY <1>0, <1>4
  <2>2. j = Place("proxy", j - 4 * N) /\ OnlyOnce("proxy", j - 4 * N) /\ "proxy" \in DeployOps
    BY <2>1 DEF Place, OnlyOnce, DeployOps
  <2> QED
    BY <1>1, <2>1, <2>2
<1>5. CASE j > 5 * N /\ j <= 6 * N
  <2>1. j - 5 * N \in 1..N /\ 5 * N + (j - 5 * N) = j
    BY <1>0, <1>5
  <2>2. j = Place("config", j - 5 * N) /\ OnlyOnce("config", j - 5 * N) /\ "config" \in DeployOps
    BY <2>1 DEF Place, OnlyOnce, DeployOps
  <2> QED
    BY <1>1, <2>1, <2>2
<1>6. CASE j > 6 * N /\ j <= 7 * N
  <2>1. j - 6 * N \in 1..N /\ 6 * N + (j - 6 * N) = j
    BY <1>0, <1>6
  <2>2. j = Place("script", j - 6 * N) /\ OnlyOnce("script", j - 6 * N) /\ "script" \in DeployOps
    BY <2>1 DEF Place, OnlyOnce, DeployOps
  <2> QED
    BY <1>1, <2>1, <2>2
<1>7. CASE j > 7 * N /\ j <= 8 * N
  <2>1. j - 7 * N \in 1..N /\ 7 * N + (j - 7 * N) = j
    BY <1>0, <1>7
  <2>2. j = Place("unit", j - 7 * N) /\ OnlyOnce("unit", j - 7 * N) /\ "unit" \in DeployOps
    BY <2>1 DEF Place, OnlyOnce, DeployOps
  <2> QED
    BY <1>1, <2>1, <2>2
<1>8. CASE j > 8 * N /\ j <= 9 * N
  <2>1. j - 8 * N \in 1..N /\ 8 * N + (j - 8 * N) = j
    BY <1>0, <1>8
  <2>2. j = Place("install", j - 8 * N) /\ OnlyOnce("install", j - 8 * N) /\ "install" \in DeployOps
    BY <2>1 DEF Place, OnlyOnce, DeployOps
  <2> QED
    BY <1>1, <2>1, <2>2
<1>9. CASE j = 9 * N + 1
  <2>1. 1 \in 1..N /\ j = Place("reload", 1) /\ OnlyOnce("reload", 1) /\ "reload" \in DeployOps
    BY <1>0, <1>9 DEF Place, OnlyOnce, DeployOps
  <2> QED
    BY <1>1, <2>1
<1>10. CASE j > 9 * N + 1
  <2>1. j - (9 * N + 1) \in 1..N /\ 9 * N + 1 + (j - (9 * N + 1)) = j
    BY <1>0, <1>10
  <2>2. /\ j = Place("restart", j - (9 * N + 1)) /\ OnlyOnce("restart", j - (9 * N + 1))
        /\ "restart" \in DeployOps
    BY <2>1 DEF Place, OnlyOnce, DeployOps
  <2> QED
    BY <1>1, <2>1, <2>2
<1> QED
  BY <1>0, <1>2, <1>3, <1>4, <1>5, <1>6, <1>7, <1>8, <1>9, <1>10

\* Every step of a program is one of those.
LEMMA Somewhere ==
  ASSUME Control, command # "none", step \in 1..Len(Program(command))
  PROVE  \E k \in 1..N : \E op \in Op : At(op, k)
<1>0. N \in Nat /\ N > 0 /\ step \in Nat
  BY OrderFacts DEF Control
<1>1. CASE command = "deploy"
  <2>1. step \in 1..(10 * N + 1)
    BY <1>1, Lengths
  <2>2. PICK op \in DeployOps, k \in 1..N : OnlyOnce(op, k) /\ step = Place(op, k)
    BY <2>1, Everywhere
  <2>3. At(op, k) /\ op \in Op
    BY <1>1, <2>2 DEF At, Op
  <2> QED
    BY <2>3
<1>2. CASE command \in {"start", "restart"}
  <2>1. step \in 1..N /\ At(command, step)
    BY <1>2, Lengths DEF At
  <2>2. command \in Op
    BY <1>2 DEF Op, DeployOps
  <2> QED
    BY <2>1, <2>2
<1>3. CASE command \in {"stop", "destroy"}
  <2>1. step <= 2 * N + 1 /\ (command = "stop" => step <= N)
    BY <1>0, <1>3, Lengths
  <2>2. CASE step <= N
    <3>1. N + 1 - step \in 1..N /\ N + 1 - (N + 1 - step) = step
      BY <1>0, <2>2
    <3>2. At("stop", N + 1 - step)
      BY <1>3, <3>1 DEF At
    <3> QED
      BY <3>1, <3>2 DEF Op
  <2>3. CASE step > N /\ step <= 2 * N
    <3>1. step - N \in 1..N /\ N + (step - N) = step /\ command = "destroy"
      BY <1>0, <1>3, <2>1, <2>3
    <3>2. At("unlink", step - N)
      BY <3>1 DEF At
    <3> QED
      BY <3>1, <3>2 DEF Op
  <2>4. CASE step > 2 * N
    <3>1. 1 \in 1..N /\ step = 2 * N + 1 /\ command = "destroy"
      BY <1>0, <1>3, <2>1, <2>4
    <3>2. At("reload", 1)
      BY <3>1 DEF At
    <3> QED
      BY <3>1, <3>2 DEF Op, DeployOps
  <2> QED
    BY <1>0, <2>2, <2>3, <2>4
<1> QED
  BY <1>1, <1>2, <1>3 DEF Control, Commands

\* A command that does one of some operations stands at a step of one of them.
LEMMA Positions ==
  ASSUME Control, NEW ops, Doing(ops)
  PROVE  /\ step \in 1..Len(Program(command))
         /\ \E k \in 1..N : \E op \in Op \cap ops :
              At(op, k) /\ Here = Order[k] /\ Here \in Service /\ File = op
<1>1. command # "none" /\ step \in 1..Len(Program(command)) /\ Program(command)[step].op \in ops
  BY Lengths, OrderFacts DEF Doing, Control
<1>2. PICK k \in 1..N, op \in Op : At(op, k)
  BY <1>1, Somewhere
<1>3. Here = Order[k] /\ Program(command)[step].op = op
  BY <1>2, AtMeans, InstrFields DEF Here
<1>4. Order[k] \in Service
  BY OrderFacts
<1> QED
  BY <1>1, <1>2, <1>3, <1>4 DEF File

\* Where the step is says what it does.
LEMMA AtDoing ==
  ASSUME NEW op, NEW k \in 1..N, At(op, k)
  PROVE  /\ Here = Order[k] /\ File = op
         /\ \A ops : op \in ops => Doing(ops)
<1>1. Here = Order[k] /\ Program(command)[step].op = op
  BY AtMeans, InstrFields DEF Here
<1>2. command # "none" /\ step <= Len(Program(command))
  <2>1. CASE command = "deploy"
    <3>1. op \in DeployOps /\ OnlyOnce(op, k) /\ step = Place(op, k)
      BY <2>1, Zenon DEF At
    <3>2. step \in 1..(10 * N + 1)
      BY <3>1, PlaceFacts
    <3> QED
      BY <2>1, <3>2, Lengths, OrderFacts
  <2>2. CASE command # "deploy"
    BY <2>2, Lengths, OrderFacts DEF At
  <2> QED
    BY <2>1, <2>2
<1> QED
  BY <1>1, <1>2 DEF Doing, File

\* The process and its surroundings, apart.
ProcessOK ==
  /\ command \in Command \cup {"none"} /\ config \in Gen
  /\ step \in 1..(10 * N + 2) /\ half \in BOOLEAN
  /\ Control

Content == Gen \cup {ABSENT, TORN}
Startable == [Slot -> Gen \cup {ABSENT}]

SuppliesOK == pki \in [Service -> [Copied -> Gen]] /\ site \in Gen
FilesOK ==
  /\ staged \in [Service -> [Slot -> Content]]
  /\ installed \in [Service -> Content]
  /\ Untouched
RunningOK ==
  /\ running \in [Service -> Startable \cup {STOPPED}]
  /\ \A s \in Service : running[s] # STOPPED => \A f \in Has[s] : running[s][f] \in Gen
UnitsOK ==
  /\ loaded \in [Service -> Gen \cup {ABSENT}]
  /\ wanted \in [Service -> BOOLEAN]
  /\ RunningOK
CountsOK == faults \in 0..MaxFaults /\ cut \subseteq Service /\ spared \subseteq Service

StoresOK == SuppliesOK /\ FilesOK /\ UnitsOK /\ CountsOK

\* The process and the stores, apart.
LEMMA Split == ControlInv <=> ProcessOK /\ StoresOK
BY DEF ControlInv, TypeOK, ProcessOK, StoresOK, SuppliesOK, FilesOK, UnitsOK, RunningOK, CountsOK,
       Content, Startable, N

\* A command that is through with a step goes on to the next.
LEMMA ReturnMoves ==
  ASSUME ProcessOK, NEW ops, Doing(ops), Return
  PROVE  /\ ProcessOK' /\ UNCHANGED <<command, config>>
         /\ step' = step + 1 /\ half' = FALSE
<1>1. command # "none" /\ command \in Commands
  BY CommandAssumption DEF Doing, ProcessOK, Commands
<1>2. step \in 1..Len(Program(command)) /\ Len(Program(command)) \in 1..(10 * N + 1)
  BY <1>1, Positions, Lengths DEF ProcessOK
<1>3. step + 1 \in 1..(10 * N + 2) /\ step + 1 \in 1..(Len(Program(command)) + 1)
  BY <1>2, OrderFacts
<1>4. /\ command' = command /\ config' = config /\ step' = step + 1 /\ half' = FALSE
  BY DEF Return
<1>5. step + 1 \in Nat
  BY <1>3
<1>6. Control'
  BY <1>1, <1>3, <1>4, <1>5, Zenon DEF Control
<1>7. ProcessOK'
  BY <1>3, <1>4, <1>6 DEF ProcessOK
<1> QED
  BY <1>4, <1>7

\* A command in the middle of a step stays there.
LEMMA HalfwayMoves ==
  ASSUME ProcessOK, NEW ops, Doing(ops), Halfway
  PROVE  ProcessOK' /\ UNCHANGED <<command, config, step>> /\ half' = TRUE
<1>1. command # "none"
  BY DEF Doing
<1> QED
  BY <1>1 DEF ProcessOK, Control, Halfway

\* A command that ends leaves nothing of itself.
LEMMA ExitMoves ==
  ASSUME ProcessOK, Exit
  PROVE  ProcessOK' /\ command' = "none" /\ step' = 1 /\ half' = FALSE
<1>1. 1 \in 1..(10 * N + 2)
  BY OrderFacts
<1> QED
  BY <1>1 DEF ProcessOK, Control, Exit

\* What a write under runtime/ changes.
LEMMA StagedMoves ==
  ASSUME FilesOK, NEW s \in Service, NEW f \in Slot, NEW v \in Content,
         staged' = [staged EXCEPT ![s][f] = v]
  PROVE  /\ staged' \in [Service -> [Slot -> Content]]
         /\ staged'[s][f] = v
         /\ \A g \in Slot : g # f => staged'[s][g] = staged[s][g]
         /\ \A t \in Service : t # s => staged'[t] = staged[t]
<1>1. staged \in [Service -> [Slot -> Content]]
  BY DEF FilesOK
<1>2. staged[s] \in [Slot -> Content]
  BY <1>1
<1>3. staged' = [staged EXCEPT ![s] = [staged[s] EXCEPT ![f] = v]]
  BY <1>1
<1>4. [staged[s] EXCEPT ![f] = v] \in [Slot -> Content]
  BY <1>2
<1> QED
  BY <1>1, <1>2, <1>3, <1>4

\* A write of a file of the service leaves the files of no service alone.
LEMMA FilesMove ==
  ASSUME FilesOK, NEW s \in Service, NEW f \in Slot, NEW v \in Content, f \in Has[s],
         staged' = [staged EXCEPT ![s][f] = v], UNCHANGED installed
  PROVE  FilesOK'
<1>1. /\ staged' \in [Service -> [Slot -> Content]]
      /\ \A g \in Slot : g # f => staged'[s][g] = staged[s][g]
      /\ \A t \in Service : t # s => staged'[t] = staged[t]
  BY StagedMoves
<1>2. ASSUME NEW t \in Service, NEW g \in Slot, g \notin Has[t]
      PROVE  staged'[t][g] = ABSENT
  <2>1. staged'[t][g] = staged[t][g]
    BY <1>1, <1>2
  <2> QED
    BY <1>2, <2>1 DEF FilesOK, Untouched
<1> QED
  BY <1>1, <1>2 DEF FilesOK, Untouched

\* The generator makes units of what is installed, or none.
LEMMA GeneratedType ==
  ASSUME FilesOK
  PROVE  Generated \in [Service -> Gen \cup {ABSENT}]
BY DEF FilesOK, Generated, Content

\* A container that would run is started from whole files.
LEMMA StartedType ==
  ASSUME StoresOK, NEW s \in Service, Usable(s)
  PROVE  /\ StartedFrom(s) \in Startable
         /\ \A f \in Has[s] : StartedFrom(s)[f] \in Gen
<1>1. staged[s] \in [Slot -> Content] /\ loaded[s] \in Gen \cup {ABSENT}
  BY DEF StoresOK, FilesOK, UnitsOK
<1>2. /\ StartedFrom(s) \in [Slot -> Content]
      /\ \A f \in Slot : f # "unit" => StartedFrom(s)[f] = staged[s][f]
  BY <1>1 DEF StartedFrom, Content
<1>3. \A f \in Has[s] : StartedFrom(s)[f] \in Gen
  BY DEF Usable
<1>4. ASSUME NEW f \in Slot
      PROVE  StartedFrom(s)[f] \in Gen \cup {ABSENT}
  <2>1. CASE f \in Has[s]
    BY <1>3, <2>1
  <2>2. CASE f \notin Has[s]
    <3>1. f # "unit"
      BY <2>2, FileAssumption
    <3>2. staged[s][f] = ABSENT
      BY <2>2 DEF StoresOK, FilesOK, Untouched
    <3> QED
      BY <1>2, <3>1, <3>2
  <2> QED
    BY <2>1, <2>2
<1>5. StartedFrom(s) \in Startable
  BY <1>2, <1>4 DEF Startable
<1> QED
  BY <1>3, <1>5

\* What runs goes on, stops, or is started.
LEMMA RunningMoves ==
  ASSUME StoresOK, NEW r, r = [t \in Service |-> r[t]],
         \A t \in Service : r[t] \in {running[t], STOPPED} \/ (r[t] = StartedFrom(t) /\ Usable(t)),
         running' = r
  PROVE  RunningOK'
<1>1. ASSUME NEW t \in Service
      PROVE  /\ r[t] \in Startable \cup {STOPPED}
             /\ r[t] # STOPPED => \A f \in Has[t] : r[t][f] \in Gen
  BY StartedType DEF StoresOK, UnitsOK, RunningOK
<1>2. r \in [Service -> Startable \cup {STOPPED}]
  BY <1>1
<1> QED
  BY <1>1, <1>2 DEF RunningOK

\* Each action leaves the types in order.
LEMMA TypeSmall ==
  ASSUME ProcessOK, StoresOK, UNCHANGED vars \/ Begin \/ Finish \/ Interrupt \/ CheckPair
  PROVE  ProcessOK' /\ StoresOK'
<1> USE DEF files, units, process, history
<1>1. CASE UNCHANGED vars
  BY <1>1 DEF vars, ProcessOK, Control, StoresOK, SuppliesOK, FilesOK, Untouched, UnitsOK,
              RunningOK, CountsOK
<1>2. CASE Begin
  <2>1. command' \in Commands /\ step = 1 /\ ~half
    BY <1>2, CommandAssumption DEF Begin, ProcessOK, Control, Commands
  <2>2. 1 \in 1..(Len(Program(command')) + 1)
    BY <2>1, Lengths, OrderFacts
  <2>3. command' # "none"
    BY <2>1 DEF Commands
  <2>4. config' \in Gen /\ UNCHANGED <<step, half>> /\ command' \in Command
    BY <1>2 DEF Begin, StoresOK, SuppliesOK
  <2>5. Control'
    BY <2>1, <2>2, <2>3, <2>4, Zenon DEF Control, ProcessOK
  <2>6. ProcessOK'
    BY <2>4, <2>5 DEF ProcessOK
  <2> QED
    BY <1>2, <2>6 DEF Begin, StoresOK, SuppliesOK, FilesOK, Untouched, UnitsOK, RunningOK, CountsOK
<1>3. CASE Finish
  <2>1. ProcessOK'
    BY <1>3, ExitMoves DEF Finish
  <2> QED
    BY <1>3, <2>1 DEF Finish, StoresOK, SuppliesOK, FilesOK, Untouched, UnitsOK, RunningOK, CountsOK
<1>4. CASE Interrupt
  <2>1. ProcessOK'
    BY <1>4, ExitMoves DEF Interrupt, CutOff
  <2>2. CountsOK'
    BY <1>4, FaultAssumption DEF Interrupt, CutOff, Fault, StoresOK, CountsOK
  <2> QED
    BY <1>4, <2>1, <2>2 DEF Interrupt, StoresOK, SuppliesOK, FilesOK, Untouched, UnitsOK, RunningOK
<1>5. CASE CheckPair
  <2>1. ProcessOK'
    BY <1>5, ReturnMoves, ExitMoves DEF CheckPair
  <2> QED
    BY <1>5, <2>1 DEF CheckPair, StoresOK, SuppliesOK, FilesOK, Untouched, UnitsOK, RunningOK, CountsOK
<1> QED
  BY <1>1, <1>2, <1>3, <1>4, <1>5

LEMMA TypeWrite ==
  ASSUME ProcessOK, StoresOK, Copy \/ Render \/ Install \/ Unlink
  PROVE  ProcessOK' /\ StoresOK'
<1> USE DEF files, units, process, history
<1>0. Copied \subseteq Slot /\ {"config", "unit"} \subseteq Slot /\ FilesOK
  BY DEF Slot, StoresOK
<1>1. CASE Copy
  <2>1. ProcessOK'
    BY <1>1, ReturnMoves, HalfwayMoves DEF Copy
  <2>2. Here \in Service /\ File \in Copied
    BY <1>1, Positions DEF Copy, ProcessOK
  <2>3. pki[Here][File] \in Content /\ TORN \in Content
    BY <2>2 DEF StoresOK, SuppliesOK, Content
  <2>4. FilesOK'
    <3>1. CASE File \in Has[Here]
      <4>1. \E v \in Content : staged' = [staged EXCEPT ![Here][File] = v]
        BY <1>1, <2>3, <3>1 DEF Copy
      <4>2. PICK v \in Content : staged' = [staged EXCEPT ![Here][File] = v]
        BY <4>1
      <4> QED
        BY <1>0, <1>1, <2>2, <3>1, <4>2, FilesMove DEF Copy
    <3>2. CASE File \notin Has[Here]
      BY <1>0, <1>1, <3>2 DEF Copy, FilesOK, Untouched
    <3> QED
      BY <3>1, <3>2
  <2>5. CountsOK'
    BY <1>1 DEF Copy, Mend, StoresOK, CountsOK
  <2> QED
    BY <1>1, <2>1, <2>4, <2>5 DEF Copy, StoresOK, SuppliesOK, UnitsOK, RunningOK
<1>2. CASE Render
  <2>1. ProcessOK'
    BY <1>2, ReturnMoves DEF Render
  <2>2. Here \in Service /\ File \in {"config", "unit"}
    BY <1>2, Positions DEF Render, ProcessOK
  <2>3. config \in Content
    BY DEF ProcessOK, Content
  <2>4. FilesOK'
    <3>1. CASE File \in Has[Here]
      <4>1. staged' = [staged EXCEPT ![Here][File] = config]
        BY <1>2, <3>1 DEF Render
      <4> QED
        BY <1>0, <1>2, <2>2, <2>3, <3>1, <4>1, FilesMove DEF Render
    <3>2. CASE File \notin Has[Here]
      <4>1. staged' = [staged EXCEPT ![Here][File] = staged[Here][File]]
        BY <1>2, <3>2 DEF Render
      <4>2. staged' = staged
        BY <1>0, <2>2, <4>1 DEF FilesOK
      <4> QED
        BY <1>0, <1>2, <4>2 DEF Render, FilesOK, Untouched
    <3> QED
      BY <3>1, <3>2
  <2> QED
    BY <1>2, <2>1, <2>4 DEF Render, StoresOK, SuppliesOK, UnitsOK, RunningOK, CountsOK
<1>3. ASSUME NEW v \in Content, Here \in Service, installed' = [installed EXCEPT ![Here] = v],
             UNCHANGED <<pki, site, staged, units, faults, history>>
      PROVE  StoresOK'
  <2>1. installed' \in [Service -> Content]
    BY <1>0, <1>3 DEF FilesOK
  <2> QED
    BY <1>3, <2>1 DEF StoresOK, SuppliesOK, FilesOK, Untouched, UnitsOK, RunningOK, CountsOK
<1>4. CASE Install
  <2>1. ProcessOK'
    BY <1>4, ReturnMoves, HalfwayMoves DEF Install
  <2>2. Here \in Service
    BY <1>4, Positions DEF Install, ProcessOK
  <2>3. staged[Here]["unit"] \in Content /\ TORN \in Content
    BY <1>0, <2>2 DEF FilesOK, Content
  <2>4. \E v \in Content : installed' = [installed EXCEPT ![Here] = v]
    BY <1>4, <2>3 DEF Install
  <2> QED
    BY <1>3, <1>4, <2>1, <2>2, <2>4 DEF Install
<1>5. CASE Unlink
  <2>1. ProcessOK'
    BY <1>5, ReturnMoves DEF Unlink
  <2>2. Here \in Service
    BY <1>5, Positions DEF Unlink, ProcessOK
  <2>3. ABSENT \in Content
    BY DEF Content
  <2> QED
    BY <1>3, <1>5, <2>1, <2>2, <2>3 DEF Unlink
<1> QED
  BY <1>1, <1>2, <1>4, <1>5

LEMMA TypeService ==
  ASSUME ProcessOK, StoresOK, DaemonReload \/ StartOrRestart \/ Stop \/ StopFails
  PROVE  ProcessOK' /\ StoresOK'
<1> USE DEF files, units, process, history
<1>0. FilesOK /\ UnitsOK /\ RunningOK /\ CountsOK
  BY DEF StoresOK, UnitsOK
<1>1. CASE DaemonReload
  <2>1. ProcessOK'
    BY <1>1, ReturnMoves DEF DaemonReload
  <2>2. loaded' \in [Service -> Gen \cup {ABSENT}]
    BY <1>0, <1>1, GeneratedType DEF DaemonReload
  <2> QED
    BY <1>1, <2>1, <2>2
       DEF DaemonReload, StoresOK, SuppliesOK, FilesOK, Untouched, UnitsOK, RunningOK, CountsOK
<1>2. CASE StartOrRestart
  <2>1. ProcessOK'
    BY <1>2, ReturnMoves, HalfwayMoves, ExitMoves DEF StartOrRestart
  <2>2. UNCHANGED <<pki, site, staged, installed, loaded, faults, cut, spared>>
    BY <1>2 DEF StartOrRestart
  <2>3. UNCHANGED <<wanted, running>> \/ \E stopped : Submit(Here, stopped)
    BY <1>2 DEF StartOrRestart
  <2>4. wanted' \in [Service -> BOOLEAN]
    BY <1>0, <2>3 DEF UnitsOK, Submit
  <2>5. RunningOK'
    <3>1. CASE UNCHANGED running
      BY <1>0, <3>1 DEF RunningOK
    <3>2. CASE \E stopped : Submit(Here, stopped)
      <4>1. /\ running' = [t \in Service |-> running'[t]]
            /\ \A t \in Service : running'[t] \in {running[t], STOPPED}
        BY <3>2 DEF Submit
      <4> QED
        BY <4>1, RunningMoves
    <3> QED
      BY <2>3, <3>1, <3>2
  <2> QED
    BY <2>1, <2>2, <2>4, <2>5 DEF StoresOK, SuppliesOK, FilesOK, Untouched, UnitsOK, CountsOK
<1>3. CASE Stop
  <2>1. ProcessOK'
    BY <1>3, ReturnMoves, HalfwayMoves DEF Stop
  <2>2. UNCHANGED <<pki, site, staged, installed, loaded, running, faults, cut>>
    BY <1>3 DEF Stop
  <2>3. wanted' \in [Service -> BOOLEAN]
    BY <1>0, <1>3 DEF Stop, UnitsOK
  <2>4. spared' \subseteq Service
    BY <1>0, <1>3 DEF Stop, CountsOK
  <2> QED
    BY <2>1, <2>2, <2>3, <2>4
       DEF StoresOK, SuppliesOK, FilesOK, Untouched, UnitsOK, RunningOK, CountsOK
<1>4. CASE StopFails
  <2>1. ProcessOK' /\ Here \in Service
    BY <1>4, ReturnMoves, Positions DEF StopFails, ProcessOK
  <2>2. UNCHANGED <<pki, site, staged, installed, loaded, running>>
    BY <1>4 DEF StopFails
  <2>3. wanted' \in [Service -> BOOLEAN]
    <3>1. \E b \in BOOLEAN : wanted' = [wanted EXCEPT ![Here] = b]
      <4>1. wanted[Here] \in BOOLEAN
        BY <1>0, <2>1 DEF UnitsOK
      <4>2. (wanted[Here] \/ (half /\ running[Here] # STOPPED)) \in BOOLEAN
        OBVIOUS
      <4> QED
        BY <1>4, <4>2 DEF StopFails
    <3> QED
      BY <1>0, <3>1 DEF UnitsOK
  <2>4. CountsOK'
    BY <1>0, <1>4, <2>1, FaultAssumption DEF StopFails, Fault, CountsOK
  <2> QED
    BY <2>1, <2>2, <2>3, <2>4 DEF StoresOK, SuppliesOK, FilesOK, Untouched, UnitsOK, RunningOK
<1> QED
  BY <1>1, <1>2, <1>3, <1>4

LEMMA TypeAround ==
  ASSUME ProcessOK, StoresOK,
         Boot \/ Renew \/ \E s \in Service : Up(s) \/ Down(s) \/ Crash(s)
  PROVE  ProcessOK' /\ StoresOK'
<1> USE DEF files, units, process, history
<1>0. FilesOK /\ UnitsOK /\ RunningOK /\ CountsOK
  BY DEF StoresOK, UnitsOK
<1>1. CASE Boot
  <2>1. ProcessOK'
    BY <1>1, ExitMoves DEF Boot, CutOff
  <2>2. loaded' \in [Service -> Gen \cup {ABSENT}] /\ wanted' \in [Service -> BOOLEAN]
    BY <1>0, <1>1, GeneratedType DEF Boot
  <2>3. RunningOK'
    <3>1. /\ running' = [t \in Service |-> running'[t]]
          /\ \A t \in Service : running'[t] \in {running[t], STOPPED}
      BY <1>1 DEF Boot
    <3> QED
      BY <3>1, RunningMoves
  <2>4. CountsOK'
    BY <1>0, <1>1, FaultAssumption DEF Boot, CutOff, Fault, CountsOK
  <2> QED
    BY <1>1, <2>1, <2>2, <2>3, <2>4 DEF Boot, StoresOK, SuppliesOK, FilesOK, Untouched, UnitsOK
<1>2. CASE Renew
  <2>1. ProcessOK'
    BY <1>2 DEF Renew, ProcessOK, Control
  <2>2. pki' \in [Service -> [Copied -> Gen]] /\ site' \in Gen
    <3>1. CASE UNCHANGED pki
      BY <1>2, <3>1, GenAssumption DEF Renew, StoresOK, SuppliesOK, Gen
    <3>2. CASE /\ \/ \E s \in Service : \E r : pki' = [pki EXCEPT ![s] = r]
                  \/ \E r : pki' = [s \in Service |-> Renewed(r, s)]
               /\ \A s \in Service : pki'[s] \in [Copied -> Gen]
               /\ UNCHANGED site
      <4>1. DOMAIN pki' = Service /\ pki' = [s \in Service |-> pki'[s]]
        BY <3>2 DEF StoresOK, SuppliesOK
      <4> QED
        BY <3>2, <4>1 DEF StoresOK, SuppliesOK
    <3> QED
      BY <1>2, <3>1, <3>2 DEF Renew
  <2> QED
    BY <1>2, <2>1, <2>2 DEF Renew, StoresOK, SuppliesOK, FilesOK, Untouched, UnitsOK, RunningOK, CountsOK
<1>3. ASSUME NEW s \in Service, Up(s) \/ Down(s) \/ Crash(s)
      PROVE  ProcessOK' /\ StoresOK'
  <2>1. ProcessOK'
    BY <1>3 DEF Up, Down, Crash, ProcessOK, Control
  <2>2. faults' \in 0..MaxFaults /\ UNCHANGED <<cut, spared>>
    BY <1>0, <1>3, FaultAssumption DEF Up, Down, Crash, Fault, CountsOK
  <2>3. \/ running' = [running EXCEPT ![s] = STOPPED]
        \/ running' = [running EXCEPT ![s] = StartedFrom(s)] /\ Usable(s)
    BY <1>3 DEF Up, Down, Crash
  <2>4. RunningOK'
    <3>1. /\ running' = [t \in Service |-> running'[t]]
          /\ \A t \in Service :
               running'[t] \in {running[t], STOPPED} \/ (running'[t] = StartedFrom(t) /\ Usable(t))
      BY <1>0, <2>3 DEF RunningOK
    <3> QED
      BY <3>1, RunningMoves
  <2>5. UNCHANGED <<pki, site, staged, installed, loaded, wanted>>
    BY <1>3 DEF Up, Down, Crash
  <2> QED
    BY <1>0, <2>1, <2>2, <2>4, <2>5 DEF StoresOK, SuppliesOK, FilesOK, Untouched, UnitsOK, CountsOK
<1> QED
  BY <1>1, <1>2, <1>3

\* No step stores what does not belong.
LEMMA TypeStep ==
  ASSUME ControlInv, [Next]_vars
  PROVE  ControlInv'
<1>1. ProcessOK /\ StoresOK
  BY Split
<1>2. ProcessOK' /\ StoresOK'
  BY <1>1, TypeSmall, TypeWrite, TypeService, TypeAround, Zenon DEF Next, Proceed
<1> QED
  BY <1>2 DEF ControlInv, TypeOK, ProcessOK, StoresOK, SuppliesOK, FilesOK, Untouched, UnitsOK,
              RunningOK, CountsOK, Content, Startable, N

\* The checkout of a new host is in order.
LEMMA TypeInit == Init => ControlInv
<1> SUFFICES ASSUME Init PROVE ProcessOK /\ StoresOK
  BY Split
<1>1. /\ command = "none" /\ step = 1 /\ half = FALSE /\ config = 1 /\ faults = 0
      /\ cut = {} /\ spared = {}
  BY DEF Init
<1>2. 1 \in Gen /\ 1 \in 1..(10 * N + 2) /\ 0 \in 0..MaxFaults
  BY GenAssumption, FaultAssumption, OrderFacts DEF Gen
<1>3. ProcessOK
  BY <1>1, <1>2 DEF ProcessOK, Control
<1>4. SuppliesOK
  BY <1>2 DEF Init, SuppliesOK
<1>5. FilesOK
  <2>1. staged \in [Service -> [Slot -> Content]] /\ installed \in [Service -> Content]
    BY DEF Init, Content
  <2>2. Untouched
    BY DEF Init, Untouched
  <2> QED
    BY <2>1, <2>2 DEF FilesOK
<1>6. UnitsOK
  BY DEF Init, UnitsOK, RunningOK
<1>7. CountsOK
  BY <1>1, <1>2 DEF CountsOK
<1> QED
  BY <1>3, <1>4, <1>5, <1>6, <1>7 DEF StoresOK

\* Types and control are in order in every reachable state.
LEMMA TypeAlways == Spec => []ControlInv
<1>1. ControlInv /\ [Next]_vars => ControlInv'
  BY TypeStep
<1> QED
  BY <1>1, TypeInit, PTL DEF Spec

\* Every variable holds what the operator, elkctl or systemd can put there; what
\* is read half copied never becomes a unit, nor what a container runs from.
THEOREM TypeCorrect == Spec => []TypeOK
<1>1. ControlInv => TypeOK
  BY DEF ControlInv
<1> QED
  BY <1>1, TypeAlways, PTL

-----------------------------------------------------------------------------
(* What each step of a command changes.                                    *)

Wrote(s, f, v) ==
  /\ staged'[s][f] = v
  /\ \A g \in Slot : g # f => staged'[s][g] = staged[s][g]
  /\ \A t \in Service : t # s => staged'[t] = staged[t]

Forward == step' = step + 1 /\ half' = FALSE
Wait == step' = step /\ half' = TRUE

\* A step of systemd or of the operator.
Around ==
  /\ UNCHANGED <<files, loaded, wanted, command, step, half, config, history>>
  /\ Careful /\ command # "none" => UNCHANGED <<pki, site>>
  /\ \A t \in Service :
       \/ running'[t] \in {running[t], STOPPED}
       \/ running'[t] = StartedFrom(t) /\ Usable(t) /\ wanted[t]

\* The steps of deploy on the k-th service.
CheckMove(k) ==
  /\ step = Place("check", k) /\ Forward
  /\ pki[Order[k]]["crt"] = pki[Order[k]]["key"]
  /\ UNCHANGED <<files, units, cut>>

Mended(f, k) == IF f = "script" THEN cut \ {Order[k]} ELSE cut
CopyMove(f, k) ==
  /\ f \in Copied /\ step = Place(f, k)
  /\ \/ f \in Has[Order[k]] /\ Wrote(Order[k], f, TORN) /\ ~half /\ Wait /\ cut' = cut
     \/ f \in Has[Order[k]] /\ Wrote(Order[k], f, pki[Order[k]][f]) /\ Forward /\ cut' = Mended(f, k)
     \/ f \notin Has[Order[k]] /\ UNCHANGED staged /\ Forward /\ cut' = Mended(f, k)
  /\ UNCHANGED <<installed, units>>

RenderMove(f, k) ==
  /\ f \in {"config", "unit"} /\ step = Place(f, k) /\ Forward
  /\ \/ f \in Has[Order[k]] /\ Wrote(Order[k], f, config)
     \/ f \notin Has[Order[k]] /\ UNCHANGED staged
  /\ UNCHANGED <<installed, units, cut>>

InstallMove(k) ==
  /\ step = Place("install", k)
  /\ \A t \in Service : t # Order[k] => installed'[t] = installed[t]
  /\ \/ Forward /\ installed'[Order[k]] = staged[Order[k]]["unit"]
     \/ Wait
  /\ UNCHANGED <<staged, units, cut>>

ReloadMove ==
  /\ step = Place("reload", 1) /\ Forward
  /\ loaded' = Generated
  /\ UNCHANGED <<files, wanted, running, cut>>

RestartMove(k) ==
  /\ step = Place("restart", k)
  /\ \/ half /\ Forward /\ running[Order[k]] # STOPPED /\ UNCHANGED units
     \/ /\ ~half /\ Wait
        /\ wanted'[Order[k]] /\ running'[Order[k]] = STOPPED
        /\ \A t \in Service :
             (wanted[t] => wanted'[t]) /\ running'[t] \in {running[t], STOPPED}
        /\ UNCHANGED loaded
  /\ UNCHANGED <<files, cut>>

DeployMove(k) ==
  \/ CheckMove(k) \/ InstallMove(k) \/ ReloadMove \/ RestartMove(k)
  \/ \E f \in Copied : CopyMove(f, k)
  \/ \E f \in {"config", "unit"} : RenderMove(f, k)

\* systemd and the operator leave the command alone.
LEMMA AroundMoves ==
  ASSUME ControlInv, NEW s \in Service, Up(s) \/ Down(s) \/ Crash(s)
  PROVE  Around /\ UNCHANGED <<pki, site>>
<1>1. UNCHANGED <<pki, site, files, loaded, wanted, command, step, half, config, history>>
  BY DEF Up, Down, Crash, files, process, history
<1>2. running \in [Service -> Startable \cup {STOPPED}]
  BY Split DEF StoresOK, UnitsOK, RunningOK
<1>3. \/ running' = [running EXCEPT ![s] = STOPPED]
      \/ running' = [running EXCEPT ![s] = StartedFrom(s)] /\ Usable(s) /\ wanted[s]
  BY DEF Up, Down, Crash
<1>4. \A t \in Service :
        \/ running'[t] \in {running[t], STOPPED}
        \/ running'[t] = StartedFrom(t) /\ Usable(t) /\ wanted[t]
  BY <1>2, <1>3
<1> QED
  BY <1>1, <1>4 DEF Around, files

\* The operator's renewal leaves the containers alone.
LEMMA RenewMoves ==
  ASSUME Renew \/ UNCHANGED vars
  PROVE  Around /\ UNCHANGED <<running, faults>>
BY DEF Renew, vars, Around, files, units, process, history

\* The jobs of a start or a restart.
LEMMA SubmitMoves ==
  ASSUME ControlInv, NEW s \in Service, NEW stopped, Submit(s, stopped)
  PROVE  /\ wanted'[s]
         /\ s \in stopped => running'[s] = STOPPED
         /\ \A t \in Service :
              (wanted[t] => wanted'[t]) /\ running'[t] \in {running[t], STOPPED}
BY DEF Submit

\* A write under runtime/ writes one file.
LEMMA WriteMoves ==
  ASSUME FilesOK, NEW s \in Service, NEW f \in Slot, NEW v \in Content,
         staged' = [staged EXCEPT ![s][f] = v]
  PROVE  Wrote(s, f, v)
BY StagedMoves DEF Wrote

\* A copy begins or ends.
LEMMA CopyMoves ==
  ASSUME ControlInv, Copy
  PROVE  /\ command = "deploy" /\ UNCHANGED <<command, config, pki, site, spared, faults>>
         /\ \E k \in 1..N, f \in Copied : At(f, k) /\ CopyMove(f, k)
<1>0. Control /\ StoresOK /\ FilesOK /\ "deploy" # "none"
  BY Split DEF ControlInv, StoresOK
<1>1. PICK k \in 1..N, f \in Copied :
        At(f, k) /\ Here = Order[k] /\ Here \in Service /\ File = f
  BY <1>0, Positions DEF Copy
<1>2. f \in Slot /\ pki[Here][f] \in Content /\ TORN \in Content
  BY <1>0, <1>1 DEF StoresOK, SuppliesOK, Content, Slot
<1>3. command = "deploy" /\ step = Place(f, k)
  BY <1>1 DEF At, Copied, Pair, Shared
<1>4. CASE Halfway
  <2>1. /\ File \in Has[Here] /\ ~half /\ UNCHANGED cut
        /\ staged' = [staged EXCEPT ![Here][File] = TORN]
    <3>1. half' # FALSE
      BY <1>4 DEF Halfway
    <3> QED
      BY <3>1 DEF Copy, Return
  <2>2. Wrote(Order[k], f, TORN)
    <3>1. staged' = [staged EXCEPT ![Here][f] = TORN]
      BY <1>1, <2>1
    <3>2. Wrote(Here, f, TORN)
      BY <1>0, <1>1, <1>2, <3>1, WriteMoves
    <3> QED
      BY <1>1, <3>2
  <2>3. CopyMove(f, k)
    BY <1>1, <1>3, <1>4, <2>1, <2>2 DEF CopyMove, Copy, Halfway, Wait
  <2> QED
    BY <1>1, <1>3, <1>4, <2>3 DEF Copy, Halfway
<1>5. CASE Return
  <2>1. /\ Mend
        /\ staged' = IF File \in Has[Here]
                       THEN [staged EXCEPT ![Here][File] = pki[Here][File]] ELSE staged
    <3>1. half' # TRUE
      BY <1>5 DEF Return
    <3> QED
      BY <3>1 DEF Copy, Halfway
  <2>2. f \in Has[Order[k]] => Wrote(Order[k], f, pki[Order[k]][f])
    <3> SUFFICES ASSUME f \in Has[Order[k]] PROVE Wrote(Order[k], f, pki[Order[k]][f])
      OBVIOUS
    <3>1. staged' = [staged EXCEPT ![Here][f] = pki[Here][f]]
      BY <1>1, <2>1
    <3>2. Wrote(Here, f, pki[Here][f])
      BY <1>0, <1>1, <1>2, <3>1, WriteMoves
    <3> QED
      BY <1>1, <3>2
  <2>3. cut' = Mended(f, k)
    BY <1>1, <2>1 DEF Mend, Mended
  <2>4. CopyMove(f, k)
    BY <1>1, <1>3, <1>5, <2>1, <2>2, <2>3 DEF CopyMove, Copy, Return, Forward
  <2> QED
    BY <1>1, <1>3, <1>5, <2>4 DEF Copy, Return
<1> QED
  BY <1>4, <1>5 DEF Copy

\* A configuration or a unit is rendered.
LEMMA RenderMoves ==
  ASSUME ControlInv, Render
  PROVE  /\ command = "deploy"
         /\ UNCHANGED <<command, config, pki, site, spared, faults>>
         /\ \E k \in 1..N, f \in {"config", "unit"} : At(f, k) /\ RenderMove(f, k)
<1>0. Control /\ ProcessOK /\ StoresOK /\ FilesOK
  BY Split DEF ControlInv, StoresOK
<1>1. PICK k \in 1..N, f \in {"config", "unit"} :
        At(f, k) /\ Here = Order[k] /\ Here \in Service /\ File = f
  BY <1>0, Positions DEF Render
<1>2. staged' = [staged EXCEPT ![Here][f] = IF f \in Has[Here] THEN config ELSE @] /\ Return
  BY <1>1 DEF Render
<1>3. f \in Slot /\ config \in Content
  BY <1>0, <1>1 DEF ProcessOK, Content, Slot
<1>4. f \notin Has[Here] => staged' = staged
  BY <1>0, <1>1, <1>2, <1>3 DEF FilesOK
<1>5. command = "deploy" /\ step = Place(f, k)
  BY <1>1 DEF At
<1>6. f \in Has[Here] => Wrote(Order[k], f, config)
  <2> SUFFICES ASSUME f \in Has[Here] PROVE Wrote(Order[k], f, config)
    OBVIOUS
  <2>1. staged' = [staged EXCEPT ![Here][f] = config]
    BY <1>1, <1>2
  <2>2. Wrote(Here, f, config)
    BY <1>0, <1>1, <1>3, <2>1, WriteMoves
  <2> QED
    BY <1>1, <2>2
<1>7. RenderMove(f, k)
  BY <1>1, <1>2, <1>4, <1>5, <1>6 DEF RenderMove, Render, Return, Forward, history
<1> QED
  BY <1>1, <1>2, <1>5, <1>7 DEF Render, Return, history

\* Every step of a deploy that goes on is one of its moves, or one of its
\* surroundings.
LEMMA DeploySteps ==
  ASSUME ControlInv, [Next]_vars, command = "deploy", command' = "deploy"
  PROVE  /\ config' = config
         /\ Around \/ (UNCHANGED <<pki, site>> /\ \E k \in 1..N : DeployMove(k))
<1> USE DEF files, units, history
<1>0. Control /\ ProcessOK /\ StoresOK
  BY Split DEF ControlInv
<1>1. ASSUME NEW ops, Doing(ops)
      PROVE  \E k \in 1..N : \E op \in Op \cap ops :
               At(op, k) /\ Here = Order[k] /\ Here \in Service /\ File = op
  BY <1>0, <1>1, Positions
<1>2. CASE CheckPair
  <2>1. Return /\ pki[Here]["crt"] = pki[Here]["key"]
    BY <1>2 DEF CheckPair, Exit
  <2>2. PICK k \in 1..N : At("check", k) /\ Here = Order[k]
    BY <1>1, <1>2 DEF CheckPair
  <2>3. DeployMove(k)
    BY <1>2, <2>1, <2>2 DEF CheckPair, At, DeployMove, CheckMove, Return, Forward
  <2> QED
    BY <1>2, <2>1, <2>3 DEF CheckPair, Return
<1>3. CASE Copy
  <2>1. \E k \in 1..N : DeployMove(k)
    BY <1>3, CopyMoves DEF DeployMove
  <2> QED
    BY <1>3, <2>1, CopyMoves
<1>4. CASE Render
  <2>1. \E k \in 1..N : DeployMove(k)
    BY <1>4, RenderMoves DEF DeployMove
  <2> QED
    BY <1>4, <2>1, RenderMoves
<1>5. CASE Install
  <2>1. PICK k \in 1..N : At("install", k) /\ Here = Order[k] /\ Here \in Service
    BY <1>1, <1>5 DEF Install
  <2>2. \/ installed' = [installed EXCEPT ![Here] = staged[Here]["unit"]] /\ Return
        \/ installed' = [installed EXCEPT ![Here] = TORN] /\ Halfway
    BY <1>5 DEF Install
  <2>3. installed \in [Service -> Content]
    BY <1>0 DEF StoresOK, FilesOK
  <2>4. /\ \A t \in Service : t # Order[k] => installed'[t] = installed[t]
        /\ \/ Forward /\ installed'[Order[k]] = staged[Order[k]]["unit"]
           \/ Wait
    BY <2>1, <2>2, <2>3 DEF Return, Halfway, Forward, Wait
  <2>5. DeployMove(k)
    BY <1>5, <2>1, <2>4 DEF Install, At, DeployMove, InstallMove
  <2> QED
    BY <1>5, <2>2, <2>5 DEF Install, Return, Halfway
<1>6. CASE Unlink
  BY <1>1, <1>6 DEF Unlink, At, DeployOps
<1>7. CASE DaemonReload
  <2>1. PICK k \in 1..N : At("reload", k)
    BY <1>1, <1>7 DEF DaemonReload
  <2>2. step = Place("reload", 1)
    BY <2>1 DEF At, OnlyOnce
  <2>3. DeployMove(k)
    BY <1>7, <2>2 DEF DaemonReload, DeployMove, ReloadMove, Return, Forward
  <2> QED
    BY <1>7, <2>3 DEF DaemonReload, Return
<1>8. CASE StartOrRestart
  <2>1. PICK k \in 1..N, op \in {"start", "restart"} :
          At(op, k) /\ Here = Order[k] /\ Here \in Service /\ File = op
    BY <1>1, <1>8 DEF StartOrRestart
  <2>2. step = Place("restart", k) /\ op = "restart"
    BY <2>1 DEF At, DeployOps
  <2>3. Doing({"restart"})
    BY <2>1, <2>2, AtDoing
  <2>4. ~Exit
    BY DEF Exit
  <2>5. CASE half
    <3>1. running[Here] # STOPPED /\ Return /\ UNCHANGED units
      BY <1>8, <2>4, <2>5 DEF StartOrRestart
    <3>2. DeployMove(k)
      BY <1>8, <2>1, <2>2, <2>5, <3>1 DEF StartOrRestart, DeployMove, RestartMove, Return, Forward
    <3> QED
      BY <1>8, <3>1, <3>2 DEF StartOrRestart, Return
  <2>6. CASE ~half
    <3>1. PICK stopped : Here \in stopped /\ Submit(Here, stopped)
      BY <1>8, <2>3, <2>4, <2>6 DEF StartOrRestart
    <3>2. Halfway /\ UNCHANGED loaded
      BY <1>8, <2>4, <2>6 DEF StartOrRestart
    <3>3. /\ wanted'[Order[k]] /\ running'[Order[k]] = STOPPED
          /\ \A t \in Service :
               (wanted[t] => wanted'[t]) /\ running'[t] \in {running[t], STOPPED}
      BY <2>1, <3>1, SubmitMoves
    <3>4. DeployMove(k)
      BY <1>8, <2>2, <2>6, <3>2, <3>3 DEF StartOrRestart, DeployMove, RestartMove, Halfway, Wait
    <3> QED
      BY <1>8, <3>2, <3>4 DEF StartOrRestart, Halfway
  <2> QED
    BY <2>5, <2>6
<1>9. CASE Stop \/ StopFails
  BY <1>1, <1>9 DEF Stop, StopFails, At, DeployOps
<1>10. CASE Begin \/ Finish \/ Interrupt \/ Boot
  BY <1>10 DEF Begin, Finish, Interrupt, Boot, CutOff, Exit
<1>11. CASE Renew \/ UNCHANGED vars
  BY <1>11, RenewMoves DEF Around
<1>12. ASSUME NEW s \in Service, Up(s) \/ Down(s) \/ Crash(s)
       PROVE  Around /\ config' = config
  BY <1>12, AroundMoves DEF Around
<1> QED
  BY <1>2, <1>3, <1>4, <1>5, <1>6, <1>7, <1>8, <1>9, <1>10, <1>11, <1>12 DEF Next, Proceed

\* A command is only entered by Begin, at its first step.
LEMMA Entering ==
  ASSUME ControlInv, [Next]_vars, command' # "none", command' # command
  PROVE  command = "none" /\ step' = 1 /\ ~half' /\ config' = site' /\ UNCHANGED <<pki, site>>
<1>1. Begin
  BY DEF Next, Proceed, Finish, CheckPair, Copy, Render, Install, Unlink, DaemonReload,
         StartOrRestart, Stop, StopFails, Interrupt, Boot, CutOff, Renew, Up, Down, Crash,
         Return, Halfway, Exit, vars, process
<1> QED
  BY <1>1 DEF Begin, ControlInv, Control

-----------------------------------------------------------------------------
(* What deploy has done so far.                                            *)

\* Deploy has passed its step for the operation on the i-th service.
Done(op, i) == step > Place(op, i)

\* A step of deploy passes itself and nothing else.
LEMMA Passing ==
  ASSUME ControlInv, NEW op \in DeployOps, NEW k \in 1..N, OnlyOnce(op, k), step = Place(op, k),
         Forward \/ Wait,
         NEW other \in DeployOps, NEW i \in 1..N, OnlyOnce(other, i)
  PROVE  /\ step \in Nat /\ step' \in Nat
         /\ Done(other, i) => Done(other, i)'
         /\ Done(other, i)' => Done(other, i) \/ (other = op /\ i = k /\ Forward)
         /\ other = op /\ i = k => ~Done(other, i)
         /\ half' => Wait
<1>1. /\ step \in Nat /\ Place(other, i) \in Nat
      /\ step' = step \/ step' = step + 1
  BY PlaceBands DEF ControlInv, Control, Forward, Wait
<1>2. step = Place(other, i) => other = op /\ i = k
  BY PlaceDistinct
<1>3. Done(other, i)' <=> step' > Place(other, i)
  BY DEF Done
<1>4. step' = step => ~Forward
  BY <1>1 DEF Forward
<1>5. half' => Wait
  BY DEF Forward, Wait
<1>6. Done(other, i)' => Done(other, i) \/ (step = Place(other, i) /\ Forward)
  BY <1>1, <1>3, <1>4 DEF Done, Wait
<1>7. Done(other, i) => Done(other, i)'
  BY <1>1, <1>3 DEF Done
<1>8. other = op /\ i = k => ~Done(other, i)
  BY <1>1 DEF Done
<1> QED
  BY <1>1, <1>2, <1>5, <1>6, <1>7, <1>8

\* Before its restarts deploy has done no restart.
LEMMA NoRestartYet ==
  ASSUME ControlInv, NEW op \in DeployOps, NEW k \in 1..N, OnlyOnce(op, k), step = Place(op, k),
         Forward \/ Wait, op # "restart", NEW i \in 1..N
  PROVE  ~Done("restart", i)' /\ ~(step' = Place("restart", i) /\ half')
<1>0. "restart" \in DeployOps /\ OnlyOnce("restart", i)
  BY DEF DeployOps, OnlyOnce
<1>1. ~Done("restart", i)
  BY <1>0, PlaceBands, OrderFacts DEF Done, DeployOps
<1>2. ~Done("restart", i)'
  BY <1>0, <1>1, Passing
<1>3. step' = Place("restart", i) /\ half' => step = Place("restart", i)
  BY DEF Forward, Wait
<1>4. step # Place("restart", i)
  BY <1>0, PlaceDistinct
<1> QED
  BY <1>2, <1>3, <1>4

\* Of the i-th service, whatever the operator does meanwhile.
Deployed(i) ==
  LET s == Order[i]
  IN  /\ Done("config", i) /\ "config" \in Has[s] => staged[s]["config"] = config
      /\ Done("unit", i) => staged[s]["unit"] = config
      /\ Done("install", i) => installed[s] = config
      /\ Done("reload", 1) => loaded[s] = config
      /\ Done("restart", i) => wanted[s] /\ Usable(s)
      /\ step = Place("restart", i) /\ half => wanted[s] /\ (running[s] # STOPPED => Usable(s))

DeployInv == command = "deploy" => \A i \in 1..N : Deployed(i)

\* Whether a service can start depends on its files and its unit alone.
LEMMA UsableDepends ==
  ASSUME NEW s \in Service, staged'[s] = staged[s], loaded'[s] = loaded[s]
  PROVE  Usable(s)' <=> Usable(s)
BY DEF Usable, StartedFrom

\* A step before the restarts that changes neither what is rendered nor what is
\* installed or loaded.
LEMMA DeployedKept ==
  ASSUME ControlInv, NEW i \in 1..N, Deployed(i), config' = config,
         NEW op \in DeployOps, NEW k \in 1..N, OnlyOnce(op, k), step = Place(op, k),
         Forward \/ Wait, op \in Copied \cup {"check"},
         \A g \in {"config", "unit"} : staged'[Order[i]][g] = staged[Order[i]][g],
         UNCHANGED <<installed, loaded>>
  PROVE  Deployed(i)'
<1>0. /\ {"config", "unit", "install", "reload", "restart"} \subseteq DeployOps
      /\ \A other \in {"config", "unit", "install", "restart"} : OnlyOnce(other, i)
      /\ 1 \in 1..N /\ OnlyOnce("reload", 1)
      /\ op \notin {"config", "unit", "install", "reload", "restart"}
  BY OrderFacts DEF DeployOps, OnlyOnce, Copied, Pair, Shared
<1>1. \A other \in {"config", "unit", "install"} : Done(other, i)' => Done(other, i)
  BY <1>0, Passing
<1>2. Done("reload", 1)' => Done("reload", 1)
  BY <1>0, Passing
<1>3. ~Done("restart", i)' /\ ~(step' = Place("restart", i) /\ half')
  BY <1>0, NoRestartYet
<1> QED
  BY <1>1, <1>2, <1>3 DEF Deployed

\* A configuration or a unit is rendered.
LEMMA DeployedRendered ==
  ASSUME ControlInv, NEW i \in 1..N, Deployed(i), config' = config,
         NEW k \in 1..N, NEW f \in {"config", "unit"}, RenderMove(f, k)
  PROVE  Deployed(i)'
<1> USE DEF units
<1>0. /\ {"config", "unit", "install", "reload", "restart"} \subseteq DeployOps
      /\ \A other \in {"config", "unit", "install", "restart"} : OnlyOnce(other, i)
      /\ 1 \in 1..N /\ OnlyOnce("reload", 1) /\ OnlyOnce(f, k) /\ f \in DeployOps
      /\ f \notin {"install", "reload", "restart"}
      /\ "unit" \in Has[Order[k]] /\ Order[i] \in Service /\ Order[k] \in Service
      /\ (Order[i] = Order[k] => i = k) /\ {"config", "unit"} \subseteq Slot
  BY OrderFacts, FileAssumption DEF DeployOps, OnlyOnce, Slot
<1>1. step = Place(f, k) /\ Forward /\ UNCHANGED <<installed, loaded>>
  BY DEF RenderMove
<1>2. /\ \A other \in {"config", "unit", "install"} :
           Done(other, i)' => Done(other, i) \/ (other = f /\ i = k)
      /\ Done("reload", 1)' => Done("reload", 1)
      /\ ~Done("restart", i)' /\ ~(step' = Place("restart", i) /\ half')
  BY <1>0, <1>1, Passing, NoRestartYet
<1>3. ASSUME NEW g \in {"config", "unit"}
      PROVE  \/ staged'[Order[i]][g] = staged[Order[i]][g] /\ ~(g = f /\ i = k /\ g \in Has[Order[i]])
             \/ staged'[Order[i]][g] = config
  BY <1>0 DEF RenderMove, Wrote
<1>4. ASSUME NEW g \in {"config", "unit"}, Done(g, i)', g \in Has[Order[i]],
             Done(g, i) => staged[Order[i]][g] = config
      PROVE  staged'[Order[i]][g] = config
  BY <1>2, <1>3, <1>4
<1>5. Done("config", i)' /\ "config" \in Has[Order[i]] => staged'[Order[i]]["config"] = config
  BY <1>4 DEF Deployed
<1>6. Done("unit", i)' => staged'[Order[i]]["unit"] = config
  <2>1. "unit" \in Has[Order[i]]
    BY <1>0, FileAssumption
  <2> QED
    BY <1>4, <2>1 DEF Deployed
<1>7. Done("install", i)' => installed'[Order[i]] = config
  BY <1>0, <1>1, <1>2 DEF Deployed
<1>8. Done("reload", 1)' => loaded'[Order[i]] = config
  BY <1>1, <1>2 DEF Deployed
<1> QED
  BY <1>2, <1>5, <1>6, <1>7, <1>8, Zenon DEF Deployed

\* A unit is installed.
LEMMA DeployedInstalled ==
  ASSUME ControlInv, NEW i \in 1..N, Deployed(i), config' = config,
         NEW k \in 1..N, InstallMove(k)
  PROVE  Deployed(i)'
<1> USE DEF units
<1>0. /\ {"config", "unit", "install", "reload", "restart"} \subseteq DeployOps
      /\ \A other \in {"config", "unit", "install", "restart"} : OnlyOnce(other, i)
      /\ 1 \in 1..N /\ OnlyOnce("reload", 1) /\ OnlyOnce("install", k)
      /\ (Order[i] = Order[k] => i = k) /\ Order[i] \in Service
  BY OrderFacts DEF DeployOps, OnlyOnce
<1>1. step = Place("install", k) /\ (Forward \/ Wait) /\ UNCHANGED <<staged, loaded>>
  BY DEF InstallMove
<1>2. /\ \A other \in {"config", "unit"} : Done(other, i)' => Done(other, i)
      /\ Done("install", i)' => Done("install", i) \/ (i = k /\ Forward)
      /\ i = k => ~Done("install", i)
      /\ Done("reload", 1)' => Done("reload", 1)
      /\ ~Done("restart", i)' /\ ~(step' = Place("restart", i) /\ half')
  BY <1>0, <1>1, Passing, NoRestartYet
<1>3. Done("install", i)' => installed'[Order[i]] = config
  <2>1. CASE i = k
    <3>1. Done("unit", i)
      BY <1>0, <1>1, <2>1, PlaceBands, OrderFacts DEF Done
    <3>2. staged[Order[i]]["unit"] = config
      BY <3>1 DEF Deployed
    <3>3. step' = step /\ step \in Nat => ~Forward
      BY DEF Forward
    <3>4. step \in Nat
      BY DEF ControlInv, Control
    <3> QED
      BY <1>2, <2>1, <3>2, <3>3, <3>4 DEF InstallMove, Wait
  <2>2. CASE i # k
    BY <1>0, <1>2, <2>2 DEF InstallMove, Deployed
  <2> QED
    BY <2>1, <2>2
<1> QED
  BY <1>1, <1>2, <1>3, Zenon DEF Deployed

\* What is installed is loaded.
LEMMA DeployedLoaded ==
  ASSUME ControlInv, NEW i \in 1..N, Deployed(i), config' = config, ReloadMove
  PROVE  Deployed(i)'
<1>0. /\ {"config", "unit", "install", "reload", "restart"} \subseteq DeployOps
      /\ \A other \in {"config", "unit", "install", "restart"} : OnlyOnce(other, i)
      /\ 1 \in 1..N /\ OnlyOnce("reload", 1) /\ Order[i] \in Service
  BY OrderFacts DEF DeployOps, OnlyOnce
<1>1. step = Place("reload", 1) /\ Forward /\ UNCHANGED <<staged, installed>> /\ loaded' = Generated
  BY DEF ReloadMove, files
<1>2. /\ \A other \in {"config", "unit", "install"} : Done(other, i)' => Done(other, i)
      /\ ~Done("restart", i)' /\ ~(step' = Place("restart", i) /\ half')
  BY <1>0, <1>1, Passing, NoRestartYet
<1>3. Done("install", i)
  BY <1>0, <1>1, PlaceBands, OrderFacts DEF Done
<1>4. config # TORN
  BY GenAssumption DEF ControlInv, TypeOK
<1>5. loaded'[Order[i]] = config
  BY <1>0, <1>1, <1>3, <1>4 DEF Deployed, Generated
<1> QED
  BY <1>1, <1>2, <1>5, Zenon DEF Deployed

\* A service is restarted.
LEMMA DeployedRestarted ==
  ASSUME ControlInv, NEW i \in 1..N, Deployed(i), config' = config,
         NEW k \in 1..N, RestartMove(k)
  PROVE  Deployed(i)'
<1> USE DEF files, units
<1>0. /\ {"config", "unit", "install", "reload", "restart"} \subseteq DeployOps
      /\ \A other \in {"config", "unit", "install", "restart"} : OnlyOnce(other, i)
      /\ 1 \in 1..N /\ OnlyOnce("reload", 1) /\ OnlyOnce("restart", k) /\ Order[i] \in Service
  BY OrderFacts DEF DeployOps, OnlyOnce
<1>1. step = Place("restart", k) /\ (Forward \/ Wait) /\ UNCHANGED <<staged, installed, loaded>>
  BY DEF RestartMove
<1>2. /\ \A other \in {"config", "unit", "install"} : Done(other, i)' => Done(other, i)
      /\ Done("reload", 1)' => Done("reload", 1)
      /\ Done("restart", i)' => Done("restart", i) \/ (i = k /\ Forward)
      /\ half' => Wait
  BY <1>0, <1>1, Passing
<1>3. Usable(Order[i])' <=> Usable(Order[i])
  BY <1>0, <1>1, UsableDepends
<1>4. wanted[Order[i]] => wanted'[Order[i]]
  BY <1>0 DEF RestartMove
<1>5. Forward => ~Wait
  BY DEF Forward, Wait
<1>6. Done("restart", i)' => wanted'[Order[i]] /\ Usable(Order[i])'
  <2>1. CASE Done("restart", i)
    BY <1>3, <1>4, <2>1 DEF Deployed
  <2>2. CASE i = k /\ Forward
    <3>1. half /\ running[Order[k]] # STOPPED
      BY <1>5, <2>2 DEF RestartMove
    <3>2. wanted[Order[i]] /\ Usable(Order[i])
      BY <1>1, <2>2, <3>1 DEF Deployed
    <3> QED
      BY <1>3, <1>4, <3>2
  <2> QED
    BY <1>2, <2>1, <2>2
<1>7. step' = Place("restart", i) /\ half' =>
        wanted'[Order[i]] /\ (running'[Order[i]] # STOPPED => Usable(Order[i])')
  <2>1. step' = Place("restart", i) /\ half' => step = Place("restart", i) /\ Wait
    BY <1>2 DEF Wait
  <2>2. step = Place("restart", i) => i = k
    BY <1>0, <1>1, PlaceDistinct
  <2>3. Wait => wanted'[Order[k]] /\ running'[Order[k]] = STOPPED
    BY <1>5 DEF RestartMove
  <2> QED
    BY <2>1, <2>2, <2>3
<1>8. /\ Done("config", i)' /\ "config" \in Has[Order[i]] => staged'[Order[i]]["config"] = config
      /\ Done("unit", i)' => staged'[Order[i]]["unit"] = config
      /\ Done("install", i)' => installed'[Order[i]] = config
      /\ Done("reload", 1)' => loaded'[Order[i]] = config
  BY <1>1, <1>2 DEF Deployed
<1> QED
  BY <1>6, <1>7, <1>8, Zenon DEF Deployed

\* What deploy has passed stays done while it goes on.
LEMMA DeployInvStep ==
  ASSUME ControlInv, ControlInv', DeployInv, [Next]_vars
  PROVE  DeployInv'
<1> SUFFICES ASSUME command' = "deploy", NEW i \in 1..N
             PROVE  Deployed(i)'
  BY DEF DeployInv
<1> USE DEF files, units
<1>0. Order[i] \in Service
  BY OrderFacts
<1>1. CASE command # "deploy"
  <2>1. step' = 1 /\ ~half'
    BY <1>1, Entering
  <2>2. ASSUME NEW op \in DeployOps, NEW k \in 1..N, OnlyOnce(op, k)
        PROVE  ~Done(op, k)'
    BY <2>1, <2>2, PlaceFacts DEF Done
  <2>3. /\ {"config", "unit", "install", "reload", "restart"} \subseteq DeployOps
        /\ \A op \in {"config", "unit", "install", "restart"} : OnlyOnce(op, i)
        /\ 1 \in 1..N /\ OnlyOnce("reload", 1)
    BY OrderFacts DEF DeployOps, OnlyOnce
  <2>4. /\ ~Done("config", i)' /\ ~Done("unit", i)' /\ ~Done("install", i)'
        /\ ~Done("reload", 1)' /\ ~Done("restart", i)'
    BY <2>2, <2>3
  <2> QED
    BY <2>1, <2>4, Zenon DEF Deployed
<1>2. CASE command = "deploy"
  <2>0. Deployed(i)
    BY <1>2 DEF DeployInv
  <2>1. /\ config' = config
        /\ Around \/ \E k \in 1..N : DeployMove(k)
    BY <1>2, DeploySteps
  <2>2. CASE Around
    <3>1. UNCHANGED <<staged, installed, loaded, wanted, step, half>>
      BY <2>2 DEF Around
    <3>2. Usable(Order[i])' <=> Usable(Order[i])
      BY <1>0, <3>1, UsableDepends
    <3>3. running'[Order[i]] # STOPPED => running[Order[i]] # STOPPED \/ Usable(Order[i])
      BY <1>0, <2>2 DEF Around
    <3> QED
      BY <2>0, <2>1, <3>1, <3>2, <3>3 DEF Deployed, Done
  <2>3. ASSUME NEW k \in 1..N, DeployMove(k)
        PROVE  Deployed(i)'
    <3>1. CASE CheckMove(k)
      <4>1. "check" \in DeployOps /\ OnlyOnce("check", k)
        BY DEF DeployOps, OnlyOnce
      <4> QED
        BY <2>0, <2>1, <3>1, <4>1, DeployedKept DEF CheckMove
    <3>2. ASSUME NEW f \in Copied, CopyMove(f, k)
          PROVE  Deployed(i)'
      <4>1. f \in DeployOps /\ OnlyOnce(f, k) /\ f \notin {"config", "unit"} /\ {"config", "unit"} \subseteq Slot
        BY DEF DeployOps, OnlyOnce, Copied, Pair, Shared, Slot
      <4>2. \A g \in {"config", "unit"} : staged'[Order[i]][g] = staged[Order[i]][g]
        BY <1>0, <3>2, <4>1 DEF CopyMove, Wrote
      <4>3. step = Place(f, k) /\ (Forward \/ Wait) /\ UNCHANGED <<installed, loaded>>
        BY <3>2 DEF CopyMove
      <4> QED
        BY <2>0, <2>1, <4>1, <4>2, <4>3, DeployedKept
    <3> QED
      BY <2>0, <2>1, <2>3, <3>1, <3>2, DeployedRendered, DeployedInstalled, DeployedLoaded,
         DeployedRestarted DEF DeployMove
  <2> QED
    BY <2>1, <2>2, <2>3
<1> QED
  BY <1>1, <1>2

\* Deploy has done what it has passed, in every reachable state.
LEMMA DeployAlways == Spec => []DeployInv
<1>1. Init => DeployInv
  BY DEF Init, DeployInv
<1>2. ControlInv /\ ControlInv' /\ DeployInv /\ [Next]_vars => DeployInv'
  BY DeployInvStep
<1> QED
  BY <1>1, <1>2, TypeAlways, PTL DEF Spec

\* When deploy returns it has done everything.
LEMMA AllDone ==
  ASSUME Returning("deploy"), NEW op \in DeployOps, NEW i \in 1..N, OnlyOnce(op, i)
  PROVE  Done(op, i)
<1>1. step = 10 * N + 2
  BY Lengths, OrderFacts DEF Returning
<1>2. Place(op, i) \in 1..(10 * N + 1)
  BY PlaceFacts
<1> QED
  BY <1>1, <1>2, OrderFacts DEF Done

\* Whatever the operator changes while it runs, deploy does not return with a
\* service that could not be started again, or started from two configurations.
THEOREM DeployReturnsUsable == Spec => []ReturnsUsable
<1>1. ASSUME DeployInv, Returning("deploy"), NEW s \in Service
      PROVE  /\ Usable(s) /\ loaded[s] = config
             /\ "config" \in Has[s] => staged[s]["config"] = config
  <2>1. PICK i \in 1..N : s = Order[i]
    BY OrderFacts
  <2>2. /\ {"config", "reload", "restart"} \subseteq DeployOps
        /\ OnlyOnce("config", i) /\ OnlyOnce("restart", i) /\ 1 \in 1..N /\ OnlyOnce("reload", 1)
    BY OrderFacts DEF DeployOps, OnlyOnce
  <2>3. Done("config", i) /\ Done("reload", 1) /\ Done("restart", i)
    BY <1>1, <2>2, AllDone
  <2>4. Deployed(i)
    BY <1>1 DEF DeployInv, Returning
  <2> QED
    BY <2>1, <2>3, <2>4 DEF Deployed
<1>2. DeployInv => ReturnsUsable
  BY <1>1 DEF ReturnsUsable
<1> QED
  BY <1>2, DeployAlways, PTL

-----------------------------------------------------------------------------
(* A careful operator: the supplied files stay while a command runs.       *)

\* Of the i-th service: what deploy has copied is what is supplied.
Current(i) ==
  LET s == Order[i]
  IN  /\ Done("check", i) => pki[s]["crt"] = pki[s]["key"]
      /\ \A f \in Copied \cap Has[s] : Done(f, i) => staged[s][f] = pki[s][f]
      /\ Done("restart", i) \/ (step = Place("restart", i) /\ half) =>
           running[s] \in {StartedFrom(s), STOPPED}

CarefulInv ==
  /\ command # "none" => config = site
  /\ command = "deploy" => \A i \in 1..N : Current(i)

\* What a service starts from depends on its files and its unit alone.
LEMMA StartedDepends ==
  ASSUME NEW s \in Service, staged'[s] = staged[s], loaded'[s] = loaded[s]
  PROVE  StartedFrom(s)' = StartedFrom(s)
BY DEF StartedFrom

\* What is supplied stays while a command runs.
LEMMA SuppliedStays ==
  ASSUME Careful, ControlInv, [Next]_vars, command # "none", command' # "none"
  PROVE  UNCHANGED <<command, config, pki, site>>
BY DEF Next, Proceed, Begin, Finish, CheckPair, Copy, Render, Install, Unlink, DaemonReload,
       StartOrRestart, Stop, StopFails, Interrupt, Boot, CutOff, Renew, Up, Down, Crash,
       Return, Halfway, Exit, vars, process

\* The copied files of the i-th service, and its check, among deploy's operations.
LEMMA CopiedOps ==
  ASSUME NEW i \in 1..N
  PROVE  /\ Copied \subseteq DeployOps /\ Copied \subseteq Slot
         /\ \A f \in Copied : OnlyOnce(f, i) /\ f \notin {"check", "config", "unit", "install", "reload", "restart"}
         /\ {"check", "install", "reload", "restart", "config", "unit"} \subseteq DeployOps
         /\ OnlyOnce("check", i) /\ OnlyOnce("install", i) /\ OnlyOnce("restart", i)
         /\ OnlyOnce("config", i) /\ OnlyOnce("unit", i) /\ OnlyOnce("reload", 1) /\ 1 \in 1..N
         /\ Order[i] \in Service
BY OrderFacts DEF DeployOps, OnlyOnce, Copied, Pair, Shared, Slot

\* A step before the restarts that copies nothing.
LEMMA CurrentKept ==
  ASSUME ControlInv, NEW i \in 1..N, Current(i), UNCHANGED pki,
         NEW op \in DeployOps, NEW k \in 1..N, OnlyOnce(op, k), step = Place(op, k),
         Forward \/ Wait, op \notin Copied \cup {"restart"},
         op = "check" => pki[Order[k]]["crt"] = pki[Order[k]]["key"],
         \A g \in Copied : staged'[Order[i]][g] = staged[Order[i]][g]
  PROVE  Current(i)'
<1>1. Done("check", i)' => pki[Order[i]]["crt"] = pki[Order[i]]["key"]
  <2>1. Done("check", i)' => Done("check", i) \/ (op = "check" /\ i = k)
    BY CopiedOps, Passing
  <2> QED
    BY <2>1 DEF Current
<1>2. ASSUME NEW f \in Copied \cap Has[Order[i]], Done(f, i)'
      PROVE  staged'[Order[i]][f] = pki[Order[i]][f]
  <2>1. f \in DeployOps /\ OnlyOnce(f, i) /\ f # op
    BY CopiedOps
  <2>2. Done(f, i)
    BY <1>2, <2>1, Passing
  <2> QED
    BY <2>2 DEF Current
<1>3. ~Done("restart", i)' /\ ~(step' = Place("restart", i) /\ half')
  BY NoRestartYet
<1>4. pki' = pki
  OBVIOUS
<1> QED
  BY <1>1, <1>2, <1>3, <1>4 DEF Current

\* A file is copied.
LEMMA CurrentCopied ==
  ASSUME ControlInv, NEW i \in 1..N, Current(i), UNCHANGED pki,
         NEW k \in 1..N, NEW f \in Copied, CopyMove(f, k)
  PROVE  Current(i)'
<1>0. /\ step = Place(f, k) /\ (Forward \/ Wait) /\ pki' = pki
      /\ f \in DeployOps /\ OnlyOnce(f, k) /\ f # "restart" /\ f \in Slot
      /\ (Order[i] = Order[k] => i = k) /\ Order[i] \in Service /\ Order[k] \in Service
  BY CopiedOps, OrderFacts DEF CopyMove
<1>1. Done("check", i)' => pki[Order[i]]["crt"] = pki[Order[i]]["key"]
  <2>1. Done("check", i)' => Done("check", i)
    BY <1>0, CopiedOps, Passing
  <2> QED
    BY <2>1 DEF Current
<1>2. ASSUME NEW g \in Copied \cap Has[Order[i]], Done(g, i)'
      PROVE  staged'[Order[i]][g] = pki[Order[i]][g]
  <2>1. g \in DeployOps /\ OnlyOnce(g, i) /\ g \in Slot
    BY CopiedOps
  <2>2. /\ Done(g, i) \/ (g = f /\ i = k /\ Forward)
        /\ g = f /\ i = k => ~Done(g, i)
    BY <1>0, <1>2, <2>1, Passing
  <2>3. CASE g = f /\ i = k
    <3>1. Forward /\ ~Wait
      BY <2>2, <2>3 DEF Forward, Wait
    <3> QED
      BY <1>2, <2>3, <3>1 DEF CopyMove, Wrote
  <2>4. CASE ~(g = f /\ i = k)
    <3>1. staged'[Order[i]][g] = staged[Order[i]][g]
      BY <1>0, <2>1, <2>4 DEF CopyMove, Wrote
    <3> QED
      BY <2>2, <2>4, <3>1 DEF Current
  <2> QED
    BY <2>3, <2>4
<1>3. ~Done("restart", i)' /\ ~(step' = Place("restart", i) /\ half')
  BY <1>0, NoRestartYet
<1> QED
  BY <1>0, <1>1, <1>2, <1>3 DEF Current

\* A service is restarted.
LEMMA CurrentRestarted ==
  ASSUME ControlInv, NEW i \in 1..N, Current(i), UNCHANGED pki, NEW k \in 1..N, RestartMove(k)
  PROVE  Current(i)'
<1> USE DEF files, units
<1>0. step = Place("restart", k) /\ (Forward \/ Wait) /\ UNCHANGED <<pki, staged, loaded>>
  BY DEF RestartMove
<1>1. Done("check", i)' => Done("check", i)
  BY <1>0, CopiedOps, Passing
<1>2. ASSUME NEW f \in Copied \cap Has[Order[i]], Done(f, i)'
      PROVE  staged'[Order[i]][f] = pki[Order[i]][f]
  <2>1. f \in DeployOps /\ OnlyOnce(f, i) /\ f # "restart"
    BY CopiedOps
  <2>2. Done(f, i)
    BY <1>0, <1>2, <2>1, CopiedOps, Passing
  <2> QED
    BY <1>0, <2>2 DEF Current
<1>3. StartedFrom(Order[i])' = StartedFrom(Order[i])
  BY <1>0, CopiedOps, StartedDepends
<1>4. running'[Order[i]] \in {running[Order[i]], STOPPED}
  BY CopiedOps DEF RestartMove
<1>5. ASSUME Done("restart", i)' \/ (step' = Place("restart", i) /\ half')
      PROVE  running'[Order[i]] \in {StartedFrom(Order[i])', STOPPED}
  <2>1. CASE Done("restart", i) \/ (step = Place("restart", i) /\ half)
    BY <1>3, <1>4, <2>1 DEF Current
  <2>2. CASE ~(Done("restart", i) \/ (step = Place("restart", i) /\ half))
    <3>1. /\ Done("restart", i)' => i = k /\ Forward
          /\ half' => Wait
      BY <1>0, <2>2, CopiedOps, Passing
    <3>2. Forward => half
      BY DEF RestartMove, Forward, Wait
    <3>3. ~Done("restart", i)'
      BY <1>0, <2>2, <3>1, <3>2
    <3>4. step = Place("restart", i) /\ Wait
      BY <1>5, <3>1, <3>3 DEF Wait
    <3>5. i = k
      BY <1>0, <3>4, CopiedOps, PlaceDistinct
    <3>6. running'[Order[k]] = STOPPED
      BY <3>4 DEF RestartMove, Forward, Wait
    <3> QED
      BY <3>5, <3>6
  <2> QED
    BY <2>1, <2>2
<1> QED
  BY <1>0, <1>1, <1>2, <1>5 DEF Current

\* Nothing that deploy has copied goes out of date while the operator waits for it.
LEMMA CarefulInvStep ==
  ASSUME Careful, ControlInv, ControlInv', CarefulInv, [Next]_vars
  PROVE  CarefulInv'
<1> USE DEF files, units
<1>1. command' # "none" => config' = site'
  BY Entering, SuppliedStays DEF CarefulInv
<1>2. ASSUME command' = "deploy", NEW i \in 1..N
      PROVE  Current(i)'
  <2>0. Order[i] \in Service
    BY OrderFacts
  <2>1. CASE command # "deploy"
    <3>1. step' = 1 /\ ~half'
      BY <1>2, <2>1, Entering
    <3>2. ASSUME NEW op \in DeployOps, OnlyOnce(op, i)
          PROVE  ~Done(op, i)'
      BY <3>1, <3>2, PlaceFacts DEF Done
    <3>3. /\ ~Done("check", i)' /\ ~Done("restart", i)'
          /\ \A f \in Copied : ~Done(f, i)'
      BY <3>2, CopiedOps
    <3> QED
      BY <3>1, <3>3 DEF Current
  <2>2. CASE command = "deploy"
    <3>0. Current(i) /\ UNCHANGED <<config, pki, site>>
      BY <1>2, <2>2, SuppliedStays DEF CarefulInv
    <3>1. Around \/ \E k \in 1..N : DeployMove(k)
      BY <1>2, <2>2, DeploySteps
    <3>2. CASE Around
      <4>1. UNCHANGED <<staged, loaded, step, half, pki>>
        BY <3>0, <3>2 DEF Around
      <4>2. StartedFrom(Order[i])' = StartedFrom(Order[i])
        BY <2>0, <4>1, StartedDepends
      <4>3. running'[Order[i]] \in {running[Order[i]], STOPPED, StartedFrom(Order[i])}
        BY <2>0, <3>2 DEF Around
      <4>4. running[Order[i]] \in {StartedFrom(Order[i]), STOPPED} =>
              running'[Order[i]] \in {StartedFrom(Order[i])', STOPPED}
        BY <4>2, <4>3
      <4> QED
        BY <3>0, <4>1, <4>4 DEF Current, Done
    <3>3. ASSUME NEW k \in 1..N, DeployMove(k)
          PROVE  Current(i)'
      <4>0. Order[k] \in Service
        BY OrderFacts
      <4>1. CASE CheckMove(k)
        BY <3>0, <4>1, CopiedOps, CurrentKept DEF CheckMove
      <4>2. CASE InstallMove(k)
        <5>1. step = Place("install", k) /\ (Forward \/ Wait) /\ staged' = staged
          BY <4>2 DEF InstallMove
        <5> QED
          BY <3>0, <5>1, CopiedOps, CurrentKept
      <4>3. CASE ReloadMove
        BY <3>0, <4>3, CopiedOps, CurrentKept DEF ReloadMove
      <4>4. ASSUME NEW f \in {"config", "unit"}, RenderMove(f, k)
            PROVE  Current(i)'
        <5>1. f \in DeployOps /\ OnlyOnce(f, k) /\ f \notin Copied \cup {"restart", "check"}
          BY CopiedOps
        <5>2. \A g \in Copied : staged'[Order[i]][g] = staged[Order[i]][g]
          BY <2>0, <4>4, <5>1, CopiedOps DEF RenderMove, Wrote
        <5>3. step = Place(f, k) /\ Forward
          BY <4>4 DEF RenderMove
        <5> QED
          BY <3>0, <5>1, <5>2, <5>3, CurrentKept
      <4> QED
        BY <3>0, <3>3, <4>1, <4>2, <4>3, <4>4, CurrentCopied, CurrentRestarted DEF DeployMove
    <3> QED
      BY <3>1, <3>2, <3>3
  <2> QED
    BY <2>1, <2>2
<1> QED
  BY <1>1, <1>2 DEF CarefulInv

\* With a careful operator what deploy has passed is of the files supplied now.
LEMMA CarefulAlways ==
  ASSUME Careful
  PROVE  Spec => []CarefulInv
<1>1. Init => CarefulInv
  BY DEF Init, CarefulInv
<1>2. ControlInv /\ ControlInv' /\ CarefulInv /\ [Next]_vars => CarefulInv'
  BY CarefulInvStep
<1> QED
  BY <1>1, <1>2, TypeAlways, PTL DEF Spec

\* "Deployment converged": when the operator leaves the supplied files alone
\* while deploy runs, it returns with every service running from the files
\* supplied now, or about to, and a crash or a reboot would bring back the same.
THEOREM DeployConverges ==
  ASSUME Careful
  PROVE  Spec => []ConvergedIsCurrent
<1>1. ASSUME ControlInv, DeployInv, CarefulInv, Returning("deploy"), NEW s \in Service
      PROVE  /\ running[s] \in {Supplied(s), STOPPED}
             /\ StartedFrom(s) = Supplied(s)
             /\ installed[s] = loaded[s] /\ wanted[s]
  <2>1. PICK i \in 1..N : s = Order[i]
    BY OrderFacts
  <2>2. /\ Done("config", i) /\ Done("install", i) /\ Done("reload", 1) /\ Done("restart", i)
        /\ \A f \in Copied : Done(f, i)
    BY <1>1, CopiedOps, AllDone
  <2>3. Deployed(i) /\ Current(i) /\ config = site
    BY <1>1 DEF DeployInv, CarefulInv, Returning
  <2>4. /\ "config" \in Has[s] => staged[s]["config"] = site
        /\ installed[s] = site /\ loaded[s] = site /\ wanted[s]
    BY <2>1, <2>2, <2>3 DEF Deployed
  <2>5. /\ \A f \in Copied \cap Has[s] : staged[s][f] = pki[s][f]
        /\ running[s] \in {StartedFrom(s), STOPPED}
    BY <2>1, <2>2, <2>3 DEF Current
  <2>6. staged[s] \in [Slot -> Content] /\ \A f \in Slot \ Has[s] : staged[s][f] = ABSENT
    BY <1>1, Split DEF StoresOK, FilesOK, Untouched
  <2>7. ASSUME NEW f \in Slot
        PROVE  StartedFrom(s)[f] = Supplied(s)[f]
    <3>0. "unit" \in Has[s] /\ "unit" \notin Copied
      BY FileAssumption DEF Copied, Pair, Shared
    <3>1. CASE f = "unit"
      BY <2>4, <2>6, <3>0, <3>1 DEF StartedFrom, Supplied
    <3>2. CASE f # "unit" /\ f \notin Has[s]
      BY <2>6, <3>2 DEF StartedFrom, Supplied
    <3>3. CASE f \in Has[s] /\ f \in Copied
      BY <2>5, <2>6, <3>0, <3>3 DEF StartedFrom, Supplied
    <3>4. CASE f # "unit" /\ f \in Has[s] /\ f \notin Copied
      <4>1. f = "config"
        BY <3>4 DEF Slot
      <4>2. StartedFrom(s)[f] = site
        BY <2>4, <2>6, <3>4, <4>1 DEF StartedFrom
      <4>3. Supplied(s)[f] = site
        BY <3>4 DEF Supplied
      <4> QED
        BY <4>2, <4>3
    <3> QED
      BY <3>1, <3>2, <3>3, <3>4
  <2>8. StartedFrom(s) = Supplied(s)
    BY <2>6, <2>7 DEF StartedFrom, Supplied
  <2> QED
    BY <2>4, <2>5, <2>8
<1>2. ControlInv /\ DeployInv /\ CarefulInv => ConvergedIsCurrent
  BY <1>1 DEF ConvergedIsCurrent
<1> QED
  BY <1>2, TypeAlways, DeployAlways, CarefulAlways, PTL

-----------------------------------------------------------------------------
(* What stop and destroy have done so far.                                 *)

\* The steps of stop and destroy on the k-th service.
StopMove(k) ==
  /\ step = N + 1 - k
  /\ \/ half /\ Forward /\ running[Order[k]] = STOPPED /\ spared' = spared \ {Order[k]}
        /\ UNCHANGED units
     \/ /\ ~half /\ Wait /\ ~wanted'[Order[k]]
        /\ \A t \in Service : wanted'[t] => wanted[t]
        /\ UNCHANGED <<loaded, running, spared>>
     \/ /\ Forward /\ spared' = spared \cup {Order[k]}
        /\ \A t \in Service : t # Order[k] => wanted'[t] = wanted[t]
        /\ UNCHANGED <<loaded, running>>
  /\ UNCHANGED files

UnlinkMove(k) ==
  /\ command = "destroy" /\ step = N + k /\ Forward
  /\ installed'[Order[k]] = ABSENT
  /\ \A t \in Service : t # Order[k] => installed'[t] = installed[t]
  /\ UNCHANGED <<staged, units, spared>>

LastMove ==
  /\ command = "destroy" /\ step = 2 * N + 1 /\ Forward /\ loaded' = Generated
  /\ UNCHANGED <<files, wanted, running, spared>>

\* Every step of a stop or a destroy that goes on is one of its moves, or one of its
\* surroundings.
LEMMA StopSteps ==
  ASSUME ControlInv, [Next]_vars, command \in {"stop", "destroy"}, command' = command
  PROVE  Around \/ LastMove \/ \E k \in 1..N : StopMove(k) \/ UnlinkMove(k)
<1> USE DEF files, units, history
<1>0. Control /\ StoresOK /\ FilesOK /\ UnitsOK
  BY Split DEF ControlInv, StoresOK
<1>1. ASSUME NEW ops, Doing(ops)
      PROVE  \E k \in 1..N : \E op \in Op \cap ops :
               At(op, k) /\ Here = Order[k] /\ Here \in Service
  BY <1>0, <1>1, Positions
<1>2. CASE Stop
  <2>1. PICK k \in 1..N : At("stop", k) /\ Here = Order[k] /\ Here \in Service
    BY <1>1, <1>2 DEF Stop
  <2>2. step = N + 1 - k
    BY <2>1 DEF At, DeployOps
  <2>3. CASE half
    BY <1>2, <2>1, <2>2, <2>3 DEF Stop, StopMove, Return, Forward
  <2>4. CASE ~half
    <3>1. \A t \in Service : (wanted'[t] => wanted[t]) /\ ~wanted'[Here]
      BY <1>2, <2>1, <2>4 DEF Stop
    <3> QED
      BY <1>2, <2>1, <2>2, <2>4, <3>1 DEF Stop, StopMove, Halfway, Wait
  <2> QED
    BY <2>3, <2>4
<1>3. CASE StopFails
  <2>1. PICK k \in 1..N : At("stop", k) /\ Here = Order[k] /\ Here \in Service
    BY <1>1, <1>3 DEF StopFails
  <2>2. step = N + 1 - k
    BY <2>1 DEF At, DeployOps
  <2>3. \A t \in Service : t # Order[k] => wanted'[t] = wanted[t]
    BY <1>0, <1>3, <2>1 DEF StopFails, UnitsOK
  <2>4. StopMove(k)
    BY <1>3, <2>1, <2>2, <2>3 DEF StopFails, StopMove, Return, Forward
  <2> QED
    BY <2>4
<1>4. CASE Unlink
  <2>1. PICK k \in 1..N : At("unlink", k) /\ Here = Order[k] /\ Here \in Service
    BY <1>1, <1>4 DEF Unlink
  <2>2. /\ installed'[Order[k]] = ABSENT
        /\ \A t \in Service : t # Order[k] => installed'[t] = installed[t]
    BY <1>0, <1>4, <2>1 DEF Unlink, FilesOK
  <2>3. command = "destroy" /\ step = N + k
    BY <2>1 DEF At, DeployOps
  <2>4. UnlinkMove(k)
    BY <1>4, <2>2, <2>3 DEF Unlink, UnlinkMove, Return, Forward
  <2> QED
    BY <2>4
<1>5. CASE DaemonReload
  <2>1. PICK k \in 1..N : At("reload", k)
    BY <1>1, <1>5 DEF DaemonReload
  <2>2. command = "destroy" /\ step = 2 * N + 1
    BY <2>1 DEF At
  <2> QED
    BY <1>5, <2>2 DEF DaemonReload, LastMove, Return, Forward
<1>6. CASE CheckPair \/ Copy \/ Render \/ Install \/ StartOrRestart
  BY <1>1, <1>6 DEF CheckPair, Copy, Render, Install, StartOrRestart, At, Copied, Pair, Shared
<1>7. CASE Begin \/ Finish \/ Interrupt \/ Boot
  BY <1>7 DEF Begin, Finish, Interrupt, Boot, CutOff, Exit
<1>8. CASE Renew \/ UNCHANGED vars
  BY <1>8, RenewMoves
<1>9. ASSUME NEW s \in Service, Up(s) \/ Down(s) \/ Crash(s)
      PROVE  Around
  BY <1>9, AroundMoves
<1> QED
  BY <1>2, <1>3, <1>4, <1>5, <1>6, <1>7, <1>8, <1>9 DEF Next, Proceed

\* Of the i-th service: it is down once its stop has returned, unless that stop
\* failed.
Stopped(i) ==
  LET s == Order[i]
  IN  /\ step > N + 1 - i => s \in spared \/ (~wanted[s] /\ running[s] = STOPPED)
      /\ step = N + 1 - i /\ half => ~wanted[s]
      /\ command = "destroy" /\ step > N + i => installed[s] = ABSENT
      /\ command = "destroy" /\ step > 2 * N + 1 => loaded[s] = ABSENT

StopInv == command \in {"stop", "destroy"} => \A i \in 1..N : Stopped(i)

\* A stop of the k-th service.
LEMMA StoppedOne ==
  ASSUME ControlInv, NEW i \in 1..N, Stopped(i), NEW k \in 1..N, StopMove(k)
  PROVE  Stopped(i)'
<1> USE DEF files, units
<1>0. /\ N \in Nat /\ N > 0 /\ step \in Nat /\ i \in Nat /\ k \in Nat
      /\ Order[i] \in Service /\ (Order[i] = Order[k] => i = k)
  BY OrderFacts DEF ControlInv, Control
<1>1. step = N + 1 - k /\ (step' = step \/ step' = step + 1) /\ UNCHANGED <<installed, loaded, running>>
  BY DEF StopMove, Forward, Wait
<1>2. step' > N + 1 - i =>
        Order[i] \in spared' \/ (~wanted'[Order[i]] /\ running'[Order[i]] = STOPPED)
  <2>1. CASE i = k /\ step' = step + 1
    <3>1. ~Wait
      BY <1>0, <2>1 DEF Wait
    <3>2. \/ half /\ running[Order[k]] = STOPPED /\ UNCHANGED wanted
          \/ Order[k] \in spared'
      BY <3>1 DEF StopMove
    <3> QED
      BY <1>1, <2>1, <3>2 DEF Stopped
  <2>2. CASE i # k
    <3>1. step' > N + 1 - i => step > N + 1 - i
      BY <1>0, <1>1, <2>2
    <3>2. /\ Order[i] \in spared => Order[i] \in spared'
          /\ wanted'[Order[i]] => wanted[Order[i]]
      BY <1>0, <2>2 DEF StopMove
    <3> QED
      BY <1>1, <3>1, <3>2 DEF Stopped
  <2>3. CASE i = k /\ step' = step
    BY <1>0, <1>1, <2>3
  <2> QED
    BY <1>1, <2>1, <2>2, <2>3
<1>3. step' = N + 1 - i /\ half' => ~wanted'[Order[i]]
  <2>1. half' => Wait
    BY DEF StopMove, Forward, Wait
  <2>2. step' = N + 1 - i /\ half' => i = k
    BY <1>0, <1>1, <2>1 DEF Wait
  <2>3. Wait => ~wanted'[Order[k]]
    BY DEF StopMove, Forward, Wait
  <2> QED
    BY <2>1, <2>2, <2>3
<1>4. ~(step' > N + i) /\ ~(step' > 2 * N + 1)
  BY <1>0, <1>1
<1> QED
  BY <1>2, <1>3, <1>4, Zenon DEF Stopped

\* The unit of the k-th service is removed.
LEMMA StoppedUnlinked ==
  ASSUME ControlInv, NEW i \in 1..N, Stopped(i), NEW k \in 1..N, UnlinkMove(k)
  PROVE  Stopped(i)'
<1> USE DEF files, units
<1>0. /\ N \in Nat /\ N > 0 /\ step \in Nat /\ i \in Nat /\ k \in Nat
      /\ Order[i] \in Service /\ (Order[i] = Order[k] => i = k)
  BY OrderFacts DEF ControlInv, Control
<1>1. /\ step = N + k /\ command = "destroy" /\ UNCHANGED <<loaded, wanted, running, spared>>
      /\ step' = step + 1 /\ ~half' /\ step > N + 1 - i /\ ~(step' > 2 * N + 1)
  BY <1>0 DEF UnlinkMove, Forward
<1>2. Order[i] \in spared' \/ (~wanted'[Order[i]] /\ running'[Order[i]] = STOPPED)
  BY <1>1 DEF Stopped
<1>3. step' > N + i => installed'[Order[i]] = ABSENT
  <2>1. CASE i = k
    BY <2>1 DEF UnlinkMove
  <2>2. CASE i # k
    <3>1. step' > N + i => step > N + i
      BY <1>0, <1>1, <2>2
    <3> QED
      BY <1>0, <1>1, <2>2, <3>1 DEF UnlinkMove, Stopped
  <2> QED
    BY <2>1, <2>2
<1> QED
  BY <1>1, <1>2, <1>3, Zenon DEF Stopped

\* The last reload.
LEMMA StoppedReloaded ==
  ASSUME ControlInv, NEW i \in 1..N, Stopped(i), LastMove
  PROVE  Stopped(i)'
<1> USE DEF files, units
<1>0. N \in Nat /\ N > 0 /\ step \in Nat /\ i \in Nat /\ Order[i] \in Service
  BY OrderFacts DEF ControlInv, Control
<1>1. /\ command = "destroy" /\ UNCHANGED <<installed, wanted, running, spared>>
      /\ step' = step + 1 /\ ~half' /\ step > N + 1 - i /\ step > N + i
  BY <1>0 DEF LastMove, Forward
<1>2. /\ Order[i] \in spared' \/ (~wanted'[Order[i]] /\ running'[Order[i]] = STOPPED)
      /\ installed[Order[i]] = ABSENT /\ installed'[Order[i]] = ABSENT
  BY <1>1 DEF Stopped
<1>3. loaded'[Order[i]] = ABSENT
  BY <1>0, <1>2 DEF LastMove, Generated
<1> QED
  BY <1>1, <1>2, <1>3, Zenon DEF Stopped

\* Nothing that is stopped is started again, and nothing unlinked comes back.
LEMMA StopInvStep ==
  ASSUME ControlInv, ControlInv', StopInv, [Next]_vars
  PROVE  StopInv'
<1> SUFFICES ASSUME command' \in {"stop", "destroy"}, NEW i \in 1..N
             PROVE  Stopped(i)'
  BY DEF StopInv
<1> USE DEF files, units, history
<1>0. N \in Nat /\ N > 0 /\ Order[i] \in Service /\ i \in Nat
  BY OrderFacts
<1>1. CASE command' # command
  <2>1. step' = 1 /\ ~half'
    BY <1>1, Entering
  <2>2. /\ ~(step' > N + 1 - i) /\ ~(step' > N + i) /\ ~(step' > 2 * N + 1)
    BY <1>0, <2>1
  <2> QED
    BY <2>1, <2>2, Zenon DEF Stopped
<1>2. CASE command' = command
  <2>0. Stopped(i)
    BY <1>2 DEF StopInv
  <2>1. Around \/ LastMove \/ \E k \in 1..N : StopMove(k) \/ UnlinkMove(k)
    BY <1>2, StopSteps
  <2>2. CASE Around
    <3>1. UNCHANGED <<installed, loaded, wanted, step, half, spared>>
      BY <2>2 DEF Around
    <3>2. running[Order[i]] = STOPPED /\ ~wanted[Order[i]] => running'[Order[i]] = STOPPED
      BY <1>0, <2>2 DEF Around
    <3> QED
      BY <1>2, <2>0, <3>1, <3>2 DEF Stopped
  <2> QED
    BY <2>0, <2>1, <2>2, StoppedOne, StoppedUnlinked, StoppedReloaded
<1> QED
  BY <1>1, <1>2

\* Stop and destroy have done what they have passed, in every reachable state.
LEMMA StopAlways == Spec => []StopInv
<1>1. Init => StopInv
  BY DEF Init, StopInv
<1>2. ControlInv /\ ControlInv' /\ StopInv /\ [Next]_vars => StopInv'
  BY StopInvStep
<1> QED
  BY <1>1, <1>2, TypeAlways, PTL DEF Spec

\* When stop returns, whatever failed meanwhile, a service runs or will be started
\* again only if its own systemctl stop failed: no other failure lets one be missed.
THEOREM StopLeavesNothingRunning == Spec => []StoppedMeansDown
<1>1. ASSUME StopInv, Returning("stop"), NEW s \in Service \ spared
      PROVE  running[s] = STOPPED /\ ~wanted[s]
  <2>1. PICK i \in 1..N : s = Order[i]
    BY OrderFacts
  <2>2. command = "stop" /\ step > N + 1 - i
    BY <1>1, Lengths, OrderFacts DEF Returning
  <2> QED
    BY <1>1, <2>1, <2>2 DEF StopInv, Stopped
<1>2. StopInv => StoppedMeansDown
  BY <1>1 DEF StoppedMeansDown
<1> QED
  BY <1>2, StopAlways, PTL

\* When destroy returns no unit is left to start, now or at the next boot, whether
\* its stops failed or not; only a service whose own stop failed can be running.
THEOREM DestroyLeavesNothing == Spec => []DestroyedMeansGone
<1>1. ASSUME StopInv, Returning("destroy"), NEW s \in Service
      PROVE  /\ installed[s] = ABSENT /\ loaded[s] = ABSENT
             /\ s \notin spared => running[s] = STOPPED /\ ~wanted[s]
  <2>1. PICK i \in 1..N : s = Order[i]
    BY OrderFacts
  <2>2. command = "destroy" /\ step > N + 1 - i /\ step > N + i /\ step > 2 * N + 1
    BY <1>1, Lengths, OrderFacts DEF Returning
  <2> QED
    BY <1>1, <2>1, <2>2 DEF StopInv, Stopped
<1>2. StopInv => DestroyedMeansGone
  BY <1>1 DEF DestroyedMeansGone
<1> QED
  BY <1>2, StopAlways, PTL

-----------------------------------------------------------------------------
(* What runs could be started again.                                       *)

\* The command is at the copy of f for s.
Busy(s, f) == \E k \in 1..N : s = Order[k] /\ At(f, k)

Restartable(s) ==
  running[s] # STOPPED =>
    /\ loaded[s] \in Gen \/ s \in spared
    /\ "config" \in Has[s] => staged[s]["config"] \in Gen
    /\ s \notin cut =>
         /\ \A f \in Copied \cap Has[s] : staged[s][f] \in Gen \/ (Busy(s, f) /\ half)
         /\ "crt" \in Has[s] =>
              \/ staged[s]["crt"] = staged[s]["key"]
              \/ Busy(s, "crt") /\ half
              \/ Busy(s, "key")

RestartInv == \A s \in Service : Restartable(s)

\* A service that the command is busy with is the one it is at.
LEMMA BusyMeans ==
  ASSUME NEW s \in Service, NEW f \in Copied, Busy(s, f)
  PROVE  /\ Here = s /\ File = f /\ Doing({f})
         /\ f \in Has[s] /\ (half \/ f = "key") => Window(s)
<1>1. PICK k \in 1..N : s = Order[k] /\ At(f, k)
  BY DEF Busy
<1>2. Here = s /\ File = f /\ \A ops : f \in ops => Doing(ops)
  BY <1>1, AtDoing
<1>3. Doing({f})
  BY <1>2
<1>4. f \in Has[s] => Doing(Copied \cap Has[s])
  BY <1>2
<1> QED
  BY <1>2, <1>3, <1>4 DEF Window

\* A service that would run has whole files.
LEMMA UsableMeans ==
  ASSUME ControlInv, NEW s \in Service, Usable(s)
  PROVE  /\ loaded[s] \in Gen
         /\ \A f \in Has[s] : f # "unit" => staged[s][f] \in Gen
         /\ staged[s]["crt"] = staged[s]["key"]
<1>1. staged[s] \in [Slot -> Content] /\ "unit" \in Slot /\ "unit" \in Has[s] /\ Has[s] \subseteq Slot
  BY Split, FileAssumption DEF StoresOK, FilesOK, Slot
<1>2. \A f \in Has[s] : StartedFrom(s)[f] \in Gen
  BY DEF Usable
<1>3. /\ StartedFrom(s)["unit"] = loaded[s]
      /\ \A f \in Slot : f # "unit" => StartedFrom(s)[f] = staged[s][f]
  BY <1>1 DEF StartedFrom
<1> QED
  BY <1>1, <1>2, <1>3 DEF Usable

\* What another step leaves of it.
LEMMA RestartableStays ==
  ASSUME ControlInv, NEW s \in Service, Restartable(s), UNCHANGED <<staged, loaded>>,
         running'[s] # STOPPED => running[s] # STOPPED \/ Usable(s),
         running'[s] # STOPPED /\ s \in spared => s \in spared',
         s \in cut => s \in cut',
         ASSUME NEW f \in Copied, f \in Has[s], s \notin cut', Busy(s, f), half \/ f = "key"
         PROVE  Busy(s, f)' /\ (half => half')
  PROVE  Restartable(s)'
<1>0. /\ "crt" \in Has[s] => "key" \in Has[s]
      /\ "crt" \in Copied /\ "key" \in Copied /\ "unit" \notin Copied
  BY FileAssumption DEF Copied, Pair, Shared
<1>1. CASE Usable(s)
  <2>1. /\ loaded'[s] \in Gen
        /\ \A f \in Has[s] : f # "unit" => staged'[s][f] \in Gen
        /\ staged'[s]["crt"] = staged'[s]["key"]
    BY <1>1, UsableMeans
  <2> QED
    BY <1>0, <2>1 DEF Restartable
<1>2. CASE running[s] # STOPPED
  <2>1. running'[s] # STOPPED => loaded'[s] \in Gen \/ s \in spared'
    BY <1>2 DEF Restartable
  <2>2. "config" \in Has[s] => staged'[s]["config"] \in Gen
    BY <1>2 DEF Restartable
  <2>3. ASSUME s \notin cut', NEW f \in Copied \cap Has[s]
        PROVE  staged'[s][f] \in Gen \/ (Busy(s, f)' /\ half')
    BY <1>2, <2>3 DEF Restartable
  <2>4. ASSUME s \notin cut', "crt" \in Has[s]
        PROVE  \/ staged'[s]["crt"] = staged'[s]["key"]
               \/ Busy(s, "crt")' /\ half'
               \/ Busy(s, "key")'
    BY <1>0, <1>2, <2>4 DEF Restartable
  <2> QED
    BY <2>1, <2>2, <2>3, <2>4 DEF Restartable
<1> QED
  BY <1>1, <1>2 DEF Restartable

\* Elsewhere than at a copy the command is busy with no service.
LEMMA NotBusy ==
  ASSUME NEW ops, Doing(ops), ops \cap Copied = {}, NEW s \in Service, NEW f \in Copied
  PROVE  ~Busy(s, f)
BY BusyMeans DEF Doing, File

\* The copy of a file: before it, for it, and after it.
LEMMA RestartableCopied ==
  ASSUME Careful, ControlInv, CarefulInv, command = "deploy",
         UNCHANGED <<command, pki, spared>>, NEW s \in Service, Restartable(s),
         NEW k \in 1..N, NEW f \in Copied, At(f, k), CopyMove(f, k)
  PROVE  Restartable(s)'
<1> USE DEF units
<1>0. /\ StoresOK /\ step \in Nat /\ half \in BOOLEAN /\ step = Place(f, k)
      /\ Order[k] \in Service /\ UNCHANGED <<loaded, running>>
      /\ f \in Slot /\ f # "config" /\ {"config", "crt", "key"} \subseteq Slot
  BY Split, CopiedOps DEF ControlInv, Control, CopyMove, Slot, Copied, Pair, Shared
<1>1. ASSUME NEW g \in Copied, Busy(s, g)
      PROVE  s = Order[k] /\ g = f
  BY <1>1, BusyMeans, AtDoing
<1>2. CASE s # Order[k]
  <2>1. staged'[s] = staged[s] /\ (s \in cut' <=> s \in cut)
    BY <1>0, <1>2 DEF CopyMove, Wrote, Mended
  <2>2. \A g \in Copied : ~Busy(s, g)
    BY <1>1, <1>2
  <2>3. "crt" \in Copied /\ "key" \in Copied
    BY DEF Copied, Pair
  <2> QED
    BY <1>0, <2>1, <2>2, <2>3 DEF Restartable
<1>3. CASE s = Order[k]
  <2>0. /\ "crt" \in Copied /\ "key" \in Copied /\ ("crt" \in Has[s] <=> "key" \in Has[s])
        /\ pki[s] \in [Copied -> Gen] /\ UNCHANGED <<loaded, running, pki, spared>>
    BY <1>0, FileAssumption DEF StoresOK, SuppliesOK, Copied, Pair
  <2>1. staged'[s]["config"] = staged[s]["config"]
    BY <1>0, <1>3 DEF CopyMove, Wrote
  <2>2. \A g \in Slot : g # f => staged'[s][g] = staged[s][g]
    BY <1>0, <1>3 DEF CopyMove, Wrote
  <2>3. CASE Wait
    <3>1. /\ f \in Has[s] /\ ~half /\ half' /\ step' = step /\ cut' = cut
      BY <1>0, <1>3, <2>3 DEF CopyMove, Wait, Forward
    <3>2. Busy(s, f)'
      <4>1. At(f, k)'
        BY <1>0, <3>1, CopiedOps DEF At
      <4> QED
        BY <1>3, <4>1 DEF Busy
    <3>3. ASSUME running[s] # STOPPED, s \notin cut, NEW g \in Copied \cap Has[s]
          PROVE  staged'[s][g] \in Gen \/ (Busy(s, g)' /\ half')
      <4>1. CASE g = f
        BY <3>1, <3>2, <4>1
      <4>2. CASE g # f
        <5>1. staged[s][g] \in Gen
          BY <3>1, <3>3 DEF Restartable
        <5>2. g \in Slot
          BY CopiedOps, <1>0
        <5> QED
          BY <2>2, <4>2, <5>1, <5>2
      <4> QED
        BY <4>1, <4>2
    <3>4. ASSUME running[s] # STOPPED, s \notin cut, "crt" \in Has[s]
          PROVE  \/ staged'[s]["crt"] = staged'[s]["key"]
                 \/ Busy(s, "crt")' /\ half'
                 \/ Busy(s, "key")'
      <4>1. CASE f \in {"crt", "key"}
        BY <3>1, <3>2, <4>1
      <4>2. CASE f \notin {"crt", "key"}
        <5>1. ~Busy(s, "crt") /\ ~Busy(s, "key")
          BY <1>1, <2>0, <4>2
        <5>2. staged[s]["crt"] = staged[s]["key"]
          BY <3>4, <5>1 DEF Restartable
        <5> QED
          BY <1>0, <2>2, <4>2, <5>2
      <4> QED
        BY <4>1, <4>2
    <3> QED
      BY <2>0, <2>1, <3>1, <3>3, <3>4 DEF Restartable
  <2>4. CASE Forward
    <3>1. /\ ~Wait /\ step' = step + 1 /\ cut' = Mended(f, k)
          /\ f \in Has[s] => staged'[s][f] = pki[s][f]
      BY <1>0, <1>3, <2>4 DEF CopyMove, Wait, Forward, Wrote
    <3>2. Current(k)
      BY DEF CarefulInv
    <3>3. CASE f = "script"
      <4>0. /\ N \in Nat /\ k \in Nat /\ step \in Nat
            /\ k >= 1 /\ k <= N /\ step = 6 * N + k
        BY <1>0, <3>3, OrderFacts DEF Place
      <4>1. /\ Done("check", k)
            /\ \A g \in Copied : g # f => Done(g, k)
        <5>1. Done("check", k)
          BY <4>0 DEF Done, Place
        <5>2. Done("ca", k)
          BY <4>0 DEF Done, Place
        <5>3. Done("crt", k)
          BY <4>0 DEF Done, Place
        <5>4. Done("key", k)
          BY <4>0 DEF Done, Place
        <5>5. Done("proxy", k)
          BY <4>0 DEF Done, Place
        <5> QED
          BY <3>3, <5>1, <5>2, <5>3, <5>4, <5>5 DEF Copied, Pair, Shared
      <4>2. /\ pki[s]["crt"] = pki[s]["key"]
            /\ \A g \in Copied \cap Has[s] : g # f => staged[s][g] = pki[s][g]
        BY <1>3, <3>2, <4>1 DEF Current
      <4>3. \A g \in Copied \cap Has[s] : staged'[s][g] = pki[s][g]
        <5>1. ASSUME NEW g \in Copied \cap Has[s] PROVE staged'[s][g] = pki[s][g]
          <6>1. g \in Slot
            BY CopiedOps, <1>0
          <6> QED
            BY <2>2, <3>1, <4>2, <6>1
        <5> QED
          BY <5>1
      <4>4. \A g \in Copied \cap Has[s] : staged'[s][g] \in Gen
        BY <2>0, <4>3
      <4>5. "crt" \in Has[s] => staged'[s]["crt"] = staged'[s]["key"]
        BY <2>0, <4>2, <4>3
      <4> QED
        BY <2>0, <2>1, <4>4, <4>5 DEF Restartable
    <3>4. CASE f # "script"
      <4>0. cut' = cut
        BY <3>1, <3>4 DEF Mended
      <4>1. ASSUME running[s] # STOPPED, s \notin cut, NEW g \in Copied \cap Has[s]
            PROVE  staged'[s][g] \in Gen
        <5>1. CASE g = f
          BY <2>0, <3>1, <5>1
        <5>2. CASE g # f
          <6>1. ~Busy(s, g) /\ g \in Slot
            BY <1>0, <1>1, <5>2, CopiedOps
          <6> QED
            BY <2>2, <4>1, <5>2, <6>1 DEF Restartable
        <5> QED
          BY <5>1, <5>2
      <4>2. ASSUME running[s] # STOPPED, s \notin cut, "crt" \in Has[s]
            PROVE  staged'[s]["crt"] = staged'[s]["key"] \/ Busy(s, "key")'
        <5>1. CASE f = "crt"
          <6>1. step' = Place("key", k)
            BY <1>0, <3>1, <5>1, OrderFacts DEF Place
          <6>2. At("key", k)'
            BY <2>0, <6>1, CopiedOps DEF At
          <6> QED
            BY <1>3, <6>2 DEF Busy
        <5>2. CASE f = "key"
          <6>1. Done("check", k)
            BY <1>0, <5>2, OrderFacts DEF Done, Place
          <6>2. Done("crt", k)
            BY <1>0, <5>2, OrderFacts DEF Done, Place
          <6>3. pki[s]["crt"] = pki[s]["key"] /\ staged[s]["crt"] = pki[s]["crt"]
            BY <1>3, <2>0, <3>2, <4>2, <6>1, <6>2 DEF Current
          <6>4. staged'[s]["key"] = pki[s]["key"] /\ staged'[s]["crt"] = staged[s]["crt"]
            BY <1>0, <2>0, <2>2, <3>1, <4>2, <5>2
          <6> QED
            BY <6>3, <6>4
        <5>3. CASE f \notin {"crt", "key"}
          <6>1. ~Busy(s, "crt") /\ ~Busy(s, "key")
            BY <1>1, <2>0, <5>3
          <6>2. staged[s]["crt"] = staged[s]["key"]
            BY <4>2, <6>1 DEF Restartable
          <6> QED
            BY <1>0, <2>2, <5>3, <6>2
        <5> QED
          BY <5>1, <5>2, <5>3
      <4> QED
        BY <2>0, <2>1, <4>0, <4>1, <4>2 DEF Restartable
    <3> QED
      BY <3>3, <3>4
  <2> QED
    BY <2>3, <2>4 DEF CopyMove
<1> QED
  BY <1>2, <1>3

\* A rendered file is whole at once.
LEMMA RestartableRendered ==
  ASSUME ControlInv, Render, NEW s \in Service, Restartable(s)
  PROVE  Restartable(s)'
<1> USE DEF units
<1>1. /\ UNCHANGED <<spared, config>>
      /\ \E k \in 1..N, f \in {"config", "unit"} : RenderMove(f, k)
  BY RenderMoves
<1>2. PICK k \in 1..N, f \in {"config", "unit"} : RenderMove(f, k)
  BY <1>1
<1>3. UNCHANGED <<loaded, running, cut, spared>>
  BY <1>1, <1>2 DEF RenderMove
<1>4. /\ staged'[s]["config"] = staged[s]["config"] \/ staged'[s]["config"] = config
      /\ \A g \in Copied : staged'[s][g] = staged[s][g]
  <2>1. f \notin Copied /\ Copied \subseteq Slot /\ "config" \in Slot
    BY DEF Slot, Copied, Pair, Shared
  <2> QED
    BY <1>2, <2>1 DEF RenderMove, Wrote
<1>5. config \in Gen /\ "crt" \in Copied /\ "key" \in Copied
  BY DEF ControlInv, TypeOK, Copied, Pair
<1>6. \A g \in Copied : ~Busy(s, g)
  <2>1. Doing({"config", "unit"}) /\ {"config", "unit"} \cap Copied = {}
    BY DEF Render, Copied, Pair, Shared
  <2> QED
    BY <2>1, NotBusy
<1>7. /\ running'[s] # STOPPED => loaded'[s] \in Gen \/ s \in spared'
      /\ running'[s] # STOPPED /\ "config" \in Has[s] => staged'[s]["config"] \in Gen
  BY <1>3, <1>4, <1>5 DEF Restartable
<1>8. running'[s] # STOPPED /\ s \notin cut' =>
        /\ \A f1 \in Copied \cap Has[s] : staged'[s][f1] \in Gen
        /\ "crt" \in Has[s] => staged'[s]["crt"] = staged'[s]["key"]
  BY <1>3, <1>4, <1>5, <1>6 DEF Restartable
<1> QED
  BY <1>7, <1>8 DEF Restartable

\* A reload loses no unit of a service that runs, but of one whose stop failed.
LEMMA RestartableReloaded ==
  ASSUME ControlInv, DeployInv, StopInv, DaemonReload, NEW s \in Service, Restartable(s)
  PROVE  Restartable(s)'
<1> USE DEF files, history
<1>0. Control /\ N \in Nat /\ N > 0
  BY OrderFacts DEF ControlInv
<1>1. UNCHANGED <<staged, running, cut, spared>> /\ loaded' = Generated
  BY DEF DaemonReload
<1>2. \A g \in Copied : ~Busy(s, g)
  <2>1. Doing({"reload"}) /\ {"reload"} \cap Copied = {}
    BY DEF DaemonReload, Copied, Pair, Shared
  <2> QED
    BY <2>1, NotBusy
<1>3. PICK i \in 1..N : s = Order[i]
  BY OrderFacts
<1>4. running[s] # STOPPED => loaded'[s] \in Gen \/ s \in spared
  <2>1. PICK k \in 1..N : At("reload", k)
    BY <1>0, Positions DEF DaemonReload
  <2>2. CASE command = "deploy"
    <3>1. step = Place("reload", 1)
      BY <2>1, <2>2 DEF At, OnlyOnce
    <3>2. Done("install", i)
      BY <1>0, <3>1, CopiedOps, PlaceBands DEF Done
    <3>3. installed[s] = config /\ config \in Gen /\ TORN \notin Gen
      BY <1>3, <2>2, <3>2, GenAssumption DEF DeployInv, Deployed, ControlInv, TypeOK
    <3> QED
      BY <1>1, <3>3 DEF Generated
  <2>3. CASE command # "deploy"
    <3>1. command = "destroy" /\ step > N + 1 - i
      BY <1>0, <2>1, <2>3 DEF At
    <3> QED
      BY <1>3, <3>1 DEF StopInv, Stopped
  <2> QED
    BY <2>2, <2>3
<1>5. "crt" \in Copied /\ "key" \in Copied
  BY DEF Copied, Pair
<1>6. running'[s] # STOPPED /\ s \notin cut' =>
        /\ \A f1 \in Copied \cap Has[s] : staged'[s][f1] \in Gen
        /\ "crt" \in Has[s] => staged'[s]["crt"] = staged'[s]["key"]
  BY <1>1, <1>2, <1>5 DEF Restartable
<1>7. running'[s] # STOPPED /\ "config" \in Has[s] => staged'[s]["config"] \in Gen
  BY <1>1 DEF Restartable
<1> QED
  BY <1>1, <1>4, <1>6, <1>7 DEF Restartable

\* Only the copies of deploy can come between a running service and its next start.
LEMMA RestartInvStep ==
  ASSUME Careful, ControlInv, DeployInv, CarefulInv, StopInv, RestartInv, [Next]_vars
  PROVE  RestartInv'
<1> SUFFICES ASSUME NEW s \in Service
             PROVE  Restartable(s)'
  BY DEF RestartInv
<1> USE DEF files, units, process, history
<1>0. Restartable(s) /\ Control
  BY DEF RestartInv, ControlInv
<1>1. CASE Copy
  <2>1. command = "deploy" /\ UNCHANGED <<command, pki, spared>>
    BY <1>1, CopyMoves
  <2>2. PICK k \in 1..N, f \in Copied : At(f, k) /\ CopyMove(f, k)
    BY <1>1, CopyMoves
  <2> QED
    BY <1>0, <2>1, <2>2, RestartableCopied
<1>2. ASSUME NEW ops, Doing(ops), ops \cap Copied = {}, UNCHANGED <<staged, loaded, cut>>,
             running'[s] # STOPPED => running[s] # STOPPED,
             running'[s] # STOPPED /\ s \in spared => s \in spared'
      PROVE  Restartable(s)'
  <2>1. \A f \in Copied : ~Busy(s, f)
    BY <1>2, NotBusy
  <2> QED
    BY <1>0, <1>2, <2>1, RestartableStays
<1>3. CASE CheckPair
  <2>1. /\ Doing({"check"}) /\ {"check"} \cap Copied = {}
        /\ UNCHANGED <<staged, loaded, running, cut, spared>>
    BY <1>3 DEF CheckPair, Copied, Pair, Shared
  <2> QED
    BY <1>2, <2>1
<1>4. CASE Install \/ Unlink
  <2>1. /\ Doing({"install"}) \/ Doing({"unlink"})
        /\ {"install"} \cap Copied = {} /\ {"unlink"} \cap Copied = {}
        /\ UNCHANGED <<staged, loaded, running, cut, spared>>
    BY <1>4 DEF Install, Unlink, Copied, Pair, Shared
  <2> QED
    BY <1>2, <2>1
<1>5. CASE StartOrRestart
  <2>1. /\ Doing({"start", "restart"}) /\ {"start", "restart"} \cap Copied = {}
        /\ UNCHANGED <<staged, loaded, cut, spared>>
    BY <1>5 DEF StartOrRestart, Copied, Pair, Shared
  <2>2. UNCHANGED running \/ \E stopped : Submit(Here, stopped)
    BY <1>5 DEF StartOrRestart
  <2>3. running'[s] # STOPPED => running[s] # STOPPED
    BY <2>2 DEF Submit
  <2> QED
    BY <1>2, <2>1, <2>3
<1>6. CASE Stop \/ StopFails
  <2>1. /\ Doing({"stop"}) /\ {"stop"} \cap Copied = {}
        /\ UNCHANGED <<staged, loaded, running, cut>>
    BY <1>6 DEF Stop, StopFails, Copied, Pair, Shared
  <2>2. running[s] # STOPPED /\ s \in spared => s \in spared'
    BY <1>6 DEF Stop, StopFails
  <2> QED
    BY <1>2, <2>1, <2>2
<1>7. CASE Begin \/ Finish
  <2>1. UNCHANGED <<staged, loaded, running, cut, spared>>
    BY <1>7 DEF Begin, Finish
  <2>2. ASSUME NEW f \in Copied
        PROVE  ~Busy(s, f)
    <3>1. command = "none" \/ step = Len(Program(command)) + 1
      BY <1>7 DEF Begin, Finish
    <3>2. command # "none" => Len(Program(command)) \in Nat
      BY <1>0, Lengths, OrderFacts DEF Control
    <3>3. Busy(s, f) => command # "none" /\ step <= Len(Program(command))
      BY BusyMeans DEF Doing
    <3> QED
      BY <3>1, <3>2, <3>3
  <2> QED
    BY <1>0, <2>1, <2>2, RestartableStays
<1>8. CASE Interrupt
  <2>1. UNCHANGED <<staged, loaded, running, spared>> /\ cut \subseteq cut' /\ (Window(s) => s \in cut')
    BY <1>8 DEF Interrupt, CutOff
  <2>2. ASSUME NEW f \in Copied, f \in Has[s], s \notin cut', Busy(s, f), half \/ f = "key"
        PROVE  FALSE
    BY <2>1, <2>2, BusyMeans
  <2> QED
    BY <1>0, <2>1, <2>2, RestartableStays
<1>9. CASE Boot
  BY <1>9 DEF Boot, Restartable
<1>10. CASE Around
  <2>1. UNCHANGED <<staged, loaded, command, step, half, cut, spared>>
    BY <1>10 DEF Around
  <2>2. running'[s] # STOPPED => running[s] # STOPPED \/ Usable(s)
    BY <1>10 DEF Around
  <2>3. ASSUME NEW f, Busy(s, f)
        PROVE  Busy(s, f)'
    BY <2>1, <2>3 DEF Busy, At
  <2> QED
    BY <1>0, <2>1, <2>2, <2>3, RestartableStays
<1>11. Renew \/ UNCHANGED vars => Around
  BY RenewMoves
<1>12. ASSUME NEW t \in Service, Up(t) \/ Down(t) \/ Crash(t)
       PROVE  Around
  BY <1>12, AroundMoves
<1>13. CASE Render
  BY <1>0, <1>13, RestartableRendered
<1>14. CASE DaemonReload
  BY <1>0, <1>14, RestartableReloaded
<1> QED
  BY <1>1, <1>3, <1>4, <1>5, <1>6, <1>7, <1>8, <1>9, <1>10, <1>11, <1>12, <1>13, <1>14
     DEF Next, Proceed

\* That holds in every reachable state.
LEMMA RestartAlways ==
  ASSUME Careful
  PROVE  Spec => []RestartInv
<1>1. Init => RestartInv
  BY DEF Init, RestartInv, Restartable
<1>2. /\ ControlInv /\ DeployInv /\ CarefulInv /\ StopInv /\ RestartInv /\ [Next]_vars
      => RestartInv'
  BY RestartInvStep
<1> QED
  BY <1>1, <1>2, TypeAlways, DeployAlways, CarefulAlways, StopAlways, PTL DEF Spec

\* When the operator leaves the supplied files alone while a command runs, a
\* service that runs could be started again at any time, but during one of
\* deploy's copies for it, after one that was cut off until a deploy has copied
\* everything for it, and after a destroy that went on over its failed stop.
THEOREM RunningCanRestart ==
  ASSUME Careful
  PROVE  Spec => []RunningIsRestartable
<1>1. ASSUME ControlInv, RestartInv, NEW s \in Service, running[s] # STOPPED,
             ~Window(s), s \notin cut, loaded[s] # ABSENT \/ s \notin spared
      PROVE  Usable(s)
  <2>1. Restartable(s)
    BY <1>1 DEF RestartInv
  <2>2. /\ staged[s] \in [Slot -> Content] /\ loaded[s] \in Gen \cup {ABSENT}
        /\ \A f \in Slot \ Has[s] : staged[s][f] = ABSENT
        /\ Has[s] \subseteq Slot /\ ("crt" \in Has[s] <=> "key" \in Has[s])
        /\ "crt" \in Copied /\ "key" \in Copied /\ Copied \subseteq Slot
    BY <1>1, Split, FileAssumption DEF StoresOK, FilesOK, UnitsOK, Untouched, Slot, Copied, Pair
  <2>3. loaded[s] \in Gen
    BY <1>1, <2>1, <2>2 DEF Restartable
  <2>4. ASSUME NEW f \in Copied \cap Has[s]
        PROVE  staged[s][f] \in Gen
    <3>1. ~(Busy(s, f) /\ half)
      BY <1>1, BusyMeans
    <3> QED
      BY <1>1, <2>1, <3>1 DEF Restartable
  <2>5. staged[s]["crt"] = staged[s]["key"]
    <3>1. CASE "crt" \in Has[s]
      <4>1. ~(Busy(s, "crt") /\ half) /\ ~Busy(s, "key")
        BY <1>1, <2>2, <3>1, BusyMeans
      <4> QED
        BY <1>1, <2>1, <3>1, <4>1 DEF Restartable
    <3>2. CASE "crt" \notin Has[s]
      BY <2>2, <3>2
    <3> QED
      BY <3>1, <3>2
  <2>6. ASSUME NEW f \in Has[s]
        PROVE  StartedFrom(s)[f] \in Gen
    <3>1. CASE f = "unit"
      BY <2>2, <2>3, <3>1 DEF StartedFrom
    <3>2. CASE f = "config"
      <4>1. staged[s]["config"] \in Gen
        BY <1>1, <2>1, <3>2 DEF Restartable
      <4> QED
        BY <2>2, <3>2, <4>1 DEF StartedFrom
    <3>3. CASE f \in Copied /\ f # "unit"
      <4>1. staged[s][f] \in Gen
        BY <2>4, <3>3
      <4> QED
        BY <2>2, <3>3, <4>1 DEF StartedFrom
    <3> QED
      BY <2>2, <3>1, <3>2, <3>3 DEF Slot, Copied, Pair, Shared
  <2> QED
    BY <2>5, <2>6 DEF Usable
<1>2. ControlInv /\ RestartInv => RunningIsRestartable
  BY <1>1 DEF RunningIsRestartable
<1> QED
  BY <1>2, TypeAlways, RestartAlways, PTL
================================================================================
