----------------------------- MODULE Store_proofs -----------------------------
(* That the migration of a legacy database loses no row and leaks none, and  *)
(* that what is stored of a subject can be read back, for any number of      *)
(* crashes, any legacy contents and any writes afterwards.                   *)
EXTENDS StoreProperties, SequenceTheorems, FiniteSetTheorems, WellFoundedInduction, TLAPS

----------------------------------------------------------------------------
\* The script, statement by statement.
St(op, t) == Statement(op, t)

\* s is a sequence of length n.
Lists(s, n) == s = [i \in 1..n |-> s[i]]

Joins(u, s, t) == u = s \o t

LEMMA PairsOfFour ==
    ASSUME NEW a, NEW b, NEW t1, NEW t2, NEW t3, NEW t4
    PROVE  Each(<<a, b>>, <<t1, t2, t3, t4>>)
             = <<St(a, t1), St(b, t1), St(a, t2), St(b, t2),
                 St(a, t3), St(b, t3), St(a, t4), St(b, t4)>>
<1> DEFINE ops == <<a, b>>
           ts == <<t1, t2, t3, t4>>
           s == <<St(a, t1), St(b, t1), St(a, t2), St(b, t2),
                  St(a, t3), St(b, t3), St(a, t4), St(b, t4)>>
<1>1. Len(ops) = 2 /\ Len(ts) = 4
  OBVIOUS
<1>2. Each(ops, ts) = [i \in 1..8 |-> Statement(ops[((i - 1) % 2) + 1],
                                                ts[((i - 1) \div 2) + 1])]
  BY <1>1 DEF Each
<1>3. \A i \in 1..8 : Statement(ops[((i - 1) % 2) + 1], ts[((i - 1) \div 2) + 1]) = s[i]
  BY DEF St, Statement
<1>4. s = [i \in 1..8 |-> s[i]]
  OBVIOUS
<1> QED BY <1>2, <1>3, <1>4

LEMMA TriplesOfTwo ==
    ASSUME NEW a, NEW b, NEW c, NEW t1, NEW t2
    PROVE  Each(<<a, b, c>>, <<t1, t2>>)
             = <<St(a, t1), St(b, t1), St(c, t1), St(a, t2), St(b, t2), St(c, t2)>>
<1> DEFINE ops == <<a, b, c>>
           ts == <<t1, t2>>
           s == <<St(a, t1), St(b, t1), St(c, t1), St(a, t2), St(b, t2), St(c, t2)>>
<1>1. Len(ops) = 3 /\ Len(ts) = 2
  OBVIOUS
<1>2. Each(ops, ts) = [i \in 1..6 |-> Statement(ops[((i - 1) % 3) + 1],
                                                ts[((i - 1) \div 3) + 1])]
  BY <1>1 DEF Each
<1>3. \A i \in 1..6 : Statement(ops[((i - 1) % 3) + 1], ts[((i - 1) \div 3) + 1]) = s[i]
  BY DEF St, Statement
<1>4. s = [i \in 1..6 |-> s[i]]
  OBVIOUS
<1> QED BY <1>2, <1>3, <1>4

LEMMA FoursOfThree ==
    ASSUME NEW a, NEW b, NEW c, NEW d, NEW t1, NEW t2, NEW t3
    PROVE  Each(<<a, b, c, d>>, <<t1, t2, t3>>)
             = <<St(a, t1), St(b, t1), St(c, t1), St(d, t1),
                 St(a, t2), St(b, t2), St(c, t2), St(d, t2),
                 St(a, t3), St(b, t3), St(c, t3), St(d, t3)>>
<1> DEFINE ops == <<a, b, c, d>>
           ts == <<t1, t2, t3>>
           s == <<St(a, t1), St(b, t1), St(c, t1), St(d, t1),
                  St(a, t2), St(b, t2), St(c, t2), St(d, t2),
                  St(a, t3), St(b, t3), St(c, t3), St(d, t3)>>
<1>1. Len(ops) = 4 /\ Len(ts) = 3
  OBVIOUS
<1>2. Each(ops, ts) = [i \in 1..12 |-> Statement(ops[((i - 1) % 4) + 1],
                                                 ts[((i - 1) \div 4) + 1])]
  BY <1>1 DEF Each
<1>3. \A i \in 1..12 : Statement(ops[((i - 1) % 4) + 1], ts[((i - 1) \div 4) + 1]) = s[i]
  BY DEF St, Statement
<1>4. s = [i \in 1..12 |-> s[i]]
  OBVIOUS
<1> QED BY <1>2, <1>3, <1>4

LEMMA PairOfOne ==
    ASSUME NEW a, NEW t1, NEW t2
    PROVE  Each(<<a>>, <<t1, t2>>) = <<St(a, t1), St(a, t2)>>
<1> DEFINE ops == <<a>>
           ts == <<t1, t2>>
           s == <<St(a, t1), St(a, t2)>>
<1>1. Len(ops) = 1 /\ Len(ts) = 2
  OBVIOUS
<1>2. Each(ops, ts) = [i \in 1..2 |-> Statement(ops[((i - 1) % 1) + 1],
                                                ts[((i - 1) \div 1) + 1])]
  BY <1>1 DEF Each
<1>3. \A i \in 1..2 : Statement(ops[((i - 1) % 1) + 1], ts[((i - 1) \div 1) + 1]) = s[i]
  BY DEF St, Statement
<1>4. s = [i \in 1..2 |-> s[i]]
  OBVIOUS
<1> QED BY <1>2, <1>3, <1>4

LEMMA OneOfEach ==
    ASSUME NEW a, NEW ts, NEW n \in Nat, Lists(ts, n)
    PROVE  Lists(Each(<<a>>, ts), n) /\ \A i \in 1..n : Each(<<a>>, ts)[i] = St(a, ts[i])
<1> DEFINE ops == <<a>>
<1>1. Len(ops) = 1 /\ Len(ts) = n
  BY DEF Lists
<1>2. Each(ops, ts) = [i \in 1..n |-> Statement(ops[((i - 1) % 1) + 1],
                                                ts[((i - 1) \div 1) + 1])]
  BY <1>1 DEF Each
<1>3. \A i \in 1..n : ((i - 1) % 1) + 1 = 1 /\ ((i - 1) \div 1) + 1 = i
  OBVIOUS
<1>4. \A i \in 1..n : Each(ops, ts)[i] = Statement(ops[1], ts[i])
  BY <1>2, <1>3
<1>5. Lists(Each(ops, ts), n)
  BY <1>2 DEF Lists
<1> QED BY <1>4, <1>5 DEF St

LEMMA Joined ==
    ASSUME NEW m \in Nat, NEW n \in Nat, NEW s, NEW t, NEW u,
           Lists(s, m), Lists(t, n), Joins(u, s, t)
    PROVE  /\ Lists(u, m + n)
           /\ \A i \in 1..m : u[i] = s[i]
           /\ \A i \in 1..n : u[m + i] = t[i]
<1> DEFINE S == {s[i] : i \in 1..m} \cup {t[i] : i \in 1..n}
<1>1. (\A i \in 1..m : s[i] \in S) /\ (\A i \in 1..n : t[i] \in S)
  OBVIOUS
<1> HIDE DEF S
<1>2. s \in Seq(S) /\ t \in Seq(S) /\ Len(s) = m /\ Len(t) = n
  BY <1>1 DEF Lists
<1>3. u \in Seq(S) /\ Len(u) = m + n
  <2>1. Len(u) = m + n
    <3>1. Len(s \o t) = Len(s) + Len(t)
      BY <1>2, ConcatProperties
    <3>2. Len(s \o t) = m + n
      BY <1>2, <3>1
    <3> QED BY <3>2 DEF Joins
  <2>2. u \in Seq(S)
    BY <1>2, ConcatProperties DEF Joins
  <2> QED BY <2>1, <2>2
<1>4. \A i \in 1..m : u[i] = s[i]
  BY <1>2 DEF Joins
<1>5. \A i \in 1..n : u[m + i] = t[i]
  BY <1>2 DEF Joins
<1>6. Lists(u, m + n)
  BY <1>3 DEF Lists
<1> QED BY <1>4, <1>5, <1>6

LEMMA SchemaTables ==
    Schema = <<"evidence", "inference", "inquiries", "recognition",
               "hypotheses", "predictions", "world_models", "current_pointer",
               "ledger", "anomalies", "provenance", "dependencies",
               "modelling_context">>
<1>1. /\ Lists(Additive, 4) /\ Lists(Owned, 2) /\ Lists(Rekeyed, 3)
      /\ Lists(Patched, 2) /\ Lists(Unscoped, 2)
  BY DEF Additive, Owned, Rekeyed, Patched, Unscoped, Lists
<1> SUFFICES ASSUME NEW six, Joins(six, Additive, Owned),
                    NEW nine, Joins(nine, six, Rekeyed),
                    NEW eleven, Joins(eleven, nine, Patched),
                    NEW all, Joins(all, eleven, Unscoped)
             PROVE  Schema = <<"evidence", "inference", "inquiries", "recognition",
                                "hypotheses", "predictions", "world_models", "current_pointer",
                                "ledger", "anomalies", "provenance", "dependencies",
                                "modelling_context">>
  BY DEF Joins
<1>2. /\ Lists(six, 6)
      /\ \A i \in 1..4 : six[i] = Additive[i]
      /\ \A i \in 1..2 : six[4 + i] = Owned[i]
  <2>0. 4 \in Nat /\ 2 \in Nat
    OBVIOUS
  <2>1. /\ Lists(six, 4 + 2)
        /\ \A i \in 1..4 : six[i] = Additive[i]
        /\ \A i \in 1..2 : six[4 + i] = Owned[i]
    BY <1>1, <2>0, Joined
  <2>2. 4 + 2 = 6
    OBVIOUS
  <2> QED BY <2>1, <2>2
<1>3. /\ Lists(nine, 9)
      /\ \A i \in 1..6 : nine[i] = six[i]
      /\ \A i \in 1..3 : nine[6 + i] = Rekeyed[i]
  <2>0. 6 \in Nat /\ 3 \in Nat
    OBVIOUS
  <2>1. /\ Lists(nine, 6 + 3)
        /\ \A i \in 1..6 : nine[i] = six[i]
        /\ \A i \in 1..3 : nine[6 + i] = Rekeyed[i]
    BY <1>1, <1>2, <2>0, Joined
  <2>2. 6 + 3 = 9
    OBVIOUS
  <2> QED BY <2>1, <2>2
<1>4. /\ Lists(eleven, 11)
      /\ \A i \in 1..9 : eleven[i] = nine[i]
      /\ \A i \in 1..2 : eleven[9 + i] = Patched[i]
  <2>0. 9 \in Nat /\ 2 \in Nat
    OBVIOUS
  <2>1. /\ Lists(eleven, 9 + 2)
        /\ \A i \in 1..9 : eleven[i] = nine[i]
        /\ \A i \in 1..2 : eleven[9 + i] = Patched[i]
    BY <1>1, <1>3, <2>0, Joined
  <2>2. 9 + 2 = 11
    OBVIOUS
  <2> QED BY <2>1, <2>2
<1>5. /\ Lists(all, 13)
      /\ \A i \in 1..11 : all[i] = eleven[i]
      /\ \A i \in 1..2 : all[11 + i] = Unscoped[i]
  <2>0. 11 \in Nat /\ 2 \in Nat
    OBVIOUS
  <2>1. /\ Lists(all, 11 + 2)
        /\ \A i \in 1..11 : all[i] = eleven[i]
        /\ \A i \in 1..2 : all[11 + i] = Unscoped[i]
    BY <1>1, <1>4, <2>0, Joined
  <2>2. 11 + 2 = 13
    OBVIOUS
  <2> QED BY <2>1, <2>2
<1>6. Schema = all
  BY DEF Schema, Joins
<1>7. /\ six[1] = "evidence" /\ six[2] = "inference" /\ six[3] = "inquiries"
      /\ six[4] = "recognition" /\ six[5] = "hypotheses" /\ six[6] = "predictions"
  <2>1. /\ six[1] = Additive[1] /\ six[2] = Additive[2] /\ six[3] = Additive[3]
        /\ six[4] = Additive[4] /\ six[4 + 1] = Owned[1] /\ six[4 + 2] = Owned[2]
    BY <1>2
  <2> QED BY <2>1 DEF Additive, Owned
<1>8. /\ \A i \in 1..6 : nine[i] = six[i]
      /\ nine[7] = "world_models" /\ nine[8] = "current_pointer" /\ nine[9] = "ledger"
  <2>1. nine[6 + 1] = Rekeyed[1] /\ nine[6 + 2] = Rekeyed[2] /\ nine[6 + 3] = Rekeyed[3]
    BY <1>3
  <2> QED BY <1>3, <2>1 DEF Rekeyed
<1>9. /\ \A i \in 1..9 : eleven[i] = nine[i]
      /\ eleven[10] = "anomalies" /\ eleven[11] = "provenance"
  <2>1. eleven[9 + 1] = Patched[1] /\ eleven[9 + 2] = Patched[2]
    BY <1>4
  <2> QED BY <1>4, <2>1 DEF Patched
<1>10. /\ \A i \in 1..11 : all[i] = eleven[i]
      /\ all[12] = "dependencies" /\ all[13] = "modelling_context"
  <2>1. all[11 + 1] = Unscoped[1] /\ all[11 + 2] = Unscoped[2]
    BY <1>5
  <2> QED BY <1>5, <2>1 DEF Unscoped
<1>11. /\ all[1] = "evidence" /\ all[2] = "inference" /\ all[3] = "inquiries"
       /\ all[4] = "recognition" /\ all[5] = "hypotheses" /\ all[6] = "predictions"
       /\ all[7] = "world_models" /\ all[8] = "current_pointer" /\ all[9] = "ledger"
       /\ all[10] = "anomalies" /\ all[11] = "provenance"
       /\ all[12] = "dependencies" /\ all[13] = "modelling_context"
  BY <1>7, <1>8, <1>9, <1>10
<1>12. all = [i \in 1..13 |-> all[i]]
  BY <1>5 DEF Lists
<1> QED BY <1>6, <1>11, <1>12

LEMMA ScriptParts ==
    /\ Len(Migration) = 28
    /\ Lists(Script, 43) /\ Len(Script) = 43
    /\ \A i \in 1..8 : Script[i] = Each(<<"add_space", "fill">>, Additive)[i]
    /\ \A i \in 1..6 :
          Script[8 + i] = Each(<<"add_space", "add_subject", "assign">>, Owned)[i]
    /\ \A i \in 1..2 : Script[14 + i] = Each(<<"patch">>, Patched)[i]
    /\ \A i \in 1..12 :
          Script[16 + i] = Each(<<"rename", "create", "copy", "drop">>, Rekeyed)[i]
    /\ Script[29] = St("flush", "database")
    /\ \A i \in 1..13 : Script[29 + i] = St("create", Schema[i])
    /\ Script[43] = St("stamp", "database")
<1> DEFINE additive == Each(<<"add_space", "fill">>, Additive)
           owned == Each(<<"add_space", "add_subject", "assign">>, Owned)
           patched == Each(<<"patch">>, Patched)
           rekeyed == Each(<<"rename", "create", "copy", "drop">>, Rekeyed)
           creates == Each(<<"create">>, Schema)
           flush == <<Statement("flush", "database")>>
           stamp == <<Statement("stamp", "database")>>
<1>0. /\ \A i \in 1..13 : creates[i] = St("create", Schema[i])
      /\ flush[1] = St("flush", "database") /\ stamp[1] = St("stamp", "database")
      /\ Lists(creates, 13)
  <2>1. 13 \in Nat /\ Lists(Schema, 13)
    BY SchemaTables DEF Lists
  <2> HIDE DEF creates
  <2>2. Lists(creates, 13) /\ \A i \in 1..13 : creates[i] = St("create", Schema[i])
    BY <2>1, OneOfEach DEF creates
  <2>3. flush[1] = St("flush", "database") /\ stamp[1] = St("stamp", "database")
    BY DEF St
  <2> QED BY <2>2, <2>3
<1>1. /\ Lists(additive, 8) /\ Lists(owned, 6) /\ Lists(patched, 2)
      /\ Lists(rekeyed, 12) /\ Lists(creates, 13) /\ Lists(flush, 1) /\ Lists(stamp, 1)
  <2>1. Lists(additive, 8)
    BY PairsOfFour DEF Additive, Lists
  <2>2. Lists(owned, 6)
    BY TriplesOfTwo DEF Owned, Lists
  <2>3. Lists(patched, 2)
    BY PairOfOne DEF Patched, Lists
  <2>4. Lists(rekeyed, 12)
    BY FoursOfThree DEF Rekeyed, Lists
  <2>5. Lists(flush, 1) /\ Lists(stamp, 1)
    BY DEF Lists
  <2> QED BY <1>0, <2>1, <2>2, <2>3, <2>4, <2>5
<1> HIDE DEF additive, owned, patched, rekeyed, creates, flush, stamp
<1>a. PICK a : Joins(a, additive, owned)
  BY DEF Joins
<1>b. PICK b : Joins(b, a, patched)
  BY DEF Joins
<1>c. PICK c : Joins(c, b, rekeyed)
  BY DEF Joins
<1>d. PICK d : Joins(d, c, flush)
  BY DEF Joins
<1>e. PICK e : Joins(e, d, creates)
  BY DEF Joins
<1>f. PICK f : Joins(f, e, stamp)
  BY DEF Joins
<1>2. /\ Lists(a, 14)
      /\ \A i \in 1..8 : a[i] = additive[i]
      /\ \A i \in 1..6 : a[8 + i] = owned[i]
  <2>0. 8 \in Nat /\ 6 \in Nat
    OBVIOUS
  <2>1. /\ Lists(a, 8 + 6)
        /\ \A i \in 1..8 : a[i] = additive[i]
        /\ \A i \in 1..6 : a[8 + i] = owned[i]
    BY <1>1, <1>a, <2>0, Joined
  <2>2. 8 + 6 = 14
    OBVIOUS
  <2> QED BY <2>1, <2>2
<1>3. /\ Lists(b, 16)
      /\ \A i \in 1..14 : b[i] = a[i]
      /\ \A i \in 1..2 : b[14 + i] = patched[i]
  <2>0. 14 \in Nat /\ 2 \in Nat
    OBVIOUS
  <2>1. /\ Lists(b, 14 + 2)
        /\ \A i \in 1..14 : b[i] = a[i]
        /\ \A i \in 1..2 : b[14 + i] = patched[i]
    BY <1>1, <1>2, <1>b, <2>0, Joined
  <2>2. 14 + 2 = 16
    OBVIOUS
  <2> QED BY <2>1, <2>2
<1>4. /\ Lists(c, 28)
      /\ \A i \in 1..16 : c[i] = b[i]
      /\ \A i \in 1..12 : c[16 + i] = rekeyed[i]
  <2>0. 16 \in Nat /\ 12 \in Nat
    OBVIOUS
  <2>1. /\ Lists(c, 16 + 12)
        /\ \A i \in 1..16 : c[i] = b[i]
        /\ \A i \in 1..12 : c[16 + i] = rekeyed[i]
    BY <1>1, <1>3, <1>c, <2>0, Joined
  <2>2. 16 + 12 = 28
    OBVIOUS
  <2> QED BY <2>1, <2>2
<1>5. /\ Lists(d, 29)
      /\ \A i \in 1..28 : d[i] = c[i]
      /\ \A i \in 1..1 : d[28 + i] = flush[i]
  <2>0. 28 \in Nat /\ 1 \in Nat
    OBVIOUS
  <2>1. /\ Lists(d, 28 + 1)
        /\ \A i \in 1..28 : d[i] = c[i]
        /\ \A i \in 1..1 : d[28 + i] = flush[i]
    BY <1>1, <1>4, <1>d, <2>0, Joined
  <2>2. 28 + 1 = 29
    OBVIOUS
  <2> QED BY <2>1, <2>2
<1>6. /\ Lists(e, 42)
      /\ \A i \in 1..29 : e[i] = d[i]
      /\ \A i \in 1..13 : e[29 + i] = creates[i]
  <2>0. 29 \in Nat /\ 13 \in Nat
    OBVIOUS
  <2>1. /\ Lists(e, 29 + 13)
        /\ \A i \in 1..29 : e[i] = d[i]
        /\ \A i \in 1..13 : e[29 + i] = creates[i]
    BY <1>1, <1>5, <1>e, <2>0, Joined
  <2>2. 29 + 13 = 42
    OBVIOUS
  <2> QED BY <2>1, <2>2
<1>7. /\ Lists(f, 43)
      /\ \A i \in 1..42 : f[i] = e[i]
      /\ \A i \in 1..1 : f[42 + i] = stamp[i]
  <2>0. 42 \in Nat /\ 1 \in Nat
    OBVIOUS
  <2>1. /\ Lists(f, 42 + 1)
        /\ \A i \in 1..42 : f[i] = e[i]
        /\ \A i \in 1..1 : f[42 + i] = stamp[i]
    BY <1>1, <1>6, <1>f, <2>0, Joined
  <2>2. 42 + 1 = 43
    OBVIOUS
  <2> QED BY <2>1, <2>2
<1>8. Migration = c /\ Script = f
  BY <1>a, <1>b, <1>c, <1>d, <1>e, <1>f DEF Joins, Migration, Script, additive, owned, patched, rekeyed,
         creates, flush, stamp
<1>9. Len(Migration) = 28 /\ Lists(Script, 43) /\ Len(Script) = 43
  BY <1>4, <1>7, <1>8 DEF Lists
<1>10. /\ \A i \in 1..8 : Script[i] = additive[i]
       /\ \A i \in 1..6 : Script[8 + i] = owned[i]
       /\ \A i \in 1..2 : Script[14 + i] = patched[i]
       /\ \A i \in 1..12 : Script[16 + i] = rekeyed[i]
       /\ \A i \in 1..13 : Script[29 + i] = creates[i]
  <2>1. /\ \A i \in 1..42 : f[i] = e[i]
        /\ \A i \in 1..29 : e[i] = d[i]
        /\ \A i \in 1..28 : d[i] = c[i]
        /\ \A i \in 1..16 : c[i] = b[i]
        /\ \A i \in 1..14 : b[i] = a[i]
    BY <1>2, <1>3, <1>4, <1>5, <1>6, <1>7
  <2>2. \A i \in 1..28 : f[i] = c[i]
    BY <2>1
  <2>3. \A i \in 1..16 : f[i] = b[i]
    BY <2>1, <2>2
  <2>4. \A i \in 1..14 : f[i] = a[i]
    BY <2>1, <2>3
  <2>5. \A i \in 1..8 : f[i] = additive[i]
    BY <2>4, <1>2
  <2>6. \A i \in 1..6 : f[8 + i] = owned[i]
    BY <2>4, <1>2
  <2>7. \A i \in 1..2 : f[14 + i] = patched[i]
    BY <2>3, <1>3
  <2>8. \A i \in 1..12 : f[16 + i] = rekeyed[i]
    BY <2>2, <1>4
  <2>9. \A i \in 1..13 : f[29 + i] = creates[i]
    BY <2>1, <1>6
  <2> QED BY <1>8, <2>5, <2>6, <2>7, <2>8, <2>9
<1>11. Script[29] = flush[1] /\ Script[43] = stamp[1]
  <2>1. d[28 + 1] = flush[1] /\ e[29] = d[29] /\ f[29] = e[29] /\ f[42 + 1] = stamp[1]
    BY <1>5, <1>6, <1>7
  <2> QED BY <2>1, <1>8
<1> QED BY <1>0, <1>9, <1>10, <1>11 DEF additive, owned, patched, rekeyed

LEMMA ScriptStatements ==
    /\ Script[1] = St("add_space", "evidence")
    /\ Script[2] = St("fill", "evidence")
    /\ Script[3] = St("add_space", "inference")
    /\ Script[4] = St("fill", "inference")
    /\ Script[5] = St("add_space", "inquiries")
    /\ Script[6] = St("fill", "inquiries")
    /\ Script[7] = St("add_space", "recognition")
    /\ Script[8] = St("fill", "recognition")
    /\ Script[9] = St("add_space", "hypotheses")
    /\ Script[10] = St("add_subject", "hypotheses")
    /\ Script[11] = St("assign", "hypotheses")
    /\ Script[12] = St("add_space", "predictions")
    /\ Script[13] = St("add_subject", "predictions")
    /\ Script[14] = St("assign", "predictions")
    /\ Script[15] = St("patch", "anomalies")
    /\ Script[16] = St("patch", "provenance")
    /\ Script[17] = St("rename", "world_models")
    /\ Script[18] = St("create", "world_models")
    /\ Script[19] = St("copy", "world_models")
    /\ Script[20] = St("drop", "world_models")
    /\ Script[21] = St("rename", "current_pointer")
    /\ Script[22] = St("create", "current_pointer")
    /\ Script[23] = St("copy", "current_pointer")
    /\ Script[24] = St("drop", "current_pointer")
    /\ Script[25] = St("rename", "ledger")
    /\ Script[26] = St("create", "ledger")
    /\ Script[27] = St("copy", "ledger")
    /\ Script[28] = St("drop", "ledger")
    /\ Script[29] = St("flush", "database")
    /\ Script[30] = St("create", "evidence")
    /\ Script[31] = St("create", "inference")
    /\ Script[32] = St("create", "inquiries")
    /\ Script[33] = St("create", "recognition")
    /\ Script[34] = St("create", "hypotheses")
    /\ Script[35] = St("create", "predictions")
    /\ Script[36] = St("create", "world_models")
    /\ Script[37] = St("create", "current_pointer")
    /\ Script[38] = St("create", "ledger")
    /\ Script[39] = St("create", "anomalies")
    /\ Script[40] = St("create", "provenance")
    /\ Script[41] = St("create", "dependencies")
    /\ Script[42] = St("create", "modelling_context")
    /\ Script[43] = St("stamp", "database")
<1>1. /\ Script[1] = St("add_space", "evidence")
      /\ Script[2] = St("fill", "evidence")
      /\ Script[3] = St("add_space", "inference")
      /\ Script[4] = St("fill", "inference")
      /\ Script[5] = St("add_space", "inquiries")
      /\ Script[6] = St("fill", "inquiries")
      /\ Script[7] = St("add_space", "recognition")
      /\ Script[8] = St("fill", "recognition")
  <2> DEFINE each == Each(<<"add_space", "fill">>, Additive)
  <2>1. /\ each[1] = St("add_space", "evidence")
        /\ each[2] = St("fill", "evidence")
        /\ each[3] = St("add_space", "inference")
        /\ each[4] = St("fill", "inference")
        /\ each[5] = St("add_space", "inquiries")
        /\ each[6] = St("fill", "inquiries")
        /\ each[7] = St("add_space", "recognition")
        /\ each[8] = St("fill", "recognition")
    BY PairsOfFour DEF Additive
  <2> HIDE DEF each
  <2>2. \A i \in 1..8 : Script[i] = each[i]
    BY ScriptParts DEF each
  <2>3. /\ Script[1] = each[1]
        /\ Script[2] = each[2]
        /\ Script[3] = each[3]
        /\ Script[4] = each[4]
        /\ Script[5] = each[5]
        /\ Script[6] = each[6]
        /\ Script[7] = each[7]
        /\ Script[8] = each[8]
    BY <2>2
  <2> QED BY <2>1, <2>3
<1>2. /\ Script[9] = St("add_space", "hypotheses")
      /\ Script[10] = St("add_subject", "hypotheses")
      /\ Script[11] = St("assign", "hypotheses")
      /\ Script[12] = St("add_space", "predictions")
      /\ Script[13] = St("add_subject", "predictions")
      /\ Script[14] = St("assign", "predictions")
  <2> DEFINE each == Each(<<"add_space", "add_subject", "assign">>, Owned)
  <2>1. /\ each[1] = St("add_space", "hypotheses")
        /\ each[2] = St("add_subject", "hypotheses")
        /\ each[3] = St("assign", "hypotheses")
        /\ each[4] = St("add_space", "predictions")
        /\ each[5] = St("add_subject", "predictions")
        /\ each[6] = St("assign", "predictions")
    BY TriplesOfTwo DEF Owned
  <2> HIDE DEF each
  <2>2. \A i \in 1..6 : Script[8 + i] = each[i]
    BY ScriptParts DEF each
  <2>3. /\ Script[8 + 1] = each[1]
        /\ Script[8 + 2] = each[2]
        /\ Script[8 + 3] = each[3]
        /\ Script[8 + 4] = each[4]
        /\ Script[8 + 5] = each[5]
        /\ Script[8 + 6] = each[6]
    BY <2>2
  <2> QED BY <2>1, <2>3
<1>3. /\ Script[15] = St("patch", "anomalies")
      /\ Script[16] = St("patch", "provenance")
  <2> DEFINE each == Each(<<"patch">>, Patched)
  <2>1. /\ each[1] = St("patch", "anomalies")
        /\ each[2] = St("patch", "provenance")
    BY PairOfOne DEF Patched
  <2> HIDE DEF each
  <2>2. \A i \in 1..2 : Script[14 + i] = each[i]
    BY ScriptParts DEF each
  <2>3. /\ Script[14 + 1] = each[1]
        /\ Script[14 + 2] = each[2]
    BY <2>2
  <2> QED BY <2>1, <2>3
<1>4. /\ Script[17] = St("rename", "world_models")
      /\ Script[18] = St("create", "world_models")
      /\ Script[19] = St("copy", "world_models")
      /\ Script[20] = St("drop", "world_models")
      /\ Script[21] = St("rename", "current_pointer")
      /\ Script[22] = St("create", "current_pointer")
      /\ Script[23] = St("copy", "current_pointer")
      /\ Script[24] = St("drop", "current_pointer")
      /\ Script[25] = St("rename", "ledger")
      /\ Script[26] = St("create", "ledger")
      /\ Script[27] = St("copy", "ledger")
      /\ Script[28] = St("drop", "ledger")
  <2> DEFINE each == Each(<<"rename", "create", "copy", "drop">>, Rekeyed)
  <2>1. /\ each[1] = St("rename", "world_models")
        /\ each[2] = St("create", "world_models")
        /\ each[3] = St("copy", "world_models")
        /\ each[4] = St("drop", "world_models")
        /\ each[5] = St("rename", "current_pointer")
        /\ each[6] = St("create", "current_pointer")
        /\ each[7] = St("copy", "current_pointer")
        /\ each[8] = St("drop", "current_pointer")
        /\ each[9] = St("rename", "ledger")
        /\ each[10] = St("create", "ledger")
        /\ each[11] = St("copy", "ledger")
        /\ each[12] = St("drop", "ledger")
    BY FoursOfThree DEF Rekeyed
  <2> HIDE DEF each
  <2>2. \A i \in 1..12 : Script[16 + i] = each[i]
    BY ScriptParts DEF each
  <2>3. /\ Script[16 + 1] = each[1]
        /\ Script[16 + 2] = each[2]
        /\ Script[16 + 3] = each[3]
        /\ Script[16 + 4] = each[4]
        /\ Script[16 + 5] = each[5]
        /\ Script[16 + 6] = each[6]
        /\ Script[16 + 7] = each[7]
        /\ Script[16 + 8] = each[8]
        /\ Script[16 + 9] = each[9]
        /\ Script[16 + 10] = each[10]
        /\ Script[16 + 11] = each[11]
        /\ Script[16 + 12] = each[12]
    BY <2>2
  <2> QED BY <2>1, <2>3
<1>5. /\ Script[30] = St("create", "evidence")
      /\ Script[31] = St("create", "inference")
      /\ Script[32] = St("create", "inquiries")
      /\ Script[33] = St("create", "recognition")
      /\ Script[34] = St("create", "hypotheses")
      /\ Script[35] = St("create", "predictions")
      /\ Script[36] = St("create", "world_models")
      /\ Script[37] = St("create", "current_pointer")
      /\ Script[38] = St("create", "ledger")
      /\ Script[39] = St("create", "anomalies")
      /\ Script[40] = St("create", "provenance")
      /\ Script[41] = St("create", "dependencies")
      /\ Script[42] = St("create", "modelling_context")
  <2>1. \A i \in 1..13 : Script[29 + i] = St("create", Schema[i])
    BY ScriptParts
  <2>2. /\ Script[29 + 1] = St("create", Schema[1])
        /\ Script[29 + 2] = St("create", Schema[2])
        /\ Script[29 + 3] = St("create", Schema[3])
        /\ Script[29 + 4] = St("create", Schema[4])
        /\ Script[29 + 5] = St("create", Schema[5])
        /\ Script[29 + 6] = St("create", Schema[6])
        /\ Script[29 + 7] = St("create", Schema[7])
        /\ Script[29 + 8] = St("create", Schema[8])
        /\ Script[29 + 9] = St("create", Schema[9])
        /\ Script[29 + 10] = St("create", Schema[10])
        /\ Script[29 + 11] = St("create", Schema[11])
        /\ Script[29 + 12] = St("create", Schema[12])
        /\ Script[29 + 13] = St("create", Schema[13])
    BY <2>1
  <2>3. /\ Schema[1] = "evidence"
        /\ Schema[2] = "inference"
        /\ Schema[3] = "inquiries"
        /\ Schema[4] = "recognition"
        /\ Schema[5] = "hypotheses"
        /\ Schema[6] = "predictions"
        /\ Schema[7] = "world_models"
        /\ Schema[8] = "current_pointer"
        /\ Schema[9] = "ledger"
        /\ Schema[10] = "anomalies"
        /\ Schema[11] = "provenance"
        /\ Schema[12] = "dependencies"
        /\ Schema[13] = "modelling_context"
    BY SchemaTables
  <2> QED BY <2>2, <2>3
<1> QED BY <1>1, <1>2, <1>3, <1>4, <1>5, ScriptParts
----------------------------------------------------------------------------
\* The inductive invariant.  `old` are the legacy tables.
Names == {"evidence", "inference", "inquiries", "recognition", "hypotheses",
          "predictions", "world_models", "current_pointer", "ledger", "anomalies",
          "provenance", "dependencies", "modelling_context"}
OwnedTables == {"hypotheses", "predictions"}
RekeyedTables == {"world_models", "current_pointer", "ledger"}
RetiredNames == {"world_models_v0", "current_pointer_v0", "ledger_v0"}

ProperRow(row) ==
    row = [id |-> row.id, writer |-> row.writer, owner |-> row.owner,
           space |-> row.space, blob |-> row.blob, data |-> row.data]

ProperTable(table) ==
    /\ table = [cols |-> table.cols, rows |-> table.rows]
    /\ Len(table.rows) \in Nat /\ Lists(table.rows, Len(table.rows))
    /\ \A i \in 1..Len(table.rows) : ProperRow(table.rows[i])

Proper(tables) ==
    /\ tables = [t \in DOMAIN tables |-> tables[t]]
    /\ DOMAIN tables \subseteq Names \cup RetiredNames
    /\ \A t \in DOMAIN tables : ProperTable(tables[t])

\* Row a of the legacy table t, as the migration may have left it so far.
Carried(old, t, a, b) ==
    /\ b.id = a.id /\ b.writer = a.writer /\ b.data = a.data
    /\ b.space \in {None, Space}
    /\ t \in OwnedTables => b.blob \in {None, Recovered(old, t)[a.id]}
    /\ t \notin OwnedTables => b.owner = a.owner /\ b.blob = a.blob

Carrying(old, t, rows) ==
    /\ Len(rows) = Len(Rows(old, t))
    /\ \A i \in 1..Len(rows) : Carried(old, t, Rows(old, t)[i], rows[i])

AllSpaced(rows) == \A i \in 1..Len(rows) : rows[i].space = Space

AllAssigned(old, t, rows) ==
    \A i \in 1..Len(rows) :
        rows[i].owner = rows[i].blob /\ rows[i].blob = Recovered(old, t)[rows[i].id]

KeptIn(old, tables, t) ==
    /\ Carrying(old, t, Rows(tables, t))
    /\ t \in RekeyedTables => Rows(tables, Retired(t)) = <<>>

Kept(old, tables) == \A t \in Names : KeptIn(old, tables, t)

\* Between the renaming of a table and the dropping of the retired one.
InWindow(k) == k =< 28 /\ Script[k].op \in {"create", "copy", "drop"}

Windowed(old, tables, op, t) ==
    /\ \A u \in Names \ {t} : KeptIn(old, tables, u)
    /\ Retired(t) \in DOMAIN tables /\ Carrying(old, t, Rows(tables, Retired(t)))
    /\ op = "create" => t \notin DOMAIN tables
    /\ op = "copy" => t \in DOMAIN tables /\ Rows(tables, t) = <<>>
    /\ op = "drop" => /\ t \in DOMAIN tables /\ Carrying(old, t, Rows(tables, t))
                      /\ AllSpaced(Rows(tables, t))

\* A rekeyed table that has its space has it in every row.
Columns(tables) ==
    \A t \in RekeyedTables \cap DOMAIN tables :
        "space" \in tables[t].cols => AllSpaced(tables[t].rows)

\* What statement k of the script has brought about.
Done(old, tables, k) ==
    LET t == Script[k].table
    IN  /\ Script[k].op \in {"fill", "assign", "drop"} => AllSpaced(Rows(tables, t))
        /\ Script[k].op = "assign" => AllAssigned(old, t, Rows(tables, t))
        /\ k > 29 /\ Script[k].op = "create" => t \in DOMAIN tables

\* The owner of a row is the subject that wrote it, or the one the migration
\* found for it.
Rightful(old, t, row) ==
    \/ row.owner = row.writer
    \/ \E i \in 1..Len(Rows(old, t)) :
          /\ Rows(old, t)[i].id = row.id /\ Rows(old, t)[i].writer = row.writer
          /\ row.owner = Recovered(old, t)[row.id]

SoundRow(old, t, row) ==
    /\ Decodes(row)
    /\ t \in OwnedTables => row.owner = row.blob /\ Rightful(old, t, row)
    /\ t \in Scoped => row.space = Space
    /\ t = "current_pointer" => row.id = row.writer

Prefixed(old, tables, t) ==
    /\ Len(Rows(old, t)) =< Len(Rows(tables, t))
    /\ \A i \in 1..Len(Rows(old, t)) : Key(Rows(tables, t)[i]) = Key(Rows(old, t)[i])

Sound(old, reset, tables) ==
    /\ Names \subseteq DOMAIN tables
    /\ \A t \in DOMAIN tables :
          \A i \in 1..Len(tables[t].rows) : SoundRow(old, t, tables[t].rows[i])
    /\ reset \/ \A t \in DOMAIN old : Prefixed(old, tables, t)

GoodWrite(old, write) ==
    /\ write.table \in Names
    /\ ProperRow(write.row) /\ SoundRow(old, write.table, write.row)

StoreShape ==
    /\ legacy \in Legacy
    /\ disk = [tables |-> disk.tables, version |-> disk.version]
    /\ disk.version \in {0, 1} /\ Proper(disk.tables) /\ Proper(live)
    /\ spent = [interactions |-> spent.interactions, crashes |-> spent.crashes,
                faults |-> spent.faults, reset |-> spent.reset]
    /\ spent.reset \in BOOLEAN /\ pending \in BOOLEAN
    /\ Len(todo) \in Nat /\ Lists(todo, Len(todo))
    /\ \A i \in 1..Len(todo) : GoodWrite(legacy, todo[i])

OpeningOld ==
    /\ cursor \in 1..43
    /\ read = [t \in OwnedTables |-> Recovered(legacy, t)]
    /\ Columns(live)
    /\ "evidence" \in DOMAIN legacy => "evidence" \in DOMAIN live
    /\ InWindow(cursor) => Windowed(legacy, live, Script[cursor].op, Script[cursor].table)
    /\ ~InWindow(cursor) => Kept(legacy, live)
    /\ \A k \in 1..(cursor - 1) : Done(legacy, live, k)
    /\ cursor \in 3..29 /\ "evidence" \in DOMAIN legacy => pending
    /\ cursor > 29 => ~pending

OldStore ==
    /\ ~spent.reset
    /\ phase \in {"closed", "opening"}
    /\ Kept(legacy, disk.tables) /\ Columns(disk.tables)
    /\ "evidence" \in DOMAIN legacy => "evidence" \in DOMAIN disk.tables
    /\ phase = "opening" => OpeningOld

NewStore ==
    /\ Sound(legacy, spent.reset, disk.tables)
    /\ Sound(legacy, spent.reset, live)
    /\ phase = "opening" => cursor \in 29..44
    /\ phase = "resetting" => spent.reset /\ cursor \in 1..14

StoreInv ==
    /\ StoreShape
    /\ disk.version = 0 => OldStore
    /\ disk.version = 1 => NewStore

----------------------------------------------------------------------------
\* Facts about the schema and the script.
LEMMA TableSets ==
    /\ ToSet(Additive) = {"evidence", "inference", "inquiries", "recognition"}
    /\ ToSet(Owned) = OwnedTables /\ ToSet(Rekeyed) = RekeyedTables
    /\ ToSet(Schema) = Names
    /\ Scoped = {"evidence", "inference", "inquiries", "recognition"}
                  \cup OwnedTables \cup RekeyedTables
<1>1. ToSet(Additive) = {"evidence", "inference", "inquiries", "recognition"}
  BY DEF ToSet, Additive
<1>2. ToSet(Owned) = OwnedTables
  BY DEF ToSet, Owned, OwnedTables
<1>3. ToSet(Rekeyed) = RekeyedTables
  BY DEF ToSet, Rekeyed, RekeyedTables
<1>4. ToSet(Schema) = Names
  BY SchemaTables DEF ToSet, Names
<1> QED BY <1>1, <1>2, <1>3, <1>4 DEF Scoped

LEMMA RetiredTables ==
    /\ Retired("world_models") = "world_models_v0"
    /\ Retired("current_pointer") = "current_pointer_v0"
    /\ Retired("ledger") = "ledger_v0"
  BY DEF Retired

\* What each statement of the script is about, and what follows it.
Shape(st, k) ==
    /\ st = Statement(st.op, st.table)
    /\ st.op \in {"add_space", "fill"} => st.table \in Names \ RekeyedTables
    /\ st.op = "fill" => st.table \notin OwnedTables
    /\ st.op \in {"add_subject", "assign"} => st.table \in OwnedTables
    /\ st.op \in {"rename", "copy", "drop"} => st.table \in RekeyedTables /\ k =< 28
    /\ st.op = "create" => st.table \in Names
    /\ st.op = "patch" => st.table \in Names
    /\ st.op = "flush" <=> k = 29
    /\ st.op = "stamp" <=> k = 43
    /\ k \in 30..42 => st.op = "create"
    /\ st.op \in {"add_space", "fill", "add_subject", "assign", "patch",
                  "rename", "create", "copy", "drop", "flush", "stamp"}

LEMMA ScriptShape ==
    ASSUME NEW k \in 1..43
    PROVE  Shape(Script[k], k)
<1> DEFINE plain == Names \ (OwnedTables \cup RekeyedTables)
<1>1. k \in {1, 2, 3, 4, 5, 6, 7, 8, 9, 10, 11, 12, 13, 14, 15, 16, 17, 18,
             19, 20, 21, 22, 23, 24, 25, 26, 27, 28, 29, 30, 31, 32, 33, 34,
             35, 36, 37, 38, 39, 40, 41, 42, 43}
  OBVIOUS
<1>2. \A t \in plain, i \in 1..28 :
        /\ Shape(St("add_space", t), i) /\ Shape(St("fill", t), i)
        /\ Shape(St("patch", t), i)
  BY DEF Shape, St, Statement
<1>3. \A t \in OwnedTables, i \in 1..28 :
        /\ Shape(St("add_space", t), i) /\ Shape(St("add_subject", t), i)
        /\ Shape(St("assign", t), i)
  BY DEF Shape, St, Statement, Names, OwnedTables, RekeyedTables
<1>4. \A t \in RekeyedTables, i \in 1..28 :
        /\ Shape(St("rename", t), i) /\ Shape(St("create", t), i)
        /\ Shape(St("copy", t), i) /\ Shape(St("drop", t), i)
  BY DEF Shape, St, Statement, Names, RekeyedTables
<1>5. \A t \in Names, i \in 30..42 : Shape(St("create", t), i)
  BY DEF Shape, St, Statement
<1>6. Shape(St("flush", "database"), 29) /\ Shape(St("stamp", "database"), 43)
  BY DEF Shape, St, Statement
<1>7. /\ {"evidence", "inference", "inquiries", "recognition", "anomalies", "provenance"}
           \subseteq plain
      /\ "hypotheses" \in OwnedTables /\ "predictions" \in OwnedTables
      /\ "world_models" \in RekeyedTables /\ "current_pointer" \in RekeyedTables
      /\ "ledger" \in RekeyedTables
  BY DEF Names, OwnedTables, RekeyedTables
<1> HIDE DEF plain
<1>8. /\ Shape(Script[1], 1)
      /\ Shape(Script[2], 2)
      /\ Shape(Script[3], 3)
      /\ Shape(Script[4], 4)
      /\ Shape(Script[5], 5)
      /\ Shape(Script[6], 6)
      /\ Shape(Script[7], 7)
      /\ Shape(Script[8], 8)
  BY ScriptStatements, <1>2, <1>7
<1>9. /\ Shape(Script[9], 9)
      /\ Shape(Script[10], 10)
      /\ Shape(Script[11], 11)
      /\ Shape(Script[12], 12)
      /\ Shape(Script[13], 13)
      /\ Shape(Script[14], 14)
  BY ScriptStatements, <1>3, <1>7
<1>10. /\ Shape(Script[15], 15)
      /\ Shape(Script[16], 16)
  BY ScriptStatements, <1>2, <1>7
<1>11. /\ Shape(Script[17], 17)
      /\ Shape(Script[18], 18)
      /\ Shape(Script[19], 19)
      /\ Shape(Script[20], 20)
      /\ Shape(Script[21], 21)
      /\ Shape(Script[22], 22)
      /\ Shape(Script[23], 23)
      /\ Shape(Script[24], 24)
      /\ Shape(Script[25], 25)
      /\ Shape(Script[26], 26)
      /\ Shape(Script[27], 27)
      /\ Shape(Script[28], 28)
  BY ScriptStatements, <1>4, <1>7
<1>12. \A i \in 30..42 : Shape(Script[i], i)
  <2>1. \A i \in 1..13 : Script[29 + i] = St("create", Schema[i])
    BY ScriptParts
  <2>2. \A i \in 1..13 : Schema[i] \in Names
    BY SchemaTables DEF Names
  <2>3. \A i \in 30..42 : i - 29 \in 1..13 /\ 29 + (i - 29) = i
    OBVIOUS
  <2> QED BY <2>1, <2>2, <2>3, <1>5
<1>13. Shape(Script[29], 29) /\ Shape(Script[43], 43)
  BY ScriptParts, <1>6
<1> QED BY <1>1, <1>8, <1>9, <1>10, <1>11, <1>12, <1>13

Follows(k) ==
    /\ Script[k].op = "rename" =>
          /\ k =< 25 /\ Script[k + 1] = Statement("create", Script[k].table)
          /\ Script[k + 2] = Statement("copy", Script[k].table)
          /\ Script[k + 3] = Statement("drop", Script[k].table) /\ ~InWindow(k + 4)
    /\ Script[k].op = "create" =>
          /\ Script[k].table \in RekeyedTables /\ k =< 26
          /\ Script[k + 1] = Statement("copy", Script[k].table)
    /\ Script[k].op = "copy" =>
          k =< 27 /\ Script[k + 1] = Statement("drop", Script[k].table)
    /\ Script[k].op \notin {"rename", "create", "copy"} => ~InWindow(k + 1)

LEMMA ScriptFlow ==
    ASSUME NEW k \in 1..28
    PROVE  Follows(k)
<1>1. k \in {1, 2, 3, 4, 5, 6, 7, 8, 9, 10, 11, 12, 13, 14, 15, 16, 17, 18,
             19, 20, 21, 22, 23, 24, 25, 26, 27, 28}
  OBVIOUS
<1> DEFINE plain == {"add_space", "add_subject", "fill", "assign", "patch", "rename",
                     "flush"}
<1>2. \A i \in 1..29, op \in plain : \A t : Script[i] = St(op, t) => ~InWindow(i)
  BY DEF InWindow, St, Statement
<1>3. \A i \in 1..28, op \in {"add_space", "add_subject", "fill", "assign", "patch", "drop"} :
        \A t : Script[i] = St(op, t) /\ ~InWindow(i + 1) => Follows(i)
  BY DEF Follows, St, Statement
<1>4. \A i \in 1..25, t \in RekeyedTables :
         /\ Script[i] = St("rename", t) /\ Script[i + 1] = St("create", t)
         /\ Script[i + 2] = St("copy", t) /\ Script[i + 3] = St("drop", t)
         /\ ~InWindow(i + 4)
         => Follows(i) /\ Follows(i + 1) /\ Follows(i + 2) /\ Follows(i + 3)
  <2> SUFFICES ASSUME NEW i \in 1..25, NEW t \in RekeyedTables,
                      Script[i] = St("rename", t), Script[i + 1] = St("create", t),
                      Script[i + 2] = St("copy", t), Script[i + 3] = St("drop", t),
                      ~InWindow(i + 4)
               PROVE  Follows(i) /\ Follows(i + 1) /\ Follows(i + 2) /\ Follows(i + 3)
    OBVIOUS
  <2>1. Follows(i)
    BY DEF Follows, St, Statement
  <2>2. Follows(i + 1)
    BY DEF Follows, St, Statement
  <2>3. Follows(i + 2)
    BY DEF Follows, St, Statement
  <2>4. Follows(i + 3)
    BY DEF Follows, St, Statement
  <2> QED BY <2>1, <2>2, <2>3, <2>4
<1> HIDE DEF plain
<1>5. "world_models" \in RekeyedTables /\ "current_pointer" \in RekeyedTables
      /\ "ledger" \in RekeyedTables
  BY DEF RekeyedTables
<1>6. {"add_space", "add_subject", "fill", "assign", "patch", "rename", "flush"}
        \subseteq plain
  BY DEF plain
<1>7. \A i \in 1..17 : ~InWindow(i)
  <2>1. /\ ~InWindow(1)
        /\ ~InWindow(2)
        /\ ~InWindow(3)
        /\ ~InWindow(4)
        /\ ~InWindow(5)
        /\ ~InWindow(6)
        /\ ~InWindow(7)
        /\ ~InWindow(8)
    BY ScriptStatements, <1>2, <1>6
  <2>2. /\ ~InWindow(9)
        /\ ~InWindow(10)
        /\ ~InWindow(11)
        /\ ~InWindow(12)
        /\ ~InWindow(13)
        /\ ~InWindow(14)
        /\ ~InWindow(15)
        /\ ~InWindow(16)
        /\ ~InWindow(17)
    BY ScriptStatements, <1>2, <1>6
  <2> QED BY <2>1, <2>2
<1>8. ~InWindow(21) /\ ~InWindow(25) /\ ~InWindow(29)
  BY ScriptStatements, <1>2, <1>6
<1>9. /\ Follows(1)
      /\ Follows(2)
      /\ Follows(3)
      /\ Follows(4)
      /\ Follows(5)
      /\ Follows(6)
      /\ Follows(7)
      /\ Follows(8)
  BY ScriptStatements, <1>3, <1>7
<1>10. /\ Follows(9)
      /\ Follows(10)
      /\ Follows(11)
      /\ Follows(12)
      /\ Follows(13)
      /\ Follows(14)
      /\ Follows(15)
      /\ Follows(16)
  BY ScriptStatements, <1>3, <1>7
<1>11. \A i \in {17, 21, 25} : /\ Follows(i) /\ Follows(i + 1)
                               /\ Follows(i + 2) /\ Follows(i + 3)
  <2>1. Follows(17) /\ Follows(17 + 1) /\ Follows(17 + 2) /\ Follows(17 + 3)
    BY ScriptStatements, <1>4, <1>5, <1>8
  <2>2. Follows(21) /\ Follows(21 + 1) /\ Follows(21 + 2) /\ Follows(21 + 3)
    BY ScriptStatements, <1>4, <1>5, <1>8
  <2>3. Follows(25) /\ Follows(25 + 1) /\ Follows(25 + 2) /\ Follows(25 + 3)
    BY ScriptStatements, <1>4, <1>5, <1>8
  <2> QED BY <2>1, <2>2, <2>3
<1>12. \A i \in 17..28 : Follows(i)
  <2>1. \A i \in 17..28 : \E j \in {17, 21, 25} : i = j \/ i = j + 1 \/ i = j + 2 \/ i = j + 3
    OBVIOUS
  <2> QED BY <2>1, <1>11
<1> QED BY <1>1, <1>9, <1>10, <1>12

\* Every table is dealt with.
LEMMA ScriptComplete ==
    /\ \A t \in Scoped \ OwnedTables :
          \E k \in 1..42 : Script[k].op \in {"fill", "drop"} /\ Script[k].table = t
    /\ \A t \in OwnedTables :
          \E k \in 1..42 : Script[k].op = "assign" /\ Script[k].table = t
    /\ \A t \in Names :
          \E k \in 30..42 : Script[k].op = "create" /\ Script[k].table = t
<1>1. \A t \in OwnedTables :
         \E k \in 1..42 : Script[k].op = "assign" /\ Script[k].table = t
  <2>1. Script[11] = St("assign", "hypotheses") /\ Script[14] = St("assign", "predictions")
    BY ScriptStatements
  <2> QED BY <2>1 DEF St, Statement, OwnedTables
<1>2. \A t \in Names :
         \E k \in 30..42 : Script[k].op = "create" /\ Script[k].table = t
  <2>1. \A t \in Names : \E i \in 1..13 : t = Schema[i]
    BY SchemaTables DEF Names
  <2>2. \A i \in 1..13 : 29 + i \in 30..42 /\ Script[29 + i] = St("create", Schema[i])
    <3>1. \A i \in 1..13 : 29 + i \in 30..42
      OBVIOUS
    <3> QED BY <3>1, ScriptParts
  <2>3. \A n : St("create", n).op = "create" /\ St("create", n).table = n
    BY DEF St, Statement
  <2> QED BY <2>1, <2>2, <2>3
<1>3. \A t \in Scoped \ OwnedTables :
         \E k \in 1..42 : Script[k].op \in {"fill", "drop"} /\ Script[k].table = t
  <2>1. /\ Script[2] = St("fill", "evidence") /\ Script[4] = St("fill", "inference")
        /\ Script[6] = St("fill", "inquiries") /\ Script[8] = St("fill", "recognition")
        /\ Script[20] = St("drop", "world_models")
        /\ Script[24] = St("drop", "current_pointer") /\ Script[28] = St("drop", "ledger")
    BY ScriptStatements
  <2> QED BY <2>1, TableSets DEF St, Statement, RekeyedTables
<1> QED BY <1>1, <1>2, <1>3

----------------------------------------------------------------------------
\* Tables and rows.
LEMMA ProperRows ==
    ASSUME NEW tables, Proper(tables), NEW t
    PROVE  /\ Len(Rows(tables, t)) \in Nat
           /\ Lists(Rows(tables, t), Len(Rows(tables, t)))
           /\ DOMAIN Rows(tables, t) = 1..Len(Rows(tables, t))
           /\ \A i \in 1..Len(Rows(tables, t)) : ProperRow(Rows(tables, t)[i])
<1>1. CASE t \in DOMAIN tables
  BY <1>1 DEF Rows, Proper, ProperTable, Lists
<1>2. CASE t \notin DOMAIN tables
  <2>1. Rows(tables, t) = <<>>
    BY <1>2 DEF Rows
  <2> QED BY <2>1 DEF Lists
<1> QED BY <1>1, <1>2

\* What the databases there may be at first are like.
LEMMA LegacyFacts ==
    ASSUME NEW old \in Legacy
    PROVE  /\ Proper(old) /\ DOMAIN old \subseteq Names
           /\ \A t \in DOMAIN old : old[t].cols \subseteq {"subject"}
           /\ \A t : \A i \in 1..Len(Rows(old, t)) :
                 t \in Names /\ LegacyRow(t, Rows(old, t)[i])
           /\ "evidence" \notin DOMAIN old => \A t : Rows(old, t) = <<>>
<1>1. /\ old = [t \in DOMAIN old |-> old[t]]
      /\ DOMAIN old \subseteq Names
      /\ \A t \in DOMAIN old : LegacyTable(t, old[t])
      /\ \/ "evidence" \in DOMAIN old
         \/ \A t \in DOMAIN old : old[t].rows = <<>>
  BY LegacyAssumption, TableSets
<1>2. ASSUME NEW t \in DOMAIN old
      PROVE  /\ ProperTable(old[t]) /\ old[t].cols \subseteq {"subject"}
             /\ \A i \in 1..Len(old[t].rows) : LegacyRow(t, old[t].rows[i])
  <2>1. LegacyTable(t, old[t])
    BY <1>1
  <2> DEFINE rows == old[t].rows
  <2>2. /\ old[t] = [cols |-> old[t].cols, rows |-> rows]
        /\ old[t].cols \subseteq {"subject"} /\ rows \in Seq(ToSet(rows))
        /\ \A row \in ToSet(rows) : LegacyRow(t, row)
    BY <2>1 DEF LegacyTable
  <2>3. Len(rows) \in Nat /\ Lists(rows, Len(rows)) /\ DOMAIN rows = 1..Len(rows)
    BY <2>2 DEF Lists
  <2>4. \A i \in 1..Len(rows) : rows[i] \in ToSet(rows)
    BY <2>3 DEF ToSet
  <2>5. \A row : LegacyRow(t, row) => ProperRow(row)
    BY DEF LegacyRow, ProperRow
  <2>6. \A i \in 1..Len(rows) : LegacyRow(t, rows[i]) /\ ProperRow(rows[i])
    BY <2>2, <2>4, <2>5
  <2> QED BY <2>2, <2>3, <2>6 DEF ProperTable
<1>3. Proper(old)
  BY <1>1, <1>2 DEF Proper
<1>4. ASSUME NEW t, NEW i \in 1..Len(Rows(old, t))
      PROVE  t \in Names /\ LegacyRow(t, Rows(old, t)[i])
  <2>1. CASE t \in DOMAIN old
    BY <1>1, <1>2, <2>1 DEF Rows
  <2>2. CASE t \notin DOMAIN old
    BY <2>2 DEF Rows
  <2> QED BY <2>1, <2>2
<1>5. "evidence" \notin DOMAIN old => \A t : Rows(old, t) = <<>>
  BY <1>1 DEF Rows
<1> QED BY <1>1, <1>2, <1>3, <1>4, <1>5

LEMMA SpacedRow ==
    ASSUME NEW row, ProperRow(row), NEW new, new = Spaced(row)
    PROVE  /\ ProperRow(new)
           /\ new.id = row.id /\ new.writer = row.writer /\ new.owner = row.owner
           /\ new.blob = row.blob /\ new.data = row.data
           /\ new.space = IF row.space = None THEN Space ELSE row.space
  BY DEF ProperRow, Spaced

LEMMA AssignedRow ==
    ASSUME NEW row, ProperRow(row), NEW owners, NEW new, new = Assigned(row, owners)
    PROVE  /\ ProperRow(new)
           /\ new.id = row.id /\ new.writer = row.writer /\ new.data = row.data
           /\ new.owner = owners[row.id] /\ new.space = Space
           /\ new.blob = IF row.blob = None THEN owners[row.id] ELSE row.blob
<1>1. row = [id |-> row.id, writer |-> row.writer, owner |-> row.owner,
             space |-> row.space, blob |-> row.blob, data |-> row.data]
  BY DEF ProperRow
<1>2. new = [id |-> row.id, writer |-> row.writer, owner |-> owners[row.id],
             space |-> Space,
             blob |-> IF row.blob = None THEN owners[row.id] ELSE row.blob,
             data |-> row.data]
  <2>1. PICK o : o = owners[row.id]
    OBVIOUS
  <2>2. new = [row EXCEPT !.owner = o, !.space = Space,
                          !.blob = IF row.blob = None THEN o ELSE row.blob]
    BY <2>1 DEF Assigned
  <2>3. new = [id |-> row.id, writer |-> row.writer, owner |-> o, space |-> Space,
               blob |-> IF row.blob = None THEN o ELSE row.blob, data |-> row.data]
    BY <1>1, <2>2
  <2> QED BY <2>1, <2>3
<1> QED BY <1>2 DEF ProperRow

\* The rows of a table replaced one by one.
LEMMA MappedRows ==
    ASSUME NEW rows, Len(rows) \in Nat, Lists(rows, Len(rows)), NEW new,
           DOMAIN new = DOMAIN rows, new = [i \in DOMAIN new |-> new[i]]
    PROVE  Len(new) = Len(rows) /\ Lists(new, Len(new))
<1>1. DOMAIN rows = 1..Len(rows)
  BY DEF Lists
<1>2. new = [i \in 1..Len(rows) |-> new[i]]
  BY <1>1
<1>3. Len(new) = Len(rows)
  BY <1>2
<1> QED BY <1>2, <1>3 DEF Lists

LEMMA SpacedTable ==
    ASSUME NEW table, ProperTable(table), NEW new, new = MapRows(table, Spaced)
    PROVE  /\ ProperTable(new) /\ new.cols = table.cols
           /\ Len(new.rows) = Len(table.rows)
           /\ \A i \in 1..Len(table.rows) : new.rows[i] = Spaced(table.rows[i])
<1>1. new = [table EXCEPT !.rows = [i \in DOMAIN table.rows |-> Spaced(table.rows[i])]]
  BY DEF MapRows
<1>2. /\ table = [cols |-> table.cols, rows |-> table.rows]
      /\ Len(table.rows) \in Nat /\ Lists(table.rows, Len(table.rows))
      /\ \A i \in 1..Len(table.rows) : ProperRow(table.rows[i])
  BY DEF ProperTable
<1>3. DOMAIN table.rows = 1..Len(table.rows)
  BY <1>2 DEF Lists
<1>4. /\ new = [cols |-> new.cols, rows |-> new.rows] /\ new.cols = table.cols
      /\ new.rows = [i \in 1..Len(table.rows) |-> Spaced(table.rows[i])]
  BY <1>1, <1>2, <1>3
<1>5. Len(new.rows) = Len(table.rows) /\ Lists(new.rows, Len(new.rows))
  <2>1. DOMAIN new.rows = DOMAIN table.rows /\ new.rows = [i \in DOMAIN new.rows |-> new.rows[i]]
    BY <1>3, <1>4
  <2> QED BY <1>2, <2>1, MappedRows
<1>6. \A row : ProperRow(row) => ProperRow(Spaced(row))
  BY SpacedRow
<1>7. \A i \in 1..Len(table.rows) : new.rows[i] = Spaced(table.rows[i])
  BY <1>4
<1>8. ProperTable(new)
  BY <1>2, <1>4, <1>5, <1>6, <1>7 DEF ProperTable
<1> QED BY <1>4, <1>5, <1>7, <1>8

AssignsRows(new, table, owners) ==
    new = [table EXCEPT !.rows =
             [i \in DOMAIN table.rows |-> Assigned(table.rows[i], owners)]]

LEMMA AssignedTable ==
    ASSUME NEW table, ProperTable(table), NEW owners, NEW new,
           AssignsRows(new, table, owners)
    PROVE  /\ ProperTable(new) /\ new.cols = table.cols
           /\ Len(new.rows) = Len(table.rows)
           /\ \A i \in 1..Len(table.rows) : new.rows[i] = Assigned(table.rows[i], owners)
<1>1. new = [table EXCEPT !.rows =
               [i \in DOMAIN table.rows |-> Assigned(table.rows[i], owners)]]
  BY DEF AssignsRows
<1>2. /\ table = [cols |-> table.cols, rows |-> table.rows]
      /\ Len(table.rows) \in Nat /\ Lists(table.rows, Len(table.rows))
      /\ \A i \in 1..Len(table.rows) : ProperRow(table.rows[i])
  BY DEF ProperTable
<1>3. DOMAIN table.rows = 1..Len(table.rows)
  BY <1>2 DEF Lists
<1>4. /\ new = [cols |-> new.cols, rows |-> new.rows] /\ new.cols = table.cols
      /\ new.rows = [i \in 1..Len(table.rows) |-> Assigned(table.rows[i], owners)]
  BY <1>1, <1>2, <1>3
<1>5. Len(new.rows) = Len(table.rows) /\ Lists(new.rows, Len(new.rows))
  <2>1. DOMAIN new.rows = DOMAIN table.rows /\ new.rows = [i \in DOMAIN new.rows |-> new.rows[i]]
    BY <1>3, <1>4
  <2> QED BY <1>2, <2>1, MappedRows
<1>6. \A row : ProperRow(row) => ProperRow(Assigned(row, owners))
  BY AssignedRow
<1>7. \A i \in 1..Len(table.rows) : new.rows[i] = Assigned(table.rows[i], owners)
  BY <1>4
<1>8. ProperTable(new)
  BY <1>2, <1>4, <1>5, <1>6, <1>7 DEF ProperTable
<1> QED BY <1>4, <1>5, <1>7, <1>8

\* One table replaced.
Overwrites(new, tables, t, table) == new = [tables EXCEPT ![t] = table]

LEMMA Replaced ==
    ASSUME NEW tables, Proper(tables), NEW t \in DOMAIN tables,
           NEW table, ProperTable(table),
           NEW new, Overwrites(new, tables, t, table)
    PROVE  /\ Proper(new) /\ DOMAIN new = DOMAIN tables
           /\ new[t] = table /\ Rows(new, t) = table.rows
           /\ \A u \in DOMAIN tables : u # t => new[u] = tables[u]
           /\ \A u : u # t => Rows(new, u) = Rows(tables, u)
<1>1. /\ DOMAIN new = DOMAIN tables /\ new[t] = table
      /\ \A u \in DOMAIN tables : u # t => new[u] = tables[u]
      /\ new = [u \in DOMAIN new |-> new[u]]
  BY DEF Proper, Overwrites
<1>2. \A u \in DOMAIN new : ProperTable(new[u])
  BY <1>1 DEF Proper
<1>3. Proper(new)
  BY <1>1, <1>2 DEF Proper
<1> QED BY <1>1, <1>3 DEF Rows

----------------------------------------------------------------------------
\* Whom the migration finds for a row.
IdsIn(tables, t) == {row.id : row \in ToSet(Rows(tables, t))}

OwnerOf(tables, t, id) ==
    IF Holders(tables, id, t) # {}
    THEN Rows(tables, "world_models")[Min(Holders(tables, id, t))].writer
    ELSE IF SoleEvidenceSubject(tables) # None
         THEN SoleEvidenceSubject(tables) ELSE Unknown

LEMMA RecoveredOwners ==
    ASSUME NEW tables, NEW t
    PROVE  Recovered(tables, t) = [id \in IdsIn(tables, t) |-> OwnerOf(tables, t, id)]
  BY DEF Recovered, IdsIn, OwnerOf

\* A set of naturals that is not empty has a least element.
LEMMA LeastOfNaturals ==
    ASSUME NEW S \in SUBSET Nat, S # {}
    PROVE  \E m \in S : \A x \in S : m =< x
  <1> DEFINE R == OpToRel(<, Nat)
  <1>1. \A x, y \in Nat : <<y, x>> \in R <=> y < x
    <2>1. \A x, y \in Nat : <<y, x>> \in Nat \X Nat
      OBVIOUS
    <2> QED BY <2>1, Zenon DEF OpToRel
  <1>2. IsWellFoundedOn(R, Nat)
    BY NatLessThanWellFounded
  <1> HIDE DEF R
  <1>3. PICK m \in S : \A y \in S : ~(<<y, m>> \in R)
    BY <1>2, WFMin
  <1>4. \A x \in S : ~(x < m)
    BY <1>1, <1>3, Zenon
  <1> QED BY <1>4

LEMMA FirstHolder ==
    ASSUME NEW tables, Proper(tables), NEW id, NEW t, Holders(tables, id, t) # {}
    PROVE  /\ Min(Holders(tables, id, t)) \in Holders(tables, id, t)
           /\ Min(Holders(tables, id, t)) \in 1..Len(Rows(tables, "world_models"))
<1> DEFINE holders == Holders(tables, id, t)
<1>1. holders \subseteq 1..Len(Rows(tables, "world_models"))
  BY ProperRows DEF Holders
<1>2. Len(Rows(tables, "world_models")) \in Nat
  BY ProperRows
<1> HIDE DEF holders
<1>3. holders \in SUBSET Nat
  BY <1>1, <1>2
<1>4. \E m \in holders : \A x \in holders : m =< x
  BY <1>3, LeastOfNaturals DEF holders
<1>5. Min(holders) \in holders
  BY <1>4 DEF Min
<1> QED BY <1>1, <1>5 DEF holders

\* Fields of the rows of two tables that agree index by index.
LEMMA SameFields ==
    ASSUME NEW a, NEW b, Len(a) = Len(b),
           DOMAIN a = 1..Len(a), DOMAIN b = 1..Len(b)
    PROVE  /\ (\A i \in 1..Len(a) : a[i].id = b[i].id)
                => {row.id : row \in ToSet(a)} = {row.id : row \in ToSet(b)}
           /\ (\A i \in 1..Len(a) : a[i].owner = b[i].owner)
                => {row.owner : row \in ToSet(a)} = {row.owner : row \in ToSet(b)}
<1>1. /\ {row.id : row \in ToSet(a)} = {a[i].id : i \in 1..Len(a)}
      /\ {row.id : row \in ToSet(b)} = {b[i].id : i \in 1..Len(b)}
      /\ {row.owner : row \in ToSet(a)} = {a[i].owner : i \in 1..Len(a)}
      /\ {row.owner : row \in ToSet(b)} = {b[i].owner : i \in 1..Len(b)}
  BY DEF ToSet
<1>2. ASSUME \A i \in 1..Len(a) : a[i].id = b[i].id
      PROVE  {a[i].id : i \in 1..Len(a)} = {b[i].id : i \in 1..Len(b)}
  BY <1>2
<1>3. ASSUME \A i \in 1..Len(a) : a[i].owner = b[i].owner
      PROVE  {a[i].owner : i \in 1..Len(a)} = {b[i].owner : i \in 1..Len(b)}
  BY <1>3
<1> QED BY <1>1, <1>2, <1>3

\* What is found does not depend on how far the migration got.
LEMMA RecoveredKept ==
    ASSUME NEW old \in Legacy, NEW tables, Proper(tables), Kept(old, tables),
           NEW t \in OwnedTables
    PROVE  Recovered(tables, t) = Recovered(old, t)
<1>1. Proper(old)
  BY LegacyFacts
<1>2. \A u \in Names :
         /\ Len(Rows(tables, u)) = Len(Rows(old, u))
         /\ \A i \in 1..Len(Rows(tables, u)) :
               Carried(old, u, Rows(old, u)[i], Rows(tables, u)[i])
  BY DEF Kept, KeptIn, Carrying
<1>3. \A u : /\ DOMAIN Rows(tables, u) = 1..Len(Rows(tables, u))
             /\ DOMAIN Rows(old, u) = 1..Len(Rows(old, u))
  BY <1>1, ProperRows
<1>4. t \in Names /\ "world_models" \in Names /\ "evidence" \in Names
      /\ "evidence" \notin OwnedTables
  BY DEF Names, OwnedTables
<1>5. IdsIn(tables, t) = IdsIn(old, t)
  <2>1. \A i \in 1..Len(Rows(tables, t)) : Rows(tables, t)[i].id = Rows(old, t)[i].id
    BY <1>2, <1>4 DEF Carried
  <2> QED BY <1>2, <1>3, <1>4, <2>1, SameFields DEF IdsIn
<1>6. SoleEvidenceSubject(tables) = SoleEvidenceSubject(old)
  <2>1. \A i \in 1..Len(Rows(tables, "evidence")) :
          Rows(tables, "evidence")[i].owner = Rows(old, "evidence")[i].owner
    BY <1>2, <1>4 DEF Carried
  <2> DEFINE now == {row.owner : row \in ToSet(Rows(tables, "evidence"))}
             was == {row.owner : row \in ToSet(Rows(old, "evidence"))}
  <2>2. now = was
    BY <1>2, <1>3, <1>4, <2>1, SameFields
  <2>3. /\ SoleEvidenceSubject(tables)
             = IF Cardinality(now) = 1 THEN CHOOSE s \in now : TRUE ELSE None
        /\ SoleEvidenceSubject(old)
             = IF Cardinality(was) = 1 THEN CHOOSE s \in was : TRUE ELSE None
    BY DEF SoleEvidenceSubject
  <2> HIDE DEF now, was
  <2> QED BY <2>2, <2>3
<1>7. \A i \in 1..Len(Rows(old, "world_models")) :
         /\ Rows(tables, "world_models")[i].data = Rows(old, "world_models")[i].data
         /\ Rows(tables, "world_models")[i].writer = Rows(old, "world_models")[i].writer
  BY <1>2, <1>4 DEF Carried
<1>8. \A id : Holders(tables, id, t) = Holders(old, id, t)
  BY <1>2, <1>3, <1>4, <1>7 DEF Holders
<1>9. ASSUME NEW id PROVE OwnerOf(tables, t, id) = OwnerOf(old, t, id)
  <2>1. CASE Holders(old, id, t) = {}
    BY <2>1, <1>6, <1>8 DEF OwnerOf
  <2>2. CASE Holders(old, id, t) # {}
    <3>1. Min(Holders(old, id, t)) \in 1..Len(Rows(old, "world_models"))
      BY <1>1, <2>2, FirstHolder
    <3> QED BY <2>2, <3>1, <1>7, <1>8 DEF OwnerOf
  <2> QED BY <2>1, <2>2
<1> QED BY <1>5, <1>9, RecoveredOwners

\* The owner found is a subject, or nobody; never a column that is not there.
LEMMA RecoveredSubject ==
    ASSUME NEW old \in Legacy, NEW t, NEW id
    PROVE  OwnerOf(old, t, id) \in Subjects \cup {Unknown} /\ OwnerOf(old, t, id) # None
<1>1. Proper(old)
  BY LegacyFacts
<1>2. \A u : \A i \in 1..Len(Rows(old, u)) : Rows(old, u)[i].writer \in Subjects
  BY LegacyFacts DEF LegacyRow
<1>3. \A i \in 1..Len(Rows(old, "evidence")) : Rows(old, "evidence")[i].owner \in Subjects
  <2>1. "evidence" \notin ToSet(Owned)
    BY TableSets DEF OwnedTables
  <2>2. \A i \in 1..Len(Rows(old, "evidence")) :
          LegacyRow("evidence", Rows(old, "evidence")[i])
    BY LegacyFacts
  <2> QED BY <2>1, <2>2 DEF LegacyRow
<1>4. SoleEvidenceSubject(old) \in Subjects \cup {None}
  <2> DEFINE subjects == {row.owner : row \in ToSet(Rows(old, "evidence"))}
  <2>1. subjects \subseteq Subjects
    BY <1>1, <1>3, ProperRows DEF ToSet
  <2>2. SoleEvidenceSubject(old)
          = IF Cardinality(subjects) = 1 THEN CHOOSE s \in subjects : TRUE ELSE None
    BY DEF SoleEvidenceSubject
  <2>3. Cardinality({}) # 1
    BY FS_EmptySet
  <2> HIDE DEF subjects
  <2>4. Cardinality(subjects) = 1 => subjects # {}
    BY <2>3
  <2>5. subjects # {} => (CHOOSE s \in subjects : TRUE) \in subjects
    OBVIOUS
  <2> QED BY <2>1, <2>2, <2>4, <2>5
<1>5. CASE Holders(old, id, t) = {}
  BY <1>4, <1>5, StoreAssumption DEF OwnerOf
<1>6. CASE Holders(old, id, t) # {}
  <2>1. Min(Holders(old, id, t)) \in 1..Len(Rows(old, "world_models"))
    BY <1>1, <1>6, FirstHolder
  <2> QED BY <1>2, <1>6, <2>1, StoreAssumption DEF OwnerOf
<1> QED BY <1>5, <1>6

\* What is found for the rows a database has.
LEMMA RecoveredRow ==
    ASSUME NEW old \in Legacy, NEW t, NEW i \in 1..Len(Rows(old, t))
    PROVE  /\ Recovered(old, t)[Rows(old, t)[i].id] = OwnerOf(old, t, Rows(old, t)[i].id)
           /\ Recovered(old, t)[Rows(old, t)[i].id] # None
<1>1. Rows(old, t)[i].id \in IdsIn(old, t)
  <2>1. DOMAIN Rows(old, t) = 1..Len(Rows(old, t))
    BY LegacyFacts, ProperRows
  <2> QED BY <2>1 DEF IdsIn, ToSet
<1> QED BY <1>1, RecoveredOwners, RecoveredSubject

----------------------------------------------------------------------------
\* What no statement undoes.
Lasting(old, tables, new) ==
    /\ Proper(new) /\ Columns(new)
    /\ "evidence" \in DOMAIN tables => "evidence" \in DOMAIN new
    /\ \A u \in Names : AllSpaced(Rows(tables, u)) => AllSpaced(Rows(new, u))
    /\ \A u \in OwnedTables :
          AllAssigned(old, u, Rows(tables, u)) => AllAssigned(old, u, Rows(new, u))

LEMMA DoneLasts ==
    ASSUME NEW old, NEW tables, NEW new, Lasting(old, tables, new),
           NEW k \in 1..43, Done(old, tables, k),
           k > 29 => DOMAIN tables \cap Names \subseteq DOMAIN new
    PROVE  Done(old, new, k)
<1>1. Shape(Script[k], k)
  BY ScriptShape
<1>2. Script[k].op \in {"fill", "assign", "drop", "create"} => Script[k].table \in Names
  BY <1>1 DEF Shape, OwnedTables, RekeyedTables, Names
<1>3. Script[k].op = "assign" => Script[k].table \in OwnedTables
  BY <1>1 DEF Shape
<1>4. Script[k].op \in {"fill", "assign", "drop"} => AllSpaced(Rows(new, Script[k].table))
  BY <1>2 DEF Done, Lasting
<1>5. Script[k].op = "assign" => AllAssigned(old, Script[k].table, Rows(new, Script[k].table))
  BY <1>3 DEF Done, Lasting
<1>6. k > 29 /\ Script[k].op = "create" => Script[k].table \in DOMAIN new
  BY <1>2 DEF Done
<1> QED BY <1>4, <1>5, <1>6 DEF Done

LEMMA RetiredName ==
    /\ \A t \in RekeyedTables : Retired(t) \in RetiredNames /\ Retired(t) \notin Names
    /\ \A t, u \in RekeyedTables : Retired(t) = Retired(u) => t = u
    /\ RekeyedTables \subseteq Names /\ OwnedTables \subseteq Names
    /\ "evidence" \in Names \ (OwnedTables \cup RekeyedTables)
    /\ OwnedTables \cap RekeyedTables = {}
<1>1. \A t \in RekeyedTables : Retired(t) \in RetiredNames /\ Retired(t) \notin Names
  BY RetiredTables DEF RekeyedTables, RetiredNames, Names
<1>2. \A t, u \in RekeyedTables : Retired(t) = Retired(u) => t = u
  BY RetiredTables DEF RekeyedTables
<1> QED BY <1>1, <1>2 DEF RekeyedTables, OwnedTables, Names

LEMMA CarriedSpaced ==
    ASSUME NEW old, NEW t, NEW a, NEW b, Carried(old, t, a, b), ProperRow(b)
    PROVE  Carried(old, t, a, Spaced(b)) /\ Spaced(b).space = Space
<1>1. PICK new : new = Spaced(b)
  OBVIOUS
<1>2. /\ new.id = b.id /\ new.writer = b.writer /\ new.owner = b.owner
      /\ new.blob = b.blob /\ new.data = b.data
      /\ new.space = IF b.space = None THEN Space ELSE b.space
  BY <1>1, SpacedRow
<1>3. new.space = Space
  BY <1>2 DEF Carried
<1>4. Carried(old, t, a, new)
  BY <1>2, <1>3 DEF Carried
<1> QED BY <1>1, <1>3, <1>4

LEMMA CarriedAssigned ==
    ASSUME NEW old, NEW t \in OwnedTables, NEW a, NEW b, Carried(old, t, a, b),
           ProperRow(b)
    PROVE  /\ Carried(old, t, a, Assigned(b, Recovered(old, t)))
           /\ Assigned(b, Recovered(old, t)).space = Space
           /\ Assigned(b, Recovered(old, t)).owner = Recovered(old, t)[a.id]
           /\ Assigned(b, Recovered(old, t)).blob = Recovered(old, t)[a.id]
           /\ Assigned(b, Recovered(old, t)).id = a.id
<1>1. PICK owners : owners = Recovered(old, t)
  OBVIOUS
<1>2. PICK new : new = Assigned(b, owners)
  OBVIOUS
<1>3. /\ new.id = b.id /\ new.writer = b.writer /\ new.data = b.data
      /\ new.owner = owners[b.id] /\ new.space = Space
      /\ new.blob = IF b.blob = None THEN owners[b.id] ELSE b.blob
  BY <1>2, AssignedRow
<1>4. /\ b.id = a.id /\ b.writer = a.writer /\ b.data = a.data
      /\ b.blob \in {None, owners[a.id]}
  BY <1>1 DEF Carried
<1>5. new.blob = owners[a.id] /\ new.owner = owners[a.id] /\ new.id = a.id
  BY <1>3, <1>4
<1>6. Carried(old, t, a, new)
  BY <1>1, <1>3, <1>4, <1>5 DEF Carried
<1> QED BY <1>1, <1>2, <1>3, <1>5, <1>6

LEMMA CarryingSpaced ==
    ASSUME NEW old, NEW t, NEW table, ProperTable(table), Carrying(old, t, table.rows),
           NEW new, new = MapRows(table, Spaced)
    PROVE  Carrying(old, t, new.rows) /\ AllSpaced(new.rows)
<1>1. /\ Len(new.rows) = Len(table.rows)
      /\ \A i \in 1..Len(table.rows) : new.rows[i] = Spaced(table.rows[i])
  BY SpacedTable
<1>2. \A i \in 1..Len(table.rows) :
         Carried(old, t, Rows(old, t)[i], table.rows[i]) /\ ProperRow(table.rows[i])
  BY DEF Carrying, ProperTable
<1>3. \A i \in 1..Len(table.rows) :
         Carried(old, t, Rows(old, t)[i], new.rows[i]) /\ new.rows[i].space = Space
  <2> SUFFICES ASSUME NEW i \in 1..Len(table.rows)
               PROVE  /\ Carried(old, t, Rows(old, t)[i], new.rows[i])
                      /\ new.rows[i].space = Space
    OBVIOUS
  <2>1. PICK a, b : a = Rows(old, t)[i] /\ b = table.rows[i]
    OBVIOUS
  <2>2. Carried(old, t, a, Spaced(b)) /\ Spaced(b).space = Space
    BY <1>2, <2>1, CarriedSpaced
  <2> QED BY <1>1, <2>1, <2>2
<1> QED BY <1>1, <1>3 DEF Carrying, AllSpaced

LEMMA CarryingAssigned ==
    ASSUME NEW old, NEW t \in OwnedTables, NEW table, ProperTable(table),
           Carrying(old, t, table.rows),
           NEW new, AssignsRows(new, table, Recovered(old, t))
    PROVE  /\ Carrying(old, t, new.rows) /\ AllSpaced(new.rows)
           /\ AllAssigned(old, t, new.rows)
<1> DEFINE owners == Recovered(old, t)
<1>1. /\ Len(new.rows) = Len(table.rows)
      /\ \A i \in 1..Len(table.rows) : new.rows[i] = Assigned(table.rows[i], owners)
  BY AssignedTable
<1>2. \A i \in 1..Len(table.rows) :
         Carried(old, t, Rows(old, t)[i], table.rows[i]) /\ ProperRow(table.rows[i])
  BY DEF Carrying, ProperTable
<1>3. \A i \in 1..Len(table.rows) :
         /\ Carried(old, t, Rows(old, t)[i], new.rows[i]) /\ new.rows[i].space = Space
         /\ new.rows[i].owner = owners[Rows(old, t)[i].id]
         /\ new.rows[i].blob = owners[Rows(old, t)[i].id]
         /\ new.rows[i].id = Rows(old, t)[i].id
  <2> SUFFICES ASSUME NEW i \in 1..Len(table.rows)
               PROVE  /\ Carried(old, t, Rows(old, t)[i], new.rows[i])
                      /\ new.rows[i].space = Space
                      /\ new.rows[i].owner = owners[Rows(old, t)[i].id]
                      /\ new.rows[i].blob = owners[Rows(old, t)[i].id]
                      /\ new.rows[i].id = Rows(old, t)[i].id
    OBVIOUS
  <2>1. PICK a, b : a = Rows(old, t)[i] /\ b = table.rows[i]
    OBVIOUS
  <2>2. PICK c : c = Assigned(b, owners)
    OBVIOUS
  <2>3. /\ Carried(old, t, a, c) /\ c.space = Space /\ c.owner = owners[a.id]
        /\ c.blob = owners[a.id] /\ c.id = a.id
    BY <1>2, <2>1, <2>2, CarriedAssigned
  <2>4. new.rows[i] = c
    BY <1>1, <2>1, <2>2
  <2> QED BY <2>1, <2>3, <2>4
<1>4. \A i \in 1..Len(table.rows) :
         new.rows[i].owner = new.rows[i].blob /\ new.rows[i].blob = owners[new.rows[i].id]
  BY <1>3
<1> QED BY <1>1, <1>3, <1>4 DEF Carrying, AllSpaced, AllAssigned

\* Statements on one table that is not rekeyed.
LEMMA AlteredInPlace ==
    ASSUME NEW old, NEW tables, Proper(tables), Columns(tables), Kept(old, tables),
           NEW t \in Names \ RekeyedTables, t \in DOMAIN tables,
           NEW table, ProperTable(table), Carrying(old, t, table.rows),
           AllSpaced(tables[t].rows) => AllSpaced(table.rows),
           t \in OwnedTables /\ AllAssigned(old, t, tables[t].rows)
             => AllAssigned(old, t, table.rows),
           NEW new, Overwrites(new, tables, t, table)
    PROVE  /\ Lasting(old, tables, new) /\ Kept(old, new) /\ DOMAIN new = DOMAIN tables
           /\ Rows(new, t) = table.rows
<1>1. /\ Proper(new) /\ DOMAIN new = DOMAIN tables
      /\ Rows(new, t) = table.rows
      /\ \A u \in DOMAIN tables : u # t => new[u] = tables[u]
      /\ \A u : u # t => Rows(new, u) = Rows(tables, u)
  BY Replaced
<1>2. Rows(tables, t) = tables[t].rows
  BY DEF Rows
<1>3. Columns(new)
  BY <1>1 DEF Columns
<1>4. Lasting(old, tables, new)
  BY <1>1, <1>2, <1>3 DEF Lasting
<1>5. ASSUME NEW u \in Names PROVE KeptIn(old, new, u)
  <2>1. KeptIn(old, tables, u)
    BY DEF Kept
  <2>2. Carrying(old, u, Rows(new, u))
    BY <2>1, <1>1 DEF KeptIn
  <2>3. u \in RekeyedTables => Rows(new, Retired(u)) = <<>>
    BY <2>1, <1>1, RetiredName DEF KeptIn
  <2> QED BY <2>2, <2>3 DEF KeptIn
<1> QED BY <1>1, <1>4, <1>5 DEF Kept

\* ALTER TABLE ... RENAME TO
Renames(new, tables, t) ==
    new = [u \in (DOMAIN tables \ {t}) \cup {Retired(t)} |->
             IF u = Retired(t) THEN tables[t] ELSE tables[u]]

LEMMA Renamed ==
    ASSUME NEW old, NEW tables, Proper(tables), Columns(tables), Kept(old, tables),
           NEW t \in RekeyedTables, t \in DOMAIN tables,
           NEW new, Renames(new, tables, t)
    PROVE  Lasting(old, tables, new) /\ Windowed(old, new, "create", t)
<1>1. /\ Retired(t) \in RetiredNames /\ Retired(t) \notin Names /\ t \in Names
      /\ Retired(t) # t
  BY RetiredName
<1>2. /\ DOMAIN new = (DOMAIN tables \ {t}) \cup {Retired(t)}
      /\ new = [u \in DOMAIN new |-> new[u]]
      /\ new[Retired(t)] = tables[t]
      /\ \A u \in DOMAIN tables \ {t, Retired(t)} : new[u] = tables[u]
  BY <1>1 DEF Renames
<1>3. Proper(new)
  <2>1. DOMAIN new \subseteq Names \cup RetiredNames
    BY <1>1, <1>2 DEF Proper
  <2>2. \A u \in DOMAIN new : ProperTable(new[u])
    BY <1>2 DEF Proper
  <2> QED BY <1>2, <2>1, <2>2 DEF Proper
<1>4. /\ \A u : u # t /\ u # Retired(t) => Rows(new, u) = Rows(tables, u)
      /\ Rows(new, t) = <<>> /\ Rows(new, Retired(t)) = Rows(tables, t)
  BY <1>1, <1>2 DEF Rows
<1>5. Columns(new)
  <2>1. \A u \in RekeyedTables \cap DOMAIN new :
          u \in DOMAIN tables \ {t, Retired(t)}
    BY <1>1, <1>2, RetiredName
  <2> QED BY <1>2, <2>1 DEF Columns
<1>6. Lasting(old, tables, new)
  <2>1. "evidence" # t /\ "evidence" # Retired(t)
    BY <1>1, RetiredName
  <2>2. \A u \in Names : AllSpaced(Rows(tables, u)) => AllSpaced(Rows(new, u))
    <3>1. AllSpaced(<<>>)
      BY DEF AllSpaced
    <3> QED BY <1>1, <1>4, <3>1
  <2>3. \A u \in OwnedTables : u # t /\ u # Retired(t)
    BY <1>1, RetiredName
  <2>4. \A u \in OwnedTables :
          AllAssigned(old, u, Rows(tables, u)) => AllAssigned(old, u, Rows(new, u))
    BY <1>4, <2>3
  <2> QED BY <1>2, <1>3, <1>5, <2>1, <2>2, <2>4 DEF Lasting
<1>7. ASSUME NEW u \in Names \ {t} PROVE KeptIn(old, new, u)
  <2>1. KeptIn(old, tables, u)
    BY DEF Kept
  <2>2. Rows(new, u) = Rows(tables, u)
    BY <1>1, <1>4
  <2>3. u \in RekeyedTables => Retired(u) # t /\ Retired(u) # Retired(t)
    BY <1>1, RetiredName
  <2>4. u \in RekeyedTables => Rows(new, Retired(u)) = <<>>
    BY <1>4, <2>1, <2>3 DEF KeptIn
  <2> QED BY <2>1, <2>2, <2>4 DEF KeptIn
<1>8. Carrying(old, t, Rows(new, Retired(t)))
  BY <1>1, <1>4 DEF Kept, KeptIn
<1> QED BY <1>1, <1>2, <1>6, <1>7, <1>8 DEF Windowed

\* CREATE TABLE changes no row.
LEMMA CreatedTable ==
    ASSUME NEW old, NEW tables, Proper(tables), Columns(tables),
           NEW t \in Names, NEW new, new = Created(tables, t)
    PROVE  /\ Lasting(old, tables, new)
           /\ DOMAIN new = DOMAIN tables \cup {t}
           /\ \A u : Rows(new, u) = Rows(tables, u)
           /\ \A u \in DOMAIN tables : new[u] = tables[u]
           /\ t \notin DOMAIN tables => new[t].rows = <<>>
           /\ Kept(old, tables) => Kept(old, new)
           /\ Windowed(old, tables, "create", t) => Windowed(old, new, "copy", t)
<1>1. /\ DOMAIN new = DOMAIN tables \cup {t}
      /\ new = [u \in DOMAIN new |-> new[u]]
      /\ \A u \in DOMAIN tables : new[u] = tables[u]
      /\ t \notin DOMAIN tables => new[t] = Empty(t)
  BY DEF Created, Put, Proper
<1>2. /\ Empty(t).rows = <<>> /\ ProperTable(Empty(t))
  <2>1. PICK c : Empty(t) = [cols |-> c, rows |-> <<>>]
    BY DEF Empty
  <2> QED BY <2>1 DEF ProperTable, Lists
<1>3. \A u : Rows(new, u) = Rows(tables, u)
  BY <1>1, <1>2 DEF Rows
<1>4. Proper(new)
  BY <1>1, <1>2 DEF Proper
<1>5. Columns(new)
  <2>1. AllSpaced(<<>>)
    BY DEF AllSpaced
  <2> QED BY <1>1, <1>2, <2>1 DEF Columns
<1>6. Lasting(old, tables, new)
  BY <1>1, <1>3, <1>4, <1>5 DEF Lasting
<1>7. Kept(old, tables) => Kept(old, new)
  BY <1>3 DEF Kept, KeptIn
<1>8. Windowed(old, tables, "create", t) => Windowed(old, new, "copy", t)
  <2> SUFFICES ASSUME Windowed(old, tables, "create", t)
               PROVE  Windowed(old, new, "copy", t)
    OBVIOUS
  <2>1. /\ \A u \in Names \ {t} : KeptIn(old, tables, u)
        /\ Retired(t) \in DOMAIN tables /\ Carrying(old, t, Rows(tables, Retired(t)))
        /\ t \notin DOMAIN tables
    BY DEF Windowed
  <2>2. \A u \in Names \ {t} : KeptIn(old, new, u)
    BY <1>3, <2>1 DEF KeptIn
  <2>3. Rows(new, t) = <<>>
    BY <1>3, <2>1 DEF Rows
  <2> QED BY <1>1, <1>3, <2>1, <2>2, <2>3 DEF Windowed
<1> QED BY <1>1, <1>2, <1>3, <1>6, <1>7, <1>8

\* INSERT INTO ... SELECT from the retired table.
LEMMA CopiedTable ==
    ASSUME NEW old, NEW tables, Proper(tables), Columns(tables),
           NEW t \in RekeyedTables, Windowed(old, tables, "copy", t),
           NEW copy, copy = MapRows(tables[Retired(t)], Spaced),
           NEW table, table = [cols |-> {"space", "subject"}, rows |-> copy.rows],
           NEW new, Overwrites(new, tables, t, table)
    PROVE  Lasting(old, tables, new) /\ Windowed(old, new, "drop", t)
<1>1. /\ Retired(t) \in RetiredNames /\ Retired(t) \notin Names /\ t \in Names
      /\ Retired(t) # t /\ t \notin OwnedTables
  BY RetiredName
<1>2. /\ \A u \in Names \ {t} : KeptIn(old, tables, u)
      /\ Retired(t) \in DOMAIN tables /\ Carrying(old, t, Rows(tables, Retired(t)))
      /\ t \in DOMAIN tables /\ Rows(tables, t) = <<>>
  BY DEF Windowed
<1>3. ProperTable(tables[Retired(t)]) /\ Carrying(old, t, tables[Retired(t)].rows)
  BY <1>2 DEF Proper, Rows
<1>4. ProperTable(copy) /\ Carrying(old, t, copy.rows) /\ AllSpaced(copy.rows)
  BY <1>3, SpacedTable, CarryingSpaced
<1>5. PICK t2 : t2 = table
  OBVIOUS
<1>6. t2.rows = copy.rows /\ ProperTable(t2)
  BY <1>4, <1>5 DEF ProperTable
<1>7. Overwrites(new, tables, t, t2)
  BY <1>5
<1>8. /\ Proper(new) /\ DOMAIN new = DOMAIN tables
      /\ Rows(new, t) = copy.rows /\ new[t].rows = copy.rows
      /\ \A u \in DOMAIN tables : u # t => new[u] = tables[u]
      /\ \A u : u # t => Rows(new, u) = Rows(tables, u)
  <2>1. /\ Proper(new) /\ DOMAIN new = DOMAIN tables
        /\ new[t] = t2 /\ Rows(new, t) = t2.rows
        /\ \A u \in DOMAIN tables : u # t => new[u] = tables[u]
        /\ \A u : u # t => Rows(new, u) = Rows(tables, u)
    BY <1>2, <1>6, <1>7, Replaced
  <2> QED BY <2>1, <1>6
<1>9. Columns(new)
  BY <1>4, <1>8 DEF Columns
<1>10. Lasting(old, tables, new)
  BY <1>1, <1>4, <1>8, <1>9 DEF Lasting
<1>11. ASSUME NEW u \in Names \ {t} PROVE KeptIn(old, new, u)
  <2>1. KeptIn(old, tables, u)
    BY <1>2
  <2>2. u \in RekeyedTables => Retired(u) # t
    BY <1>1, RetiredName
  <2> QED BY <1>8, <2>1, <2>2 DEF KeptIn
<1>12. Carrying(old, t, Rows(new, Retired(t))) /\ Retired(t) \in DOMAIN new
  BY <1>1, <1>2, <1>8
<1> QED BY <1>2, <1>4, <1>8, <1>10, <1>11, <1>12 DEF Windowed

\* DROP TABLE of the retired table.
Drops(new, tables, t) == new = [u \in DOMAIN tables \ {Retired(t)} |-> tables[u]]

LEMMA Dropped ==
    ASSUME NEW old, NEW tables, Proper(tables), Columns(tables),
           NEW t \in RekeyedTables, Windowed(old, tables, "drop", t),
           NEW new, Drops(new, tables, t)
    PROVE  Lasting(old, tables, new) /\ Kept(old, new) /\ AllSpaced(Rows(new, t))
<1>1. /\ Retired(t) \in RetiredNames /\ Retired(t) \notin Names /\ t \in Names
      /\ Retired(t) # t
  BY RetiredName
<1>2. /\ \A u \in Names \ {t} : KeptIn(old, tables, u)
      /\ Carrying(old, t, Rows(tables, t)) /\ AllSpaced(Rows(tables, t))
  BY DEF Windowed
<1>3. /\ DOMAIN new = DOMAIN tables \ {Retired(t)}
      /\ new = [u \in DOMAIN new |-> new[u]]
      /\ \A u \in DOMAIN new : new[u] = tables[u]
  BY DEF Drops
<1>4. Proper(new)
  BY <1>3 DEF Proper
<1>5. /\ \A u : u # Retired(t) => Rows(new, u) = Rows(tables, u)
      /\ Rows(new, Retired(t)) = <<>>
  BY <1>3 DEF Rows
<1>6. Columns(new)
  BY <1>3 DEF Columns
<1>7. \A u \in Names : Rows(new, u) = Rows(tables, u)
  BY <1>1, <1>5
<1>8. Lasting(old, tables, new)
  <2>1. "evidence" # Retired(t) /\ OwnedTables \subseteq Names
    BY <1>1, RetiredName
  <2> QED BY <1>3, <1>4, <1>6, <1>7, <2>1 DEF Lasting
<1>9. ASSUME NEW u \in Names PROVE KeptIn(old, new, u)
  <2>1. Carrying(old, u, Rows(new, u))
    BY <1>2, <1>7 DEF KeptIn
  <2>2. u \in RekeyedTables => Rows(new, Retired(u)) = <<>>
    <3>1. CASE u = t
      BY <3>1, <1>5
    <3>2. CASE u # t /\ u \in RekeyedTables
      BY <3>2, <1>2, <1>5, RetiredName DEF KeptIn
    <3> QED BY <3>1, <3>2
  <2> QED BY <2>1, <2>2 DEF KeptIn
<1> QED BY <1>1, <1>2, <1>7, <1>8, <1>9 DEF Kept

\* Without a row there is nothing to lose in between.
LEMMA BareWindow ==
    ASSUME NEW old, \A u : Rows(old, u) = <<>>,
           NEW tables, Proper(tables),
           NEW op \in {"create", "copy", "drop"}, NEW t \in RekeyedTables,
           Windowed(old, tables, op, t)
    PROVE  Kept(old, tables)
<1>1. \A rows : Len(rows) = 0 => Carrying(old, t, rows)
  BY DEF Carrying
<1>2. Len(Rows(tables, t)) = 0
  <2>1. CASE op = "create"
    BY <2>1 DEF Windowed, Rows
  <2>2. CASE op = "copy"
    BY <2>2 DEF Windowed
  <2>3. CASE op = "drop"
    BY <2>3 DEF Windowed, Carrying
  <2> QED BY <2>1, <2>2, <2>3
<1>3. Rows(tables, Retired(t)) = <<>>
  <2>1. Len(Rows(tables, Retired(t))) = 0
    BY DEF Windowed, Carrying
  <2> QED BY <2>1, ProperRows DEF Lists
<1>4. KeptIn(old, tables, t)
  BY <1>1, <1>2, <1>3 DEF KeptIn
<1> QED BY <1>4 DEF Kept, Windowed

----------------------------------------------------------------------------
\* One statement of the migration.
LEMMA AfterStatement ==
    ASSUME NEW k \in 1..43, Script[k].op \notin {"rename", "create", "copy"} \/ k > 28
    PROVE  ~InWindow(k + 1)
<1>1. CASE k > 28
  BY <1>1 DEF InWindow
<1>2. CASE k \in 1..28 /\ Script[k].op \notin {"rename", "create", "copy"}
  BY <1>2, ScriptFlow DEF Follows
<1> QED BY <1>1, <1>2

LEMMA NotDone ==
    ASSUME NEW old, NEW tables, NEW k,
           Script[k].op \notin {"fill", "assign", "drop", "create"} \/
             (Script[k].op = "create" /\ k =< 29 /\ k \in Nat)
    PROVE  Done(old, tables, k)
  BY DEF Done

\* Where the migration stands after a statement that was carried out.
Reached(old, tables, new, k) ==
    /\ Lasting(old, tables, new) /\ Done(old, new, k)
    /\ InWindow(k + 1) => Windowed(old, new, Script[k + 1].op, Script[k + 1].table)
    /\ ~InWindow(k + 1) => Kept(old, new)
    /\ k > 29 => DOMAIN tables \subseteq DOMAIN new

\* ALTER TABLE ... ADD COLUMN
AddsColumn(new, tables, t, c) == new = [tables EXCEPT ![t].cols = @ \cup {c}]

LEMMA ColumnAdded ==
    ASSUME NEW old, NEW tables, Proper(tables), Columns(tables), Kept(old, tables),
           NEW t \in Names \ RekeyedTables, t \in DOMAIN tables, NEW c,
           NEW new, AddsColumn(new, tables, t, c)
    PROVE  Lasting(old, tables, new) /\ Kept(old, new)
<1>1. PICK table : table = [cols |-> tables[t].cols \cup {c}, rows |-> tables[t].rows]
  OBVIOUS
<1>2. ProperTable(tables[t])
  BY DEF Proper
<1>3. ProperTable(table) /\ table.rows = tables[t].rows
  BY <1>1, <1>2 DEF ProperTable
<1>4. Overwrites(new, tables, t, table)
  <2>1. tables[t] = [cols |-> tables[t].cols, rows |-> tables[t].rows]
    BY <1>2 DEF ProperTable
  <2>2. [tables[t] EXCEPT !.cols = @ \cup {c}] = table
    BY <1>1, <2>1
  <2> QED BY <2>2 DEF Overwrites, AddsColumn
<1>5. Carrying(old, t, table.rows)
  BY <1>3 DEF Kept, KeptIn, Rows
<1> QED BY <1>3, <1>4, <1>5, AlteredInPlace

LEMMA TableFilled ==
    ASSUME NEW old, NEW tables, Proper(tables), Columns(tables), Kept(old, tables),
           NEW t \in Names \ RekeyedTables, t \in DOMAIN tables, t \notin OwnedTables,
           NEW new, new = [tables EXCEPT ![t] = MapRows(tables[t], Spaced)]
    PROVE  Lasting(old, tables, new) /\ Kept(old, new) /\ AllSpaced(Rows(new, t))
<1>1. PICK table : table = MapRows(tables[t], Spaced)
  OBVIOUS
<1>2. ProperTable(tables[t]) /\ Carrying(old, t, tables[t].rows)
  BY DEF Proper, Kept, KeptIn, Rows
<1>3. ProperTable(table) /\ Carrying(old, t, table.rows) /\ AllSpaced(table.rows)
  BY <1>1, <1>2, SpacedTable, CarryingSpaced
<1>4. Overwrites(new, tables, t, table)
  BY <1>1 DEF Overwrites
<1> QED BY <1>3, <1>4, AlteredInPlace

LEMMA TableAssigned ==
    ASSUME NEW old, NEW tables, Proper(tables), Columns(tables), Kept(old, tables),
           NEW t \in OwnedTables, t \in DOMAIN tables,
           NEW table, AssignsRows(table, tables[t], Recovered(old, t)),
           NEW new, Overwrites(new, tables, t, table)
    PROVE  /\ Lasting(old, tables, new) /\ Kept(old, new) /\ AllSpaced(Rows(new, t))
           /\ AllAssigned(old, t, Rows(new, t))
<1>1. t \in Names \ RekeyedTables
  BY RetiredName
<1>2. ProperTable(tables[t]) /\ Carrying(old, t, tables[t].rows)
  BY <1>1 DEF Proper, Kept, KeptIn, Rows
<1>3. /\ Carrying(old, t, table.rows) /\ AllSpaced(table.rows)
      /\ AllAssigned(old, t, table.rows)
  BY <1>2, CarryingAssigned
<1>4. ProperTable(table)
  BY <1>2, AssignedTable
<1>5. /\ Lasting(old, tables, new) /\ Kept(old, new) /\ Rows(new, t) = table.rows
  BY <1>1, <1>3, <1>4, AlteredInPlace
<1> QED BY <1>3, <1>5

\* What each statement does to the tables.
LEMMA Effects ==
    ASSUME NEW st, NEW new, new = Effect(st)
    PROVE  /\ st.op = "add_space" => AddsColumn(new, live, st.table, "space")
           /\ st.op = "add_subject" => AddsColumn(new, live, st.table, "subject")
           /\ st.op = "rename" => Renames(new, live, st.table)
           /\ st.op = "create" => new = Created(live, st.table)
           /\ st.op = "drop" => Drops(new, live, st.table)
           /\ st.op \in {"patch", "flush", "stamp"} => new = live
<1>1. st.op = "add_space" => AddsColumn(new, live, st.table, "space")
  BY DEF Effect, MapRows, AddsColumn
<1>2. st.op = "add_subject" => AddsColumn(new, live, st.table, "subject")
  BY DEF Effect, MapRows, AddsColumn
<1>3. st.op = "rename" => Renames(new, live, st.table)
  BY DEF Effect, MapRows, Renames
<1>4. st.op = "create" => new = Created(live, st.table)
  BY DEF Effect, MapRows
<1>5. st.op = "drop" => Drops(new, live, st.table)
  BY DEF Effect, MapRows, Drops
<1>6. st.op \in {"patch", "flush", "stamp"} => new = live
  BY DEF Effect, MapRows
<1> QED BY <1>1, <1>2, <1>3, <1>4, <1>5, <1>6

LEMMA RowEffects ==
    ASSUME NEW st, NEW new, new = Effect(st)
    PROVE  /\ st.op = "fill"
                => new = [live EXCEPT ![st.table] = MapRows(live[st.table], Spaced)]
           /\ st.op = "assign"
                => \E table : /\ AssignsRows(table, live[st.table], read[st.table])
                              /\ Overwrites(new, live, st.table, table)
<1>1. st.op = "fill"
        => new = [live EXCEPT ![st.table] = MapRows(live[st.table], Spaced)]
  BY DEF Effect, MapRows
<1>2. ASSUME st.op = "assign"
      PROVE  \E table : /\ AssignsRows(table, live[st.table], read[st.table])
                        /\ Overwrites(new, live, st.table, table)
  <2>1. PICK table : table = [live[st.table] EXCEPT !.rows =
               [i \in DOMAIN live[st.table].rows |->
                  Assigned(live[st.table].rows[i], read[st.table])]]
    OBVIOUS
  <2>2. new = [live EXCEPT ![st.table] = table]
    BY <1>2, <2>1 DEF Effect, MapRows
  <2> QED BY <2>1, <2>2 DEF AssignsRows, Overwrites
<1> QED BY <1>1, <1>2

LEMMA CopyEffect ==
    ASSUME NEW st, st.op = "copy", Proper(live),
           st.table \in DOMAIN live, Retired(st.table) \in DOMAIN live,
           Retired(st.table) # st.table, NEW new, new = Effect(st),
           NEW copy, copy = MapRows(live[Retired(st.table)], Spaced),
           NEW table, table = [cols |-> {"space", "subject"}, rows |-> copy.rows]
    PROVE  Overwrites(new, live, st.table, table)
<1>1. new = [live EXCEPT ![st.table] = copy, ![st.table].cols = {"space", "subject"}]
  BY DEF Effect, MapRows
<1>2. ProperTable(copy)
  BY SpacedTable DEF Proper
<1>3. copy = [cols |-> copy.cols, rows |-> copy.rows]
  BY <1>2 DEF ProperTable
<1>4. [copy EXCEPT !.cols = {"space", "subject"}] = table
  BY <1>3
<1>5. new = [live EXCEPT ![st.table] = [copy EXCEPT !.cols = {"space", "subject"}]]
  BY <1>1 DEF Proper
<1> QED BY <1>4, <1>5 DEF Overwrites

LEMMA InPlaceReached ==
    ASSUME NEW old, NEW tables, NEW new, NEW k \in 1..43,
           Script[k].op \notin {"rename", "create", "copy"},
           Lasting(old, tables, new), Kept(old, new), Done(old, new, k),
           DOMAIN tables \subseteq DOMAIN new \/ k =< 29
    PROVE  Reached(old, tables, new, k)
  BY AfterStatement DEF Reached

\* A statement that is carried out takes the migration one step further.
LEMMA Executed ==
    ASSUME StoreShape, OpeningOld, NEW st, st = Script[cursor], ~Skips(st),
           NEW new, new = Effect(st)
    PROVE  Reached(legacy, live, new, cursor)
<1> DEFINE t == st.table
<1>1. /\ cursor \in 1..43 /\ legacy \in Legacy /\ Proper(live) /\ Columns(live)
      /\ read = [u \in OwnedTables |-> Recovered(legacy, u)]
      /\ InWindow(cursor) => Windowed(legacy, live, st.op, t)
      /\ ~InWindow(cursor) => Kept(legacy, live)
  BY DEF OpeningOld, StoreShape
<1>2. Shape(st, cursor)
  BY <1>1, ScriptShape
<1>3. st.op \notin {"create", "copy", "drop"} => Kept(legacy, live)
  BY <1>1 DEF InWindow
<1>4. st.op \notin {"create", "stamp"} => cursor =< 29
  BY <1>1, <1>2 DEF Shape
<1>5. st.op \notin {"fill", "assign", "drop", "create"} => Done(legacy, new, cursor)
  BY NotDone
<1>6. CASE st.op \in {"add_space", "add_subject"}
  <2>1. t \in Names \ RekeyedTables
    BY <1>2, <1>6, RetiredName DEF Shape
  <2>2. t \in DOMAIN live
    BY <1>6 DEF Skips
  <2>3. PICK c : AddsColumn(new, live, t, c)
    BY <1>6, Effects
  <2>4. Lasting(legacy, live, new) /\ Kept(legacy, new)
    BY <1>1, <1>3, <1>6, <2>1, <2>2, <2>3, ColumnAdded
  <2>5. Done(legacy, new, cursor) /\ cursor =< 29
    BY <1>4, <1>5, <1>6
  <2>6. Script[cursor].op \notin {"rename", "create", "copy"}
    BY <1>6
  <2> QED BY <1>1, <2>4, <2>5, <2>6, InPlaceReached
<1>7. CASE st.op = "fill"
  <2>1. t \in Names \ RekeyedTables /\ t \notin OwnedTables
    BY <1>2, <1>7 DEF Shape
  <2>2. t \in DOMAIN live
    BY <1>7 DEF Skips
  <2>3. new = [live EXCEPT ![t] = MapRows(live[t], Spaced)]
    BY <1>7, RowEffects
  <2>4. Lasting(legacy, live, new) /\ Kept(legacy, new) /\ AllSpaced(Rows(new, t))
    BY <1>1, <1>3, <1>7, <2>1, <2>2, <2>3, TableFilled
  <2>5. Done(legacy, new, cursor) /\ cursor =< 29
    BY <1>4, <1>7, <2>4 DEF Done
  <2>6. Script[cursor].op \notin {"rename", "create", "copy"}
    BY <1>7
  <2> QED BY <1>1, <2>4, <2>5, <2>6, InPlaceReached
<1>8. CASE st.op = "assign"
  <2>1. t \in OwnedTables
    BY <1>2, <1>8 DEF Shape
  <2>2. t \in DOMAIN live
    BY <1>8 DEF Skips
  <2>3. PICK table : /\ AssignsRows(table, live[t], read[t])
                     /\ Overwrites(new, live, t, table)
    BY <1>8, RowEffects
  <2>4. read[t] = Recovered(legacy, t)
    BY <1>1, <2>1
  <2>5. AssignsRows(table, live[t], Recovered(legacy, t))
    BY <2>3, <2>4
  <2>6. /\ Lasting(legacy, live, new) /\ Kept(legacy, new) /\ AllSpaced(Rows(new, t))
        /\ AllAssigned(legacy, t, Rows(new, t))
    BY <1>1, <1>3, <1>8, <2>1, <2>2, <2>3, <2>5, TableAssigned
  <2>7. Done(legacy, new, cursor) /\ cursor =< 29
    BY <1>4, <1>8, <2>6 DEF Done
  <2>8. Script[cursor].op \notin {"rename", "create", "copy"}
    BY <1>8
  <2> QED BY <1>1, <2>6, <2>7, <2>8, InPlaceReached
<1>9. CASE st.op = "rename"
  <2>1. t \in RekeyedTables /\ cursor \in 1..28
    BY <1>1, <1>2, <1>9 DEF Shape
  <2>2. t \in DOMAIN live
    BY <1>9 DEF Skips
  <2>3. Lasting(legacy, live, new) /\ Windowed(legacy, new, "create", t)
    BY <1>1, <1>3, <1>9, <2>1, <2>2, Effects, Renamed
  <2>4. cursor =< 25 /\ Script[cursor + 1] = Statement("create", t)
    BY <1>9, <2>1, ScriptFlow DEF Follows
  <2>5. InWindow(cursor + 1)
    BY <2>1, <2>4 DEF InWindow, Statement
  <2>6. Script[cursor + 1].op = "create" /\ Script[cursor + 1].table = t
    BY <2>4 DEF Statement
  <2>7. Done(legacy, new, cursor)
    BY <1>5, <1>9
  <2> QED BY <2>1, <2>3, <2>5, <2>6, <2>7 DEF Reached
<1>10. CASE st.op = "create" /\ cursor =< 28
  <2>1. cursor \in 1..28 /\ InWindow(cursor)
    BY <1>1, <1>10 DEF InWindow
  <2>2. /\ t \in RekeyedTables /\ cursor =< 26
        /\ Script[cursor + 1] = Statement("copy", t)
    BY <1>10, <2>1, ScriptFlow DEF Follows
  <2>3. t \in Names /\ new = Created(live, t)
    BY <1>10, <2>2, RetiredName, Effects
  <2>4. Windowed(legacy, live, "create", t)
    BY <1>1, <1>10, <2>1
  <2>5. Lasting(legacy, live, new) /\ Windowed(legacy, new, "copy", t)
    BY <1>1, <2>3, <2>4, CreatedTable
  <2>6. InWindow(cursor + 1)
    BY <2>1, <2>2 DEF InWindow, Statement
  <2>7. Script[cursor + 1].op = "copy" /\ Script[cursor + 1].table = t
    BY <2>2 DEF Statement
  <2>8. Done(legacy, new, cursor)
    BY <1>10, <2>1, NotDone
  <2> QED BY <2>1, <2>5, <2>6, <2>7, <2>8 DEF Reached
<1>11. CASE st.op = "create" /\ cursor > 28
  <2>1. ~InWindow(cursor) /\ ~InWindow(cursor + 1)
    BY <1>1, <1>11 DEF InWindow
  <2>2. t \in Names /\ new = Created(live, t)
    BY <1>2, <1>11, Effects DEF Shape
  <2>3. /\ Lasting(legacy, live, new) /\ Kept(legacy, new)
        /\ DOMAIN new = DOMAIN live \cup {t}
    BY <1>1, <2>1, <2>2, CreatedTable
  <2>4. Done(legacy, new, cursor)
    BY <1>11, <2>3 DEF Done
  <2> QED BY <2>1, <2>3, <2>4 DEF Reached
<1>12. CASE st.op = "copy"
  <2>1. t \in RekeyedTables /\ cursor \in 1..28
    BY <1>1, <1>2, <1>12 DEF Shape
  <2>2. Windowed(legacy, live, "copy", t)
    BY <1>1, <1>12, <2>1 DEF InWindow
  <2>3. t \in DOMAIN live /\ Retired(t) \in DOMAIN live
    BY <2>2 DEF Windowed
  <2>4. Retired(t) # t
    BY <2>1, RetiredName
  <2>5. PICK copy : copy = MapRows(live[Retired(t)], Spaced)
    OBVIOUS
  <2>6. PICK table : table = [cols |-> {"space", "subject"}, rows |-> copy.rows]
    OBVIOUS
  <2>7. Overwrites(new, live, t, table)
    BY <1>1, <1>12, <2>3, <2>4, <2>5, <2>6, CopyEffect
  <2>8. Lasting(legacy, live, new) /\ Windowed(legacy, new, "drop", t)
    BY <1>1, <2>1, <2>2, <2>5, <2>6, <2>7, CopiedTable
  <2>9. cursor =< 27 /\ Script[cursor + 1] = Statement("drop", t)
    BY <1>12, <2>1, ScriptFlow DEF Follows
  <2>10. InWindow(cursor + 1)
    BY <2>1, <2>9 DEF InWindow, Statement
  <2>11. Script[cursor + 1].op = "drop" /\ Script[cursor + 1].table = t
    BY <2>9 DEF Statement
  <2>12. Done(legacy, new, cursor)
    BY <1>5, <1>12
  <2> QED BY <2>1, <2>8, <2>10, <2>11, <2>12 DEF Reached
<1>13. CASE st.op = "drop"
  <2>1. t \in RekeyedTables /\ cursor \in 1..28
    BY <1>1, <1>2, <1>13 DEF Shape
  <2>2. Windowed(legacy, live, "drop", t)
    BY <1>1, <1>13, <2>1 DEF InWindow
  <2>3. Lasting(legacy, live, new) /\ Kept(legacy, new) /\ AllSpaced(Rows(new, t))
    BY <1>1, <1>13, <2>1, <2>2, Effects, Dropped
  <2>4. Done(legacy, new, cursor) /\ cursor =< 29
    BY <1>13, <2>1, <2>3 DEF Done
  <2>5. Script[cursor].op \notin {"rename", "create", "copy"}
    BY <1>13
  <2> QED BY <1>1, <2>3, <2>4, <2>5, InPlaceReached
<1>14. CASE st.op \in {"patch", "flush", "stamp"}
  <2>1. new = live /\ Kept(legacy, new)
    BY <1>3, <1>14, Effects
  <2>2. Lasting(legacy, live, new)
    BY <1>1, <2>1 DEF Lasting
  <2>3. Done(legacy, new, cursor)
    BY <1>5, <1>14
  <2>4. Script[cursor].op \notin {"rename", "create", "copy"}
    BY <1>14
  <2> QED BY <1>1, <2>1, <2>2, <2>3, <2>4, InPlaceReached
<1>15. st.op \in {"add_space", "fill", "add_subject", "assign", "patch",
                  "rename", "create", "copy", "drop", "flush", "stamp"}
  BY <1>2 DEF Shape
<1> QED BY <1>1, <1>6, <1>7, <1>8, <1>9, <1>10, <1>11, <1>12, <1>13, <1>14, <1>15

\* A statement that is left out has nothing to do.
LEMMA Skipped ==
    ASSUME StoreShape, OpeningOld, NEW st, st = Script[cursor], Skips(st),
           NEW after, after = cursor + SkipLength(st)
    PROVE  /\ Kept(legacy, live) /\ ~InWindow(after)
           /\ after \in 2..29 /\ cursor < after
           /\ \A k \in cursor..(after - 1) : Done(legacy, live, k)
           /\ after \in 3..29 /\ "evidence" \in DOMAIN legacy => cursor \in 3..29
<1> DEFINE t == st.table
<1>1. /\ cursor \in 1..43 /\ Columns(live)
      /\ ~InWindow(cursor) => Kept(legacy, live)
      /\ "evidence" \in DOMAIN legacy => "evidence" \in DOMAIN live
  BY DEF OpeningOld, StoreShape
<1>2. Shape(st, cursor)
  BY <1>1, ScriptShape
<1>3. st.op \in {"add_space", "add_subject", "fill", "assign", "patch", "rename"}
  BY <1>2 DEF Skips, Shape
<1>4. ~InWindow(cursor)
  BY <1>3 DEF InWindow
<1>5. cursor \in 1..28
  BY <1>1, <1>2, <1>3 DEF Shape
<1>6. t \notin DOMAIN live => AllSpaced(Rows(live, t)) /\ AllAssigned(legacy, t, Rows(live, t))
  BY DEF Rows, AllSpaced, AllAssigned
<1>7. CASE st.op = "rename"
  <2>1. after = cursor + 4 /\ t \in RekeyedTables
    BY <1>2, <1>7 DEF SkipLength, Shape
  <2>2. /\ cursor =< 25 /\ Script[cursor + 1] = Statement("create", t)
        /\ Script[cursor + 2] = Statement("copy", t)
        /\ Script[cursor + 3] = Statement("drop", t) /\ ~InWindow(cursor + 4)
    BY <1>5, <1>7, ScriptFlow DEF Follows
  <2>3. AllSpaced(Rows(live, t))
    BY <1>1, <1>6, <1>7, <2>1 DEF Skips, Columns, Rows
  <2>4. Done(legacy, live, cursor)
    BY <1>7, NotDone
  <2>5. Done(legacy, live, cursor + 1)
    BY <1>5, <2>2 DEF Statement, Done
  <2>6. Done(legacy, live, cursor + 2)
    BY <2>2 DEF Statement, Done
  <2>7. Done(legacy, live, cursor + 3)
    BY <2>2, <2>3 DEF Statement, Done
  <2>8. \A k \in cursor..(after - 1) :
           k = cursor \/ k = cursor + 1 \/ k = cursor + 2 \/ k = cursor + 3
    BY <1>5, <2>1
  <2>9. \A k \in cursor..(after - 1) : Done(legacy, live, k)
    BY <2>4, <2>5, <2>6, <2>7, <2>8
  <2>10. cursor \in 3..29
    <3>1. Script[1].op # "rename" /\ Script[2].op # "rename"
      BY ScriptStatements DEF St, Statement
    <3> QED BY <3>1, <1>5, <1>7
  <2> QED BY <1>1, <1>4, <1>5, <2>1, <2>2, <2>9, <2>10
<1>8. CASE st.op # "rename"
  <2>1. after = cursor + 1
    BY <1>8 DEF SkipLength
  <2>2. ~InWindow(after)
    BY <1>1, <1>3, <1>8, <2>1, AfterStatement
  <2>3. Done(legacy, live, cursor)
    BY <1>3, <1>6, <1>8 DEF Skips, Done
  <2>4. \A k \in cursor..(after - 1) : k = cursor
    BY <1>5, <2>1
  <2>5. cursor = 2 => "evidence" \notin DOMAIN live
    BY ScriptStatements DEF Skips, St, Statement
  <2> QED BY <1>1, <1>4, <1>5, <2>1, <2>2, <2>3, <2>4, <2>5
<1> QED BY <1>7, <1>8

\* Once every statement is done the tables are sound.
LEMMA MigratedSound ==
    ASSUME NEW old \in Legacy, NEW tables, Proper(tables), Kept(old, tables),
           \A k \in 1..42 : Done(old, tables, k)
    PROVE  Sound(old, FALSE, tables)
<1>1. Names \subseteq DOMAIN tables
  BY ScriptComplete DEF Done
<1>2. \A t \in OwnedTables :
         AllSpaced(Rows(tables, t)) /\ AllAssigned(old, t, Rows(tables, t))
  <2> TAKE t \in OwnedTables
  <2>1. PICK k \in 1..42 : Script[k].op = "assign" /\ Script[k].table = t
    BY ScriptComplete
  <2>2. Done(old, tables, k)
    BY <2>1
  <2> QED BY <2>1, <2>2 DEF Done
<1>3. \A t \in Scoped : AllSpaced(Rows(tables, t))
  <2> SUFFICES ASSUME NEW t \in Scoped \ OwnedTables PROVE AllSpaced(Rows(tables, t))
    BY <1>2
  <2>1. PICK k \in 1..42 : Script[k].op \in {"fill", "drop"} /\ Script[k].table = t
    BY ScriptComplete
  <2>2. Done(old, tables, k)
    BY <2>1
  <2> QED BY <2>1, <2>2 DEF Done
<1>4. \A t \in Names : /\ Len(Rows(tables, t)) = Len(Rows(old, t))
                       /\ \A i \in 1..Len(Rows(tables, t)) :
                             Carried(old, t, Rows(old, t)[i], Rows(tables, t)[i])
  BY DEF Kept, KeptIn, Carrying
<1>5. \A t : \A i \in 1..Len(Rows(old, t)) : LegacyRow(t, Rows(old, t)[i])
  BY LegacyFacts
<1>6. ASSUME NEW t \in Names, NEW i \in 1..Len(Rows(tables, t))
      PROVE  SoundRow(old, t, Rows(tables, t)[i])
  <2>1. PICK a, b : a = Rows(old, t)[i] /\ b = Rows(tables, t)[i]
    OBVIOUS
  <2>2. i \in 1..Len(Rows(old, t)) /\ Carried(old, t, a, b) /\ LegacyRow(t, a)
    BY <1>4, <1>5, <2>1
  <2>3. t \in Scoped => b.space = Space
    BY <1>3, <2>1 DEF AllSpaced
  <2>4. t = "current_pointer" => b.id = b.writer
    BY <2>2 DEF Carried, LegacyRow
  <2>5. CASE t \in OwnedTables
    <3>1. b.owner = b.blob /\ b.blob = Recovered(old, t)[b.id]
      BY <1>2, <2>1, <2>5 DEF AllAssigned
    <3>2. b.id = a.id /\ b.writer = a.writer
      BY <2>2 DEF Carried
    <3>3. Recovered(old, t)[a.id] # None
      BY <2>1, <2>2, RecoveredRow
    <3>4. Decodes(b)
      BY <3>1, <3>2, <3>3 DEF Decodes
    <3>5. Rightful(old, t, b)
      BY <2>1, <2>2, <3>1, <3>2 DEF Rightful
    <3>6. SoundRow(old, t, b)
      BY <2>3, <2>4, <3>1, <3>4, <3>5 DEF SoundRow
    <3> QED BY <2>1, <3>6
  <2>6. CASE t \notin OwnedTables
    <3>1. a.blob # None
      BY <2>2, <2>6, TableSets DEF LegacyRow
    <3>2. Decodes(b)
      BY <2>2, <2>6, <3>1 DEF Carried, Decodes
    <3>3. SoundRow(old, t, b)
      BY <2>3, <2>4, <2>6, <3>2 DEF SoundRow
    <3> QED BY <2>1, <3>3
  <2> QED BY <2>5, <2>6
<1>7. ASSUME NEW t \in DOMAIN tables, NEW i \in 1..Len(tables[t].rows)
      PROVE  SoundRow(old, t, tables[t].rows[i])
  <2>1. Rows(tables, t) = tables[t].rows
    BY DEF Rows
  <2>2. CASE t \in Names
    BY <1>6, <2>1, <2>2
  <2>3. CASE t \notin Names
    <3>1. t \in RetiredNames
      BY <2>3 DEF Proper
    <3>2. \E u \in RekeyedTables : t = Retired(u)
      BY <3>1, RetiredTables DEF RetiredNames, RekeyedTables
    <3>3. Rows(tables, t) = <<>>
      BY <3>2, RetiredName DEF Kept, KeptIn
    <3>4. Len(tables[t].rows) = 0
      BY <2>1, <3>3
    <3>5. FALSE
      BY <3>4
    <3> QED BY <3>5
  <2> QED BY <2>2, <2>3
<1>8. ASSUME NEW t \in DOMAIN old PROVE Prefixed(old, tables, t)
  <2>1. t \in Names
    BY LegacyFacts
  <2>2. Len(Rows(tables, t)) = Len(Rows(old, t)) /\ Len(Rows(old, t)) \in Nat
    BY <1>4, <2>1, LegacyFacts, ProperRows
  <2>3. \A i \in 1..Len(Rows(old, t)) :
           Key(Rows(tables, t)[i]) = Key(Rows(old, t)[i])
    BY <1>4, <2>1, <2>2 DEF Carried, Key
  <2> QED BY <2>2, <2>3 DEF Prefixed
<1> QED BY <1>1, <1>7, <1>8 DEF Sound

----------------------------------------------------------------------------
\* Every step preserves the invariant.
LEMMA Executes ==
    ASSUME NEW st, Execute(st)
    PROVE  /\ live' = Effect(st) /\ pending' \in BOOLEAN
           /\ pending' => disk' = disk /\ st.op # "flush"
           /\ ~pending' => disk' = [tables |-> live', version |->
                                      IF st.op = "stamp" THEN 1 ELSE disk.version]
           /\ st.op # "flush" /\ (pending \/ Changes(st)) => pending'
           /\ ~pending /\ ~Changes(st) => ~pending'
<1> DEFINE open == st.op # "flush" /\ (pending \/ Changes(st))
<1>1. live' = Effect(st) /\ pending' = open
  BY DEF Execute
<1>2. disk' = IF open THEN disk
              ELSE [tables |-> live',
                    version |-> IF st.op = "stamp" THEN 1 ELSE disk.version]
  BY DEF Execute
<1>3. open \in BOOLEAN
  OBVIOUS
<1>4. pending' \in BOOLEAN /\ (pending' <=> open)
  BY <1>1, <1>3, Zenon
<1>5. open => disk' = disk /\ st.op # "flush"
  BY <1>2
<1>6. ~open => disk' = [tables |-> live', version |->
                          IF st.op = "stamp" THEN 1 ELSE disk.version]
  BY <1>2
<1> QED BY <1>1, <1>4, <1>5, <1>6

\* Where a statement leaves the connection in the midst of the migration.
LEMMA ExecutedOld ==
    ASSUME StoreShape, OldStore, OpeningOld, NEW st, st = Script[cursor], ~Skips(st),
           cursor < 43, Execute(st), cursor' = cursor + 1,
           UNCHANGED <<phase, read, todo, legacy, spent>>
    PROVE  OpeningOld'
<1>1. /\ cursor \in 1..43 /\ cursor' \in 2..43 /\ cursor' = cursor + 1
      /\ read' = [t \in OwnedTables |-> Recovered(legacy', t)]
      /\ legacy' = legacy
  BY DEF OpeningOld
<1>2. PICK new : new = live'
  OBVIOUS
<1>3. Reached(legacy, live, new, cursor)
  BY <1>2, Executed, Executes
<1>4. Lasting(legacy, live, new)
  BY <1>3 DEF Reached
<1>5. /\ Columns(new)
      /\ "evidence" \in DOMAIN legacy => "evidence" \in DOMAIN new
  BY <1>4 DEF Lasting, OpeningOld
<1>6. /\ InWindow(cursor + 1)
           => Windowed(legacy, new, Script[cursor + 1].op, Script[cursor + 1].table)
      /\ ~InWindow(cursor + 1) => Kept(legacy, new)
  BY <1>3 DEF Reached
<1>7. ASSUME NEW k \in 1..cursor PROVE Done(legacy, new, k)
  <2>1. CASE k = cursor
    BY <1>3, <2>1 DEF Reached
  <2>2. CASE k # cursor
    <3>1. k \in 1..43 /\ Done(legacy, live, k)
      BY <1>1, <2>2 DEF OpeningOld
    <3>2. k > 29 => DOMAIN live \cap Names \subseteq DOMAIN new
      BY <1>1, <1>3 DEF Reached
    <3> QED BY <1>4, <3>1, <3>2, DoneLasts
  <2> QED BY <2>1, <2>2
<1>8. Shape(st, cursor)
  BY <1>1, ScriptShape
<1>9. cursor + 1 \in 3..29 /\ "evidence" \in DOMAIN legacy => pending'
  <2> SUFFICES ASSUME cursor + 1 \in 3..29, "evidence" \in DOMAIN legacy
               PROVE  pending'
    OBVIOUS
  <2>1. st.op # "flush"
    BY <1>1, <1>8 DEF Shape
  <2>2. CASE cursor = 2
    <3>1. Changes(st)
      BY <2>2, ScriptStatements DEF Changes, St, Statement
    <3> QED BY <2>1, <3>1, Executes
  <2>3. CASE cursor \in 3..29
    <3>1. pending
      BY <2>3 DEF OpeningOld
    <3> QED BY <2>1, <3>1, Executes
  <2> QED BY <1>1, <2>2, <2>3
<1>10. cursor + 1 > 29 => ~pending'
  <2> SUFFICES ASSUME cursor + 1 > 29 PROVE ~pending'
    OBVIOUS
  <2>1. CASE cursor = 29
    <3>1. st.op = "flush"
      BY <1>8, <2>1 DEF Shape
    <3> QED BY <3>1, Executes
  <2>2. CASE cursor > 29
    <3>1. st.op = "create"
      BY <1>1, <1>8, <2>2 DEF Shape
    <3>2. ~pending
      BY <2>2 DEF OpeningOld
    <3>3. ~Changes(st)
      BY <3>1 DEF Changes
    <3> QED BY <3>2, <3>3, Executes
  <2> QED BY <1>1, <2>1, <2>2
<1>11. \A k \in 1..(cursor' - 1) : Done(legacy', live', k)
  BY <1>1, <1>2, <1>7
<1>12. InWindow(cursor)' <=> InWindow(cursor + 1)
  BY <1>1 DEF InWindow
<1>13. /\ Columns(live')
       /\ "evidence" \in DOMAIN legacy' => "evidence" \in DOMAIN live'
  BY <1>1, <1>2, <1>5
<1>14. /\ InWindow(cursor)' =>
            Windowed(legacy', live', Script[cursor'].op, Script[cursor'].table)
       /\ ~InWindow(cursor)' => Kept(legacy', live')
  BY <1>1, <1>2, <1>6, <1>12
<1>15. /\ cursor' \in 3..29 /\ "evidence" \in DOMAIN legacy' => pending'
       /\ cursor' > 29 => ~pending'
  BY <1>1, <1>9, <1>10
<1> QED BY <1>1, <1>11, <1>13, <1>14, <1>15 DEF OpeningOld

\* What is on disk all the while: a committed state keeps every row in place.
LEMMA WindowKept ==
    ASSUME StoreShape, OpeningOld, InWindow(cursor) => ~pending
    PROVE  Kept(legacy, live)
<1>1. CASE ~InWindow(cursor)
  BY <1>1 DEF OpeningOld
<1>2. CASE InWindow(cursor)
  <2>1. /\ Windowed(legacy, live, Script[cursor].op, Script[cursor].table)
        /\ cursor \in 1..28 /\ Proper(live) /\ legacy \in Legacy
    <3>1. cursor \in 1..43 /\ cursor =< 28
      BY <1>2 DEF OpeningOld, InWindow
    <3>2. Windowed(legacy, live, Script[cursor].op, Script[cursor].table)
      BY <1>2 DEF OpeningOld
    <3>3. Proper(live) /\ legacy \in Legacy
      BY DEF StoreShape
    <3>4. cursor \in 1..28
      BY <3>1
    <3> QED BY <3>2, <3>3, <3>4
  <2>2. cursor \notin {1, 2}
    <3>1. ~InWindow(1) /\ ~InWindow(2)
      BY ScriptStatements DEF InWindow, St, Statement
    <3> QED BY <1>2, <3>1
  <2>3. cursor \in 3..29
    BY <2>1, <2>2
  <2>4. "evidence" \notin DOMAIN legacy
    BY <1>2, <2>3 DEF OpeningOld
  <2>5. \A u : Rows(legacy, u) = <<>>
    BY <2>1, <2>4, LegacyFacts
  <2>6. Script[cursor].op \in {"create", "copy", "drop"}
    BY <1>2 DEF InWindow
  <2>7. Script[cursor].table \in RekeyedTables
    <3>1. Shape(Script[cursor], cursor) /\ Follows(cursor)
      BY <2>1, ScriptShape, ScriptFlow
    <3> QED BY <2>6, <3>1 DEF Shape, Follows
  <2> QED BY <2>1, <2>5, <2>6, <2>7, BareWindow
<1> QED BY <1>1, <1>2

LEMMA ExecutedShape ==
    ASSUME StoreShape, OpeningOld, NEW st, st = Script[cursor], ~Skips(st), Execute(st),
           UNCHANGED <<todo, legacy, spent>>
    PROVE  StoreShape'
<1>1. PICK new : new = live'
  OBVIOUS
<1>2. Reached(legacy, live, new, cursor)
  BY <1>1, Executed, Executes
<1>3. Proper(live')
  BY <1>1, <1>2 DEF Reached, Lasting
<1>4. pending' \in BOOLEAN
  BY Executes
<1>5. /\ disk' = [tables |-> disk'.tables, version |-> disk'.version]
      /\ disk'.version \in {0, 1} /\ Proper(disk'.tables)
  <2>1. CASE pending'
    BY <2>1, Executes DEF StoreShape
  <2>2. CASE ~pending'
    <3>1. disk' = [tables |-> live', version |->
                     IF st.op = "stamp" THEN 1 ELSE disk.version]
      BY <2>2, Executes
    <3> QED BY <1>3, <3>1 DEF StoreShape
  <2> QED BY <2>1, <2>2
<1> QED BY <1>3, <1>4, <1>5 DEF StoreShape

LEMMA RunOld ==
    ASSUME StoreInv, disk.version = 0, Run
    PROVE  /\ StoreInv'
           /\ disk'.version = 1 => /\ live' = live /\ disk'.tables = live
                                  /\ Kept(legacy, live) /\ phase' = "opening"
                                  /\ \A k \in 1..42 : Done(legacy, live, k)
<1>1. StoreShape /\ OldStore /\ OpeningOld /\ phase = "opening"
  BY DEF StoreInv, OldStore, Run
<1>2. PICK st : st = Script[cursor]
  OBVIOUS
<1>3. /\ UNCHANGED <<phase, read, todo, legacy, spent>>
      /\ cursor \in 1..43
  BY <1>1 DEF Run, OpeningOld
<1>4. CASE Skips(st)
  <2>1. PICK after : after = cursor + SkipLength(st)
    OBVIOUS
  <2>2. cursor' = after /\ UNCHANGED <<disk, live, pending>>
    BY <1>2, <1>4, <2>1 DEF Run
  <2>3. /\ Kept(legacy, live) /\ ~InWindow(after)
        /\ after \in 2..29 /\ cursor < after
        /\ \A k \in cursor..(after - 1) : Done(legacy, live, k)
        /\ after \in 3..29 /\ "evidence" \in DOMAIN legacy => cursor \in 3..29
    BY <1>1, <1>2, <1>4, <2>1, Skipped
  <2>4. \A k \in 1..(after - 1) : Done(legacy, live, k)
    <3>1. \A k \in 1..(cursor - 1) : Done(legacy, live, k)
      BY <1>1 DEF OpeningOld
    <3>2. \A k \in 1..(after - 1) : k \in 1..(cursor - 1) \/ k \in cursor..(after - 1)
      BY <1>3, <2>3
    <3> QED BY <2>3, <3>1, <3>2
  <2>5. ~InWindow(cursor')
    BY <2>2, <2>3
  <2>6. OpeningOld'
    <3>1. /\ after \in 1..43
          /\ read' = [t \in OwnedTables |-> Recovered(legacy', t)]
          /\ Columns(live')
          /\ "evidence" \in DOMAIN legacy' => "evidence" \in DOMAIN live'
          /\ after \in 3..29 /\ "evidence" \in DOMAIN legacy' => pending'
          /\ after > 29 => ~pending'
      BY <1>1, <1>3, <2>2, <2>3 DEF OpeningOld
    <3> QED BY <1>3, <2>2, <2>3, <2>4, <2>5, <3>1 DEF OpeningOld, InWindow
  <2>7. OldStore'
    BY <1>1, <1>3, <2>2, <2>6 DEF OldStore
  <2>8. StoreShape'
    BY <1>1, <1>3, <2>2 DEF StoreShape
  <2>9. disk'.version = 0
    BY <2>2
  <2> QED BY <2>7, <2>8, <2>9 DEF StoreInv
<1>5. CASE ~Skips(st)
  <2>1. cursor' = cursor + 1 /\ Execute(st)
    BY <1>2, <1>5 DEF Run
  <2>2. StoreShape'
    BY <1>1, <1>2, <1>3, <1>5, <2>1, ExecutedShape
  <2>3. Shape(st, cursor)
    BY <1>2, <1>3, ScriptShape
  <2>4. CASE cursor < 43
    <3>1. OpeningOld'
      BY <1>1, <1>2, <1>3, <1>5, <2>1, <2>4, ExecutedOld
    <3>2. st.op # "stamp"
      BY <1>3, <2>3, <2>4 DEF Shape
    <3>3. CASE pending'
      <4>1. disk' = disk
        BY <2>1, <3>3, Executes
      <4>2. OldStore'
        BY <1>1, <1>3, <3>1, <4>1 DEF OldStore
      <4>3. disk'.version = 0
        BY <4>1
      <4> QED BY <2>2, <4>2, <4>3 DEF StoreInv
    <3>4. CASE ~pending'
      <4>1. disk' = [tables |-> live', version |-> 0]
        <5>1. disk' = [tables |-> live', version |->
                         IF st.op = "stamp" THEN 1 ELSE disk.version]
          BY <2>1, <3>4, Executes
        <5> QED BY <3>2, <5>1
      <4>2. Kept(legacy', live')
        <5>1. (InWindow(cursor) => ~pending)'
          BY <3>4
        <5>2. (StoreShape /\ OpeningOld /\ (InWindow(cursor) => ~pending)
                 => Kept(legacy, live))'
          BY WindowKept, PTL
        <5> QED BY <2>2, <3>1, <5>1, <5>2
      <4>3. disk'.tables = live' /\ disk'.version = 0
        BY <4>1
      <4>4. OldStore'
        BY <1>1, <1>3, <3>1, <4>2, <4>3 DEF OldStore, OpeningOld
      <4> QED BY <2>2, <4>3, <4>4 DEF StoreInv
    <3> QED BY <3>3, <3>4
  <2>5. CASE cursor = 43
    <3>1. st.op = "stamp" /\ ~pending
      BY <1>1, <2>3, <2>5 DEF Shape, OpeningOld
    <3>2. disk' = [tables |-> live', version |-> 1]
      <4>1. ~Changes(st)
        BY <3>1 DEF Changes
      <4>2. disk' = [tables |-> live', version |->
                       IF st.op = "stamp" THEN 1 ELSE disk.version]
        BY <2>1, <3>1, <4>1, Executes
      <4> QED BY <3>1, <4>2
    <3>3. live' = live
      BY <2>1, <3>1, Effects, Executes
    <3>4. Kept(legacy, live)
      BY <1>1, <2>5 DEF OpeningOld, InWindow
    <3>5. \A k \in 1..42 : Done(legacy, live, k)
      BY <1>1, <2>5 DEF OpeningOld
    <3>6. Sound(legacy, FALSE, live)
      BY <1>1, <3>4, <3>5, MigratedSound DEF StoreShape
    <3>7. Sound(legacy, spent.reset, live)
      BY <1>1, <3>6 DEF OldStore, Sound
    <3>8. NewStore'
      <4>1. cursor' = 44 /\ phase' = "opening"
        BY <1>1, <1>3, <2>1, <2>5
      <4>2. disk'.tables = live /\ legacy' = legacy /\ spent' = spent
        BY <1>3, <3>2, <3>3
      <4> QED BY <3>3, <3>7, <4>1, <4>2 DEF NewStore
    <3>9. disk'.version = 1 /\ disk'.tables = live
      BY <3>2, <3>3
    <3>10. phase' = "opening"
      BY <1>1, <1>3
    <3> QED BY <2>2, <3>3, <3>4, <3>5, <3>8, <3>9, <3>10 DEF StoreInv
  <2> QED BY <1>3, <2>4, <2>5
<1> QED BY <1>4, <1>5

LEMMA NothingToWrite ==
    ASSUME NEW old, NEW writes, writes = <<>>
    PROVE  /\ Len(writes) \in Nat /\ Lists(writes, Len(writes))
           /\ \A i \in 1..Len(writes) : GoodWrite(old, writes[i])
<1>1. Len(writes) = 0 /\ Lists(writes, 0)
  BY DEF Lists
<1> QED BY <1>1

LEMMA InitialStore ==
    ASSUME Init
    PROVE  StoreInv
<1>1. /\ legacy \in Legacy /\ disk = [tables |-> legacy, version |-> 0] /\ live = legacy
      /\ pending = FALSE /\ phase = "closed" /\ todo = <<>>
      /\ spent = [interactions |-> 0, crashes |-> 0, faults |-> 0, reset |-> FALSE]
  BY DEF Init
<1>2. /\ Proper(legacy) /\ DOMAIN legacy \subseteq Names
      /\ \A t \in DOMAIN legacy : legacy[t].cols \subseteq {"subject"}
      /\ \A t : \A i \in 1..Len(Rows(legacy, t)) : LegacyRow(t, Rows(legacy, t)[i])
  BY <1>1, LegacyFacts
<1>3. StoreShape
  <2>1. /\ Len(todo) \in Nat /\ Lists(todo, Len(todo))
        /\ \A i \in 1..Len(todo) : GoodWrite(legacy, todo[i])
    BY <1>1, NothingToWrite
  <2>2. /\ disk = [tables |-> disk.tables, version |-> disk.version]
        /\ disk.tables = legacy /\ disk.version = 0
    BY <1>1
  <2>3. /\ spent = [interactions |-> spent.interactions, crashes |-> spent.crashes,
                    faults |-> spent.faults, reset |-> spent.reset]
        /\ spent.reset = FALSE
    BY <1>1
  <2>4. pending \in BOOLEAN /\ spent.reset \in BOOLEAN
    BY <1>1, <2>3
  <2>5. Proper(disk.tables) /\ Proper(live)
    BY <1>1, <1>2, <2>2
  <2> QED BY <1>1, <2>1, <2>2, <2>3, <2>4, <2>5 DEF StoreShape
<1>4. Kept(legacy, legacy)
  <2> SUFFICES ASSUME NEW t \in Names PROVE KeptIn(legacy, legacy, t)
    BY DEF Kept
  <2>1. ASSUME NEW i \in 1..Len(Rows(legacy, t))
        PROVE  Carried(legacy, t, Rows(legacy, t)[i], Rows(legacy, t)[i])
    <3>1. PICK a : a = Rows(legacy, t)[i]
      OBVIOUS
    <3>2. LegacyRow(t, a)
      BY <1>2, <3>1
    <3>3. a.space = None
      BY <3>2 DEF LegacyRow
    <3>4. t \in OwnedTables => a.blob = None
      BY <3>2, TableSets DEF LegacyRow
    <3>5. Carried(legacy, t, a, a)
      BY <3>3, <3>4 DEF Carried
    <3> QED BY <3>1, <3>5
  <2>2. t \in RekeyedTables => Rows(legacy, Retired(t)) = <<>>
    BY <1>2, RetiredName DEF Rows
  <2> QED BY <2>1, <2>2 DEF KeptIn, Carrying
<1>5. Columns(legacy)
  BY <1>2 DEF Columns
<1>6. OldStore
  BY <1>1, <1>4, <1>5 DEF OldStore
<1> QED BY <1>1, <1>3, <1>6 DEF StoreInv

LEMMA OpenStep ==
    ASSUME StoreInv, Open
    PROVE  StoreInv'
<1>1. /\ phase' = "opening" /\ live' = disk.tables /\ pending' = FALSE
      /\ cursor' = IF disk.version = 0 THEN 1 ELSE 29
      /\ read' = [t \in OwnedTables |-> Recovered(disk.tables, t)]
      /\ disk' = disk /\ todo' = todo /\ legacy' = legacy /\ spent' = spent
  BY TableSets, ScriptParts DEF Open
<1>2. StoreShape /\ StoreShape'
  BY <1>1 DEF StoreInv, StoreShape
<1>3. CASE disk.version = 0
  <2>1. OldStore
    BY <1>3 DEF StoreInv
  <2>2. \A t \in OwnedTables : Recovered(disk.tables, t) = Recovered(legacy, t)
    BY <1>2, <2>1, RecoveredKept DEF OldStore, StoreShape
  <2>3. ~InWindow(1)
    BY ScriptStatements DEF InWindow, St, Statement
  <2>4. read' = [t \in OwnedTables |-> Recovered(legacy', t)]
    BY <1>1, <2>2
  <2>5. cursor' = 1 /\ ~InWindow(cursor')
    BY <1>1, <1>3, <2>3
  <2>6. /\ Kept(legacy', live') /\ Columns(live')
        /\ "evidence" \in DOMAIN legacy' => "evidence" \in DOMAIN live'
    BY <1>1, <2>1 DEF OldStore
  <2>7. OpeningOld'
    BY <1>1, <2>4, <2>5, <2>6 DEF OpeningOld, InWindow
  <2>8. OldStore'
    BY <1>1, <2>1, <2>7 DEF OldStore
  <2> QED BY <1>1, <1>2, <1>3, <2>8 DEF StoreInv
<1>4. CASE disk.version = 1
  <2>1. NewStore
    BY <1>4 DEF StoreInv
  <2>2. NewStore'
    BY <1>1, <1>4, <2>1 DEF NewStore
  <2> QED BY <1>1, <1>2, <1>4, <2>2 DEF StoreInv
<1> QED BY <1>2, <1>3, <1>4 DEF StoreShape

LEMMA RunNew ==
    ASSUME StoreInv, disk.version = 1, Run
    PROVE  /\ StoreInv'
           /\ live' = live /\ disk'.tables \in {disk.tables, live} /\ phase' = "opening"
<1>1. StoreShape /\ NewStore
  BY DEF StoreInv
<1>2. /\ phase = "opening" /\ cursor =< 43 /\ cursor \in 29..43
      /\ UNCHANGED <<phase, read, todo, legacy, spent>>
  BY <1>1, ScriptParts DEF Run, NewStore
<1>3. PICK st : st = Script[cursor]
  OBVIOUS
<1>4. Shape(st, cursor)
  BY <1>2, <1>3, ScriptShape
<1>5. st.op \in {"flush", "create", "stamp"} /\ (st.op = "create" => st.table \in Names)
  BY <1>2, <1>4 DEF Shape
<1>6. ~Skips(st)
  BY <1>5 DEF Skips
<1>7. cursor' = cursor + 1 /\ Execute(st)
  BY <1>3, <1>6 DEF Run
<1>8. live' = live
  <2>1. CASE st.op = "create"
    <3>1. st.table \in DOMAIN live
      BY <1>1, <1>5, <2>1 DEF NewStore, Sound
    <3>2. live' = Created(live, st.table)
      BY <1>7, <2>1, Effects, Executes
    <3> QED BY <3>1, <3>2 DEF Created
  <2>2. CASE st.op \in {"flush", "stamp"}
    BY <1>7, <2>2, Effects, Executes
  <2> QED BY <1>5, <2>1, <2>2
<1>9. /\ disk' = [tables |-> disk'.tables, version |-> 1]
      /\ disk'.tables \in {disk.tables, live}
  <2>1. CASE pending'
    BY <1>1, <1>7, <2>1, Executes DEF StoreShape
  <2>2. CASE ~pending'
    <3>1. disk' = [tables |-> live', version |->
                     IF st.op = "stamp" THEN 1 ELSE disk.version]
      BY <1>7, <2>2, Executes
    <3> QED BY <1>8, <3>1
  <2> QED BY <2>1, <2>2
<1>10. pending' \in BOOLEAN
  BY <1>7, Executes
<1>11. StoreShape'
  <2>1. Proper(disk'.tables) /\ Proper(live')
    BY <1>1, <1>8, <1>9 DEF StoreShape
  <2>2. disk' = [tables |-> disk'.tables, version |-> disk'.version]
        /\ disk'.version = 1
    BY <1>9
  <2> QED BY <1>1, <1>2, <1>10, <2>1, <2>2 DEF StoreShape
<1>12. NewStore'
  <2>1. Sound(legacy, spent.reset, disk'.tables)
    BY <1>1, <1>9 DEF NewStore
  <2> QED BY <1>1, <1>2, <1>7, <1>8, <2>1 DEF NewStore
<1>13. disk'.version = 1 /\ phase' = "opening"
  BY <1>2, <1>9
<1> QED BY <1>8, <1>9, <1>11, <1>12, <1>13 DEF StoreInv

LEMMA OpenedStep ==
    ASSUME StoreInv, Opened
    PROVE  StoreInv'
<1>1. /\ phase = "opening" /\ cursor > 43 /\ phase' = "ready"
      /\ UNCHANGED <<disk, live, pending, todo, legacy, spent>>
  BY ScriptParts DEF Opened
<1>2. StoreShape /\ StoreShape'
  BY <1>1 DEF StoreInv, StoreShape
<1>3. disk.version = 1
  <2>1. disk.version = 0 => cursor \in 1..43
    BY <1>1 DEF StoreInv, OldStore, OpeningOld
  <2>2. disk.version # 0
    BY <1>1, <2>1
  <2> QED BY <1>2, <2>2 DEF StoreShape
<1>4. NewStore'
  BY <1>1, <1>3 DEF StoreInv, NewStore
<1> QED BY <1>1, <1>2, <1>3, <1>4 DEF StoreInv

LEMMA CrashStep ==
    ASSUME StoreInv, Crash
    PROVE  StoreInv'
<1>1. /\ phase' = "closed" /\ live' = disk.tables /\ pending' = FALSE /\ todo' = <<>>
      /\ disk' = disk /\ legacy' = legacy
      /\ spent' = [spent EXCEPT !.crashes = @ + 1]
  BY DEF Crash
<1>2. StoreShape
  BY DEF StoreInv
<1>3. /\ spent' = [interactions |-> spent'.interactions, crashes |-> spent'.crashes,
                   faults |-> spent'.faults, reset |-> spent'.reset]
      /\ spent'.reset = spent.reset
  BY <1>1, <1>2 DEF StoreShape
<1>4. /\ Len(todo') \in Nat /\ Lists(todo', Len(todo'))
      /\ \A i \in 1..Len(todo') : GoodWrite(legacy', todo'[i])
  BY <1>1, NothingToWrite
<1>5. StoreShape'
  BY <1>1, <1>2, <1>3, <1>4 DEF StoreShape
<1>6. disk.version = 0 => OldStore'
  BY <1>1, <1>3 DEF StoreInv, OldStore
<1>7. disk.version = 1 => NewStore'
  BY <1>1, <1>3 DEF StoreInv, NewStore
<1> QED BY <1>1, <1>5, <1>6, <1>7 DEF StoreInv

\* What a plan writes.
GoodWrites(old, writes) ==
    /\ Len(writes) \in Nat /\ Lists(writes, Len(writes))
    /\ \A i \in 1..Len(writes) : GoodWrite(old, writes[i])

LEMMA WritesJoined ==
    ASSUME NEW old, NEW a, GoodWrites(old, a), NEW b, GoodWrites(old, b)
    PROVE  GoodWrites(old, a \o b)
<1>1. PICK u : Joins(u, a, b)
  BY DEF Joins
<1>2. /\ Len(a) \in Nat /\ Len(b) \in Nat
      /\ Lists(a, Len(a)) /\ Lists(b, Len(b))
  BY DEF GoodWrites
<1>3. /\ Lists(u, Len(a) + Len(b)) /\ Len(u) = Len(a) + Len(b)
      /\ \A i \in 1..Len(a) : u[i] = a[i]
      /\ \A i \in 1..Len(b) : u[Len(a) + i] = b[i]
  <2>1. /\ Lists(u, Len(a) + Len(b))
        /\ \A i \in 1..Len(a) : u[i] = a[i]
        /\ \A i \in 1..Len(b) : u[Len(a) + i] = b[i]
    BY <1>1, <1>2, Joined
  <2>2. Len(a) + Len(b) \in Nat
    BY <1>2
  <2>3. \A n \in Nat : Lists(u, n) => Len(u) = n
    BY DEF Lists
  <2> QED BY <2>1, <2>2, <2>3
<1>4. ASSUME NEW i \in 1..Len(u) PROVE GoodWrite(old, u[i])
  <2>1. CASE i \in 1..Len(a)
    BY <1>3, <2>1 DEF GoodWrites
  <2>2. CASE i \notin 1..Len(a)
    <3>1. i - Len(a) \in 1..Len(b) /\ Len(a) + (i - Len(a)) = i
      BY <1>2, <1>3, <2>2
    <3>2. u[i] = b[i - Len(a)]
      BY <1>3, <3>1
    <3> QED BY <3>1, <3>2 DEF GoodWrites
  <2> QED BY <2>1, <2>2
<1>5. Len(u) \in Nat /\ Lists(u, Len(u))
  BY <1>2, <1>3
<1>6. GoodWrites(old, u)
  BY <1>4, <1>5 DEF GoodWrites
<1> QED BY <1>1, <1>6 DEF Joins

LEMMA WrittenRow ==
    ASSUME NEW old, NEW s \in Subjects, NEW t \in Names, NEW id, NEW data,
           t = "current_pointer" => id = s
    PROVE  GoodWrite(old, Write(t, Row(s, id, data)))
<1>1. PICK row : row = Row(s, id, data)
  OBVIOUS
<1>2. /\ row = [id |-> id, writer |-> s, owner |-> s, space |-> Space,
                blob |-> s, data |-> data]
  BY <1>1 DEF Row
<1>3. /\ ProperRow(row) /\ row.writer = s /\ row.owner = s /\ row.space = Space
      /\ row.blob = s /\ row.id = id
  BY <1>2 DEF ProperRow
<1>4. Decodes(row)
  BY <1>3, StoreAssumption DEF Decodes
<1>5. SoundRow(old, t, row)
  BY <1>3, <1>4 DEF SoundRow, Rightful
<1>6. PICK write : write = Write(t, row)
  OBVIOUS
<1>7. write.table = t /\ write.row = row
  BY <1>6 DEF Write
<1>8. GoodWrite(old, write)
  BY <1>3, <1>5, <1>7 DEF GoodWrite
<1> QED BY <1>1, <1>6, <1>8

LEMMA OneWrite ==
    ASSUME NEW old, NEW write, GoodWrite(old, write)
    PROVE  GoodWrites(old, <<write>>)
<1>1. PICK u : u = <<write>>
  OBVIOUS
<1>2. Len(u) = 1 /\ u[1] = write /\ Lists(u, 1)
  BY <1>1 DEF Lists
<1>3. GoodWrites(old, u)
  BY <1>2 DEF GoodWrites
<1> QED BY <1>1, <1>3

LEMMA NoWrite ==
    ASSUME NEW old
    PROVE  GoodWrites(old, <<>>)
  BY NothingToWrite DEF GoodWrites

LEMMA ThreeWrites ==
    ASSUME NEW old, NEW a, GoodWrite(old, a), NEW b, GoodWrite(old, b),
           NEW c, GoodWrite(old, c)
    PROVE  GoodWrites(old, <<a, b, c>>)
<1>1. PICK u : u = <<a, b, c>>
  OBVIOUS
<1>2. Len(u) = 3 /\ u[1] = a /\ u[2] = b /\ u[3] = c /\ Lists(u, 3)
  BY <1>1 DEF Lists
<1>3. GoodWrites(old, u)
  BY <1>2 DEF GoodWrites
<1> QED BY <1>1, <1>3

LEMMA CommittedWrites ==
    ASSUME NEW old, NEW s \in Subjects, NEW n, NEW chosen, NEW outcome
    PROVE  GoodWrites(old, Committed(s, n, chosen, outcome))
<1> DEFINE h == IF chosen = 0 THEN n ELSE chosen
           active == ActiveHypotheses(live, s) \cup DOMAIN HypothesesOf(live, s) \cup {h}
           foreseen == IF outcome = "strengthen" THEN {n} ELSE {}
           asked == IF Cardinality(active) > 1 THEN {n} ELSE {}
           model == [hypotheses |-> active, predictions |-> foreseen,
                     inquiries |-> asked]
           held == Held(s, n)
           odd == IF outcome = "contradict"
                  THEN <<Write("anomalies", Row(s, n, n))>> ELSE <<>>
           event == Event(s, n, h, outcome, IF outcome = "contradict" THEN n ELSE 0)
           change == <<Write("hypotheses", Row(s, h, {n})),
                       Write("ledger", Row(s, n, event)),
                       Write("dependencies", Row(s, n, h))>>
           prediction == IF foreseen # {}
                         THEN <<Write("predictions", Row(s, n, h))>> ELSE <<>>
           inquiry == IF asked # {} THEN <<Write("inquiries", Row(s, n, n))>> ELSE <<>>
           version == <<Write("provenance", Row(s, n, {n})),
                        Write("world_models", Row(s, n, model)),
                        Write("current_pointer", Row(s, s, n))>>
<1>1. Committed(s, n, chosen, outcome)
        = held \o odd \o change \o prediction \o inquiry \o version
  BY DEF Committed
<1>2. \A t \in Names : \A id, data : (t = "current_pointer" => id = s)
                                   => GoodWrite(old, Write(t, Row(s, id, data)))
  BY WrittenRow
<1>3. {"evidence", "anomalies", "hypotheses", "ledger", "dependencies", "predictions",
       "inquiries", "provenance", "world_models", "current_pointer"} \subseteq Names
  BY DEF Names
<1>4. GoodWrites(old, held)
  BY <1>2, <1>3, OneWrite DEF Held
<1>5. GoodWrites(old, odd)
  <2>1. GoodWrite(old, Write("anomalies", Row(s, n, n)))
    BY <1>2, <1>3
  <2> QED BY <2>1, OneWrite, NoWrite
<1>6. GoodWrites(old, change)
  <2>1. /\ GoodWrite(old, Write("hypotheses", Row(s, h, {n})))
        /\ GoodWrite(old, Write("ledger", Row(s, n, event)))
        /\ GoodWrite(old, Write("dependencies", Row(s, n, h)))
    <3> HIDE DEF h, event
    <3> QED BY <1>2, <1>3
  <2> HIDE DEF h, event
  <2> QED BY <2>1, ThreeWrites
<1>7. GoodWrites(old, prediction)
  <2> HIDE DEF h, foreseen
  <2>1. GoodWrite(old, Write("predictions", Row(s, n, h)))
    BY <1>2, <1>3
  <2> QED BY <2>1, OneWrite, NoWrite
<1>8. GoodWrites(old, inquiry)
  <2> HIDE DEF asked
  <2>1. GoodWrite(old, Write("inquiries", Row(s, n, n)))
    BY <1>2, <1>3
  <2> QED BY <2>1, OneWrite, NoWrite
<1>9. GoodWrites(old, version)
  <2> HIDE DEF model
  <2>1. /\ GoodWrite(old, Write("provenance", Row(s, n, {n})))
        /\ GoodWrite(old, Write("world_models", Row(s, n, model)))
        /\ GoodWrite(old, Write("current_pointer", Row(s, s, n)))
    BY <1>2, <1>3
  <2> QED BY <2>1, ThreeWrites
<1> HIDE DEF held, odd, change, prediction, inquiry, version
<1>10. GoodWrites(old, held \o odd \o change \o prediction \o inquiry \o version)
  <2>1. GoodWrites(old, held \o odd)
    BY <1>4, <1>5, WritesJoined
  <2>2. GoodWrites(old, held \o odd \o change)
    BY <2>1, <1>6, WritesJoined
  <2>3. GoodWrites(old, held \o odd \o change \o prediction)
    BY <2>2, <1>7, WritesJoined
  <2>4. GoodWrites(old, held \o odd \o change \o prediction \o inquiry)
    BY <2>3, <1>8, WritesJoined
  <2> QED BY <2>4, <1>9, WritesJoined
<1> QED BY <1>1, <1>10

LEMMA PlanStep ==
    ASSUME StoreInv, Plan
    PROVE  StoreInv'
<1>1. /\ phase = "ready" /\ phase' = "writing"
      /\ spent' = [spent EXCEPT !.interactions = @ + 1]
      /\ UNCHANGED <<disk, live, pending, cursor, read, legacy>>
  BY DEF Plan
<1>2. PICK s \in Subjects :
         \/ todo' = Held(s, Fresh)
         \/ todo' = HeldWithAnomaly(s, Fresh)
         \/ \E h, outcome : todo' = Committed(s, Fresh, h, outcome)
  BY DEF Plan
<1>3. GoodWrites(legacy, todo')
  <2>1. \A t \in Names : \A id, data : (t = "current_pointer" => id = s)
                                     => GoodWrite(legacy, Write(t, Row(s, id, data)))
    BY WrittenRow
  <2>2. "evidence" \in Names /\ "anomalies" \in Names
    BY DEF Names
  <2>3. GoodWrites(legacy, Held(s, Fresh))
    BY <2>1, <2>2, OneWrite DEF Held
  <2>4. GoodWrites(legacy, HeldWithAnomaly(s, Fresh))
    <3>1. GoodWrites(legacy, <<Write("anomalies", Row(s, Fresh, Fresh))>>)
      BY <2>1, <2>2, OneWrite
    <3> QED BY <2>3, <3>1, WritesJoined DEF HeldWithAnomaly
  <2>5. \A h, outcome : GoodWrites(legacy, Committed(s, Fresh, h, outcome))
    BY CommittedWrites
  <2> QED BY <1>2, <2>3, <2>4, <2>5
<1>4. StoreShape
  BY DEF StoreInv
<1>5. /\ spent' = [interactions |-> spent'.interactions, crashes |-> spent'.crashes,
                   faults |-> spent'.faults, reset |-> spent'.reset]
      /\ spent'.reset = spent.reset
  BY <1>1, <1>4 DEF StoreShape
<1>6. StoreShape'
  BY <1>1, <1>3, <1>4, <1>5 DEF StoreShape, GoodWrites
<1>7. disk.version = 1
  BY <1>1, <1>4 DEF StoreInv, OldStore, StoreShape
<1>8. NewStore'
  BY <1>1, <1>5, <1>7 DEF StoreInv, NewStore
<1> QED BY <1>1, <1>6, <1>7, <1>8 DEF StoreInv

\* A row written is one more, or takes the place of one with its key.
LEMMA InsertedRow ==
    ASSUME NEW tables, Proper(tables), NEW t \in Names, t \in DOMAIN tables,
           NEW row, ProperRow(row), NEW new, new = Inserted(tables, t, row)
    PROVE  /\ Proper(new) /\ DOMAIN new = DOMAIN tables
           /\ \A u \in DOMAIN tables : u # t => new[u] = tables[u]
           /\ Len(tables[t].rows) =< Len(new[t].rows)
           /\ \A i \in 1..Len(new[t].rows) :
                 \/ /\ i \in 1..Len(tables[t].rows)
                    /\ new[t].rows[i] = tables[t].rows[i]
                 \/ new[t].rows[i] = row
           /\ \A i \in 1..Len(tables[t].rows) :
                 \/ new[t].rows[i] = tables[t].rows[i]
                 \/ /\ t = "current_pointer" /\ tables[t].rows[i].id = row.id
                    /\ new[t].rows[i] = row
<1> DEFINE old == tables[t].rows
           same == {i \in DOMAIN old : t = "current_pointer" /\ old[i].id = row.id}
<1>1. PICK rows : rows = IF same = {} THEN Append(old, row)
                         ELSE [i \in DOMAIN old |-> IF i \in same THEN row ELSE old[i]]
  OBVIOUS
<1>2. PICK table : table = [cols |-> tables[t].cols, rows |-> rows]
  OBVIOUS
<1>3. /\ tables[t] = [cols |-> tables[t].cols, rows |-> old]
      /\ Len(old) \in Nat /\ Lists(old, Len(old)) /\ DOMAIN old = 1..Len(old)
      /\ \A i \in 1..Len(old) : ProperRow(old[i])
  BY DEF Proper, ProperTable, Lists
<1>4. Overwrites(new, tables, t, table)
  <2>1. new = [tables EXCEPT ![t].rows = rows]
    BY <1>1 DEF Inserted
  <2>2. [tables[t] EXCEPT !.rows = rows] = table
    BY <1>2, <1>3
  <2>3. new = [tables EXCEPT ![t] = [tables[t] EXCEPT !.rows = rows]]
    BY <2>1
  <2> QED BY <2>2, <2>3 DEF Overwrites
<1>5. /\ Len(rows) \in Nat /\ Lists(rows, Len(rows)) /\ Len(old) =< Len(rows)
      /\ \A i \in 1..Len(rows) :
            (i \in 1..Len(old) /\ rows[i] = old[i]) \/ rows[i] = row
      /\ \A i \in 1..Len(old) :
            \/ rows[i] = old[i]
            \/ t = "current_pointer" /\ old[i].id = row.id /\ rows[i] = row
  <2> HIDE DEF old
  <2>1. CASE same = {}
    <3>1. PICK S : old \in Seq(S) /\ row \in S
      <4> DEFINE S == {old[i] : i \in 1..Len(old)} \cup {row}
      <4>1. \A i \in 1..Len(old) : old[i] \in S
        OBVIOUS
      <4>2. row \in S
        OBVIOUS
      <4> HIDE DEF S
      <4>3. old \in Seq(S)
        BY <1>3, <4>1 DEF Lists
      <4> QED BY <4>2, <4>3
    <3>2. rows = Append(old, row)
      BY <1>1, <2>1
    <3>3. /\ rows \in Seq(S) /\ Len(rows) = Len(old) + 1
          /\ \A i \in 1..Len(old) : rows[i] = old[i]
          /\ rows[Len(old) + 1] = row
      BY <3>1, <3>2, AppendProperties
    <3>4. Lists(rows, Len(rows)) /\ Len(rows) \in Nat
      BY <3>3 DEF Lists
    <3>5. \A i \in 1..Len(rows) : i \in 1..Len(old) \/ i = Len(old) + 1
      BY <1>3, <3>3
    <3>6. Len(old) =< Len(rows)
      BY <1>3, <3>3
    <3> QED BY <3>3, <3>4, <3>5, <3>6
  <2>2. CASE same # {}
    <3>1. rows = [i \in 1..Len(old) |-> IF i \in same THEN row ELSE old[i]]
      BY <1>1, <1>3, <2>2
    <3>2. \A i \in 1..Len(old) : rows[i] = IF i \in same THEN row ELSE old[i]
      BY <3>1
    <3>3. DOMAIN rows = DOMAIN old /\ rows = [i \in DOMAIN rows |-> rows[i]]
      BY <1>3, <3>1
    <3>4. Len(rows) = Len(old) /\ Lists(rows, Len(rows))
      BY <1>3, <3>3, MappedRows
    <3>5. \A i \in same : t = "current_pointer" /\ old[i].id = row.id
      OBVIOUS
    <3> HIDE DEF same
    <3> QED BY <1>3, <3>2, <3>4, <3>5
  <2> QED BY <2>1, <2>2
<1>6. ProperTable(table) /\ table.rows = rows
  <2>1. table.rows = rows /\ table = [cols |-> table.cols, rows |-> table.rows]
    BY <1>2
  <2>2. \A i \in 1..Len(rows) : ProperRow(rows[i])
    BY <1>3, <1>5
  <2> QED BY <1>5, <2>1, <2>2 DEF ProperTable
<1>7. /\ Proper(new) /\ DOMAIN new = DOMAIN tables /\ new[t] = table
      /\ \A u \in DOMAIN tables : u # t => new[u] = tables[u]
  BY <1>4, <1>6, Replaced
<1>8. new[t].rows = rows
  BY <1>6, <1>7
<1> QED BY <1>5, <1>7, <1>8

LEMMA InsertedSound ==
    ASSUME NEW old, Proper(old),
           NEW reset, NEW tables, Proper(tables), Sound(old, reset, tables),
           NEW t \in Names, NEW row, ProperRow(row), SoundRow(old, t, row),
           NEW new, new = Inserted(tables, t, row)
    PROVE  Proper(new) /\ Sound(old, reset, new)
<1>1. t \in DOMAIN tables
  BY DEF Sound
<1>2. /\ Proper(new) /\ DOMAIN new = DOMAIN tables
      /\ \A u \in DOMAIN tables : u # t => new[u] = tables[u]
      /\ Len(tables[t].rows) =< Len(new[t].rows)
      /\ \A i \in 1..Len(new[t].rows) :
            \/ /\ i \in 1..Len(tables[t].rows)
               /\ new[t].rows[i] = tables[t].rows[i]
            \/ new[t].rows[i] = row
      /\ \A i \in 1..Len(tables[t].rows) :
            \/ new[t].rows[i] = tables[t].rows[i]
            \/ /\ t = "current_pointer" /\ tables[t].rows[i].id = row.id
               /\ new[t].rows[i] = row
  BY <1>1, InsertedRow
<1>3. \A u \in DOMAIN tables :
         \A i \in 1..Len(tables[u].rows) : SoundRow(old, u, tables[u].rows[i])
  BY DEF Sound
<1>4. ASSUME NEW u \in DOMAIN new, NEW i \in 1..Len(new[u].rows)
      PROVE  SoundRow(old, u, new[u].rows[i])
  <2>1. CASE u # t
    BY <1>2, <1>3, <2>1
  <2>2. CASE u = t
    BY <1>1, <1>2, <1>3, <2>2
  <2> QED BY <2>1, <2>2
<1>5. \A i \in 1..Len(tables[t].rows) : Key(new[t].rows[i]) = Key(tables[t].rows[i])
  <2> SUFFICES ASSUME NEW i \in 1..Len(tables[t].rows),
                      new[t].rows[i] # tables[t].rows[i]
               PROVE  Key(new[t].rows[i]) = Key(tables[t].rows[i])
    OBVIOUS
  <2>1. PICK was : was = tables[t].rows[i]
    OBVIOUS
  <2>2. t = "current_pointer" /\ was.id = row.id /\ new[t].rows[i] = row
    BY <1>2, <2>1
  <2>3. SoundRow(old, t, was)
    BY <1>1, <1>3, <2>1
  <2>4. was.id = was.writer /\ row.id = row.writer
    BY <2>2, <2>3 DEF SoundRow
  <2> QED BY <2>1, <2>2, <2>4 DEF Key
<1>6. ASSUME NEW u \in DOMAIN old, Prefixed(old, tables, u)
      PROVE  Prefixed(old, new, u)
  <2>1. CASE u # t
    <3>1. Rows(new, u) = Rows(tables, u)
      BY <1>2, <2>1 DEF Rows
    <3> QED BY <1>6, <3>1 DEF Prefixed
  <2>2. CASE u = t
    <3>1. PICK a, b : a = tables[t].rows /\ b = new[t].rows
      OBVIOUS
    <3>2. Rows(tables, u) = a /\ Rows(new, u) = b
      BY <1>1, <1>2, <2>2, <3>1 DEF Rows
    <3>3. /\ Len(a) \in Nat /\ Len(b) \in Nat /\ Len(a) =< Len(b)
          /\ \A i \in 1..Len(a) : Key(b[i]) = Key(a[i])
      BY <1>1, <1>2, <1>5, <3>1 DEF Proper, ProperTable
    <3>4. /\ Len(Rows(old, u)) =< Len(a)
          /\ \A i \in 1..Len(Rows(old, u)) : Key(a[i]) = Key(Rows(old, u)[i])
      BY <1>6, <3>2 DEF Prefixed
    <3>5. PICK m \in Nat : m = Len(Rows(old, u))
      BY ProperRows
    <3>6. m =< Len(b) /\ \A i \in 1..m : i \in 1..Len(a)
      BY <3>3, <3>4, <3>5
    <3>7. \A i \in 1..m : Key(b[i]) = Key(Rows(old, u)[i])
      BY <3>3, <3>4, <3>5, <3>6
    <3> QED BY <3>2, <3>5, <3>6, <3>7 DEF Prefixed
  <2> QED BY <2>1, <2>2
<1>7. Names \subseteq DOMAIN new
  BY <1>2 DEF Sound
<1> QED BY <1>2, <1>4, <1>6, <1>7 DEF Sound

LEMMA WriteRowStep ==
    ASSUME StoreInv, WriteRow
    PROVE  StoreInv'
<1>1. /\ phase = "writing" /\ todo # <<>>
      /\ live' = Inserted(live, Head(todo).table, Head(todo).row)
      /\ disk' = [disk EXCEPT !.tables = live'] /\ pending' = FALSE
      /\ todo' = Tail(todo)
      /\ phase' = (IF todo' = <<>> THEN "ready" ELSE "writing")
      /\ UNCHANGED <<cursor, read, legacy, spent>>
  BY DEF WriteRow
<1>2. StoreShape
  BY DEF StoreInv
<1>3. disk.version = 1 /\ NewStore
  BY <1>1, <1>2 DEF StoreInv, OldStore, StoreShape
<1>4. PICK n \in Nat : n = Len(todo) /\ Lists(todo, n)
  BY <1>2 DEF StoreShape
<1>5. todo \in Seq({todo[i] : i \in 1..n}) /\ n # 0
  <2>1. todo \in Seq({todo[i] : i \in 1..n})
    BY <1>4 DEF Lists
  <2> QED BY <1>1, <1>4, <2>1, EmptySeq
<1>6. PICK write, rest : write = Head(todo) /\ rest = Tail(todo)
  OBVIOUS
<1>7. /\ write = todo[1]
      /\ Len(rest) = n - 1 /\ rest \in Seq({todo[i] : i \in 1..n})
      /\ \A i \in 1..(n - 1) : rest[i] = todo[i + 1]
  <2>1. write = todo[1]
    BY <1>6 DEF Head
  <2>2. PICK S : S = {todo[i] : i \in 1..n}
    OBVIOUS
  <2>3. todo \in Seq(S) /\ todo # <<>>
    BY <1>1, <1>5, <2>2
  <2>4. /\ Tail(todo) \in Seq(S) /\ Len(Tail(todo)) = Len(todo) - 1
        /\ \A i \in 1..Len(Tail(todo)) : Tail(todo)[i] = todo[i + 1]
    BY <2>3, HeadTailProperties
  <2> QED BY <1>4, <1>6, <2>1, <2>2, <2>4
<1>8. GoodWrite(legacy, write) /\ GoodWrites(legacy, rest)
  <2>1. \A i \in 1..n : GoodWrite(legacy, todo[i])
    BY <1>2, <1>4 DEF StoreShape
  <2>2. GoodWrite(legacy, write)
    BY <1>4, <1>5, <1>7, <2>1
  <2>3. \A i \in 1..Len(rest) : GoodWrite(legacy, rest[i])
    BY <1>4, <1>5, <1>7, <2>1
  <2>4. Len(rest) \in Nat /\ Lists(rest, Len(rest))
    BY <1>7 DEF Lists
  <2> QED BY <2>2, <2>3, <2>4 DEF GoodWrites
<1>9. PICK t, row : t = write.table /\ row = write.row
  OBVIOUS
<1>10. PICK new : new = live'
  OBVIOUS
<1>11. t \in Names /\ ProperRow(row) /\ SoundRow(legacy, t, row)
  BY <1>8, <1>9 DEF GoodWrite
<1>12. new = Inserted(live, t, row)
  BY <1>1, <1>6, <1>9, <1>10
<1>13. Proper(legacy) /\ Proper(live) /\ Sound(legacy, spent.reset, live)
  BY <1>2, <1>3, LegacyFacts DEF StoreShape, NewStore
<1>14. Proper(new) /\ Sound(legacy, spent.reset, new)
  BY <1>11, <1>12, <1>13, InsertedSound
<1>15. disk' = [tables |-> disk'.tables, version |-> disk'.version]
       /\ disk'.tables = new /\ disk'.version = 1
  BY <1>1, <1>2, <1>3, <1>10 DEF StoreShape
<1>16. StoreShape'
  BY <1>1, <1>2, <1>6, <1>8, <1>10, <1>14, <1>15 DEF StoreShape, GoodWrites
<1>17. NewStore'
  BY <1>1, <1>10, <1>14, <1>15 DEF NewStore
<1> QED BY <1>15, <1>16, <1>17 DEF StoreInv

LEMMA WriteRaisesStep ==
    ASSUME StoreInv, WriteRaises
    PROVE  StoreInv'
<1>1. /\ phase = "writing" /\ phase' = "ready" /\ todo' = <<>>
      /\ spent' = [spent EXCEPT !.faults = @ + 1]
      /\ UNCHANGED <<disk, live, pending, cursor, read, legacy>>
  BY DEF WriteRaises
<1>2. StoreShape
  BY DEF StoreInv
<1>3. /\ spent' = [interactions |-> spent'.interactions, crashes |-> spent'.crashes,
                   faults |-> spent'.faults, reset |-> spent'.reset]
      /\ spent'.reset = spent.reset
  BY <1>1, <1>2 DEF StoreShape
<1>4. /\ Len(todo') \in Nat /\ Lists(todo', Len(todo'))
      /\ \A i \in 1..Len(todo') : GoodWrite(legacy', todo'[i])
  BY <1>1, NothingToWrite
<1>5. StoreShape'
  BY <1>1, <1>2, <1>3, <1>4 DEF StoreShape
<1>6. disk.version = 1 /\ NewStore
  BY <1>1, <1>2 DEF StoreInv, OldStore, StoreShape
<1>7. NewStore'
  BY <1>1, <1>3, <1>6 DEF NewStore
<1> QED BY <1>1, <1>5, <1>6, <1>7 DEF StoreInv

\* A reset clears tables, and no row that is left is less sound for it.
LEMMA BeginResetStep ==
    ASSUME StoreInv, BeginReset
    PROVE  StoreInv'
<1>1. /\ phase = "ready" /\ phase' = "resetting" /\ cursor' = 1
      /\ spent' = [spent EXCEPT !.reset = TRUE]
      /\ UNCHANGED <<disk, live, pending, read, todo, legacy>>
  BY DEF BeginReset
<1>2. StoreShape
  BY DEF StoreInv
<1>3. /\ spent' = [interactions |-> spent'.interactions, crashes |-> spent'.crashes,
                   faults |-> spent'.faults, reset |-> spent'.reset]
      /\ spent'.reset = TRUE
  BY <1>1, <1>2 DEF StoreShape
<1>4. StoreShape'
  BY <1>1, <1>2, <1>3 DEF StoreShape
<1>5. disk.version = 1 /\ NewStore
  BY <1>1, <1>2 DEF StoreInv, OldStore, StoreShape
<1>6. NewStore'
  BY <1>1, <1>3, <1>5 DEF NewStore, Sound
<1> QED BY <1>1, <1>4, <1>5, <1>6 DEF StoreInv

LEMMA ClearStep ==
    ASSUME StoreInv, Clear
    PROVE  StoreInv'
<1>1. /\ phase = "resetting" /\ cursor =< 13 /\ cursor' = cursor + 1
      /\ live' = [live EXCEPT ![Schema[cursor]].rows = <<>>] /\ pending' = TRUE
      /\ UNCHANGED <<disk, phase, read, todo, legacy, spent>>
  BY SchemaTables DEF Clear
<1>2. StoreShape
  BY DEF StoreInv
<1>3. disk.version = 1 /\ NewStore
  BY <1>1, <1>2 DEF StoreInv, OldStore, StoreShape
<1>4. spent.reset = TRUE /\ cursor \in 1..13
  BY <1>1, <1>2, <1>3 DEF NewStore, StoreShape
<1>5. PICK t \in Names : t = Schema[cursor]
  BY <1>4, SchemaTables DEF Names
<1>6. PICK new : new = live'
  OBVIOUS
<1>7. PICK table : table = [cols |-> live[t].cols, rows |-> <<>>]
  OBVIOUS
<1>8. t \in DOMAIN live /\ ProperTable(live[t]) /\ Proper(live)
  BY <1>2, <1>3 DEF NewStore, Sound, StoreShape, Proper
<1>9. ProperTable(table) /\ table.rows = <<>>
  BY <1>7 DEF ProperTable, Lists
<1>10. Overwrites(new, live, t, table)
  <2>1. live[t] = [cols |-> live[t].cols, rows |-> live[t].rows]
    BY <1>8 DEF ProperTable
  <2>2. [live[t] EXCEPT !.rows = <<>>] = table
    BY <1>7, <2>1
  <2>3. new = [live EXCEPT ![t] = [live[t] EXCEPT !.rows = <<>>]]
    BY <1>1, <1>5, <1>6
  <2> QED BY <2>2, <2>3 DEF Overwrites
<1>11. /\ Proper(new) /\ DOMAIN new = DOMAIN live /\ new[t] = table
       /\ \A u \in DOMAIN live : u # t => new[u] = live[u]
  BY <1>8, <1>9, <1>10, Replaced
<1>12. Sound(legacy, TRUE, new)
  <2>1. ASSUME NEW u \in DOMAIN new, NEW i \in 1..Len(new[u].rows)
        PROVE  SoundRow(legacy, u, new[u].rows[i])
    <3>1. CASE u = t
      <4>1. Len(new[u].rows) = 0
        BY <1>9, <1>11, <3>1
      <4>2. FALSE
        BY <4>1
      <4> QED BY <4>2
    <3>2. CASE u # t
      BY <1>3, <1>11, <3>2 DEF NewStore, Sound
    <3> QED BY <3>1, <3>2
  <2> QED BY <1>3, <1>11, <2>1 DEF NewStore, Sound
<1>13. StoreShape'
  BY <1>1, <1>2, <1>6, <1>11 DEF StoreShape
<1>14. NewStore'
  <2>1. Sound(legacy, spent.reset, disk.tables) /\ Sound(legacy, spent.reset, new)
    BY <1>3, <1>4, <1>12 DEF NewStore
  <2>2. cursor' \in 1..14 /\ phase' = "resetting"
    BY <1>1, <1>4
  <2> QED BY <1>1, <1>4, <1>6, <2>1, <2>2 DEF NewStore
<1> QED BY <1>1, <1>3, <1>13, <1>14 DEF StoreInv

LEMMA EndResetStep ==
    ASSUME StoreInv, EndReset
    PROVE  StoreInv'
<1>1. /\ phase = "resetting" /\ phase' = "ready"
      /\ disk' = [disk EXCEPT !.tables = live] /\ pending' = FALSE
      /\ UNCHANGED <<live, read, todo, legacy, spent>>
  BY DEF EndReset
<1>2. StoreShape
  BY DEF StoreInv
<1>3. disk.version = 1 /\ NewStore
  BY <1>1, <1>2 DEF StoreInv, OldStore, StoreShape
<1>4. disk' = [tables |-> disk'.tables, version |-> disk'.version]
      /\ disk'.tables = live /\ disk'.version = 1
  BY <1>1, <1>2, <1>3 DEF StoreShape
<1>5. StoreShape'
  BY <1>1, <1>2, <1>4 DEF StoreShape
<1>6. NewStore'
  BY <1>1, <1>3, <1>4 DEF NewStore
<1> QED BY <1>4, <1>5, <1>6 DEF StoreInv

LEMMA StoreStep ==
    ASSUME StoreInv, [Next]_vars
    PROVE  StoreInv'
<1>1. CASE Open
  BY <1>1, OpenStep
<1>2. CASE Run
  <2>1. disk.version \in {0, 1}
    BY DEF StoreInv, StoreShape
  <2> QED BY <1>2, <2>1, RunOld, RunNew
<1>3. CASE Opened
  BY <1>3, OpenedStep
<1>4. CASE Plan
  BY <1>4, PlanStep
<1>5. CASE WriteRow
  BY <1>5, WriteRowStep
<1>6. CASE WriteRaises
  BY <1>6, WriteRaisesStep
<1>7. CASE BeginReset
  BY <1>7, BeginResetStep
<1>8. CASE Clear
  BY <1>8, ClearStep
<1>9. CASE EndReset
  BY <1>9, EndResetStep
<1>10. CASE Crash
  BY <1>10, CrashStep
<1>11. CASE UNCHANGED vars
  <2>1. UNCHANGED <<disk, live, pending, phase, cursor, read, todo, legacy, spent>>
    BY <1>11 DEF vars
  <2>2. StoreShape'
    BY <2>1 DEF StoreInv, StoreShape
  <2>3. disk.version = 0 => OldStore'
    BY <2>1 DEF StoreInv, OldStore, OpeningOld, InWindow
  <2>4. disk.version = 1 => NewStore'
    BY <2>1 DEF StoreInv, NewStore
  <2> QED BY <2>1, <2>2, <2>3, <2>4 DEF StoreInv
<1> QED BY <1>1, <1>2, <1>3, <1>4, <1>5, <1>6, <1>7, <1>8, <1>9, <1>10, <1>11 DEF Next

\* The inductive invariant: while the disk is of version 0 it holds every legacy
\* row in place, and the migration between two commits holds it in one of two
\* tables; of version 1 every row is sound.
THEOREM StoreInductive == Spec => []StoreInv
<1>1. Init => StoreInv
  BY InitialStore
<1>2. StoreInv /\ [Next]_vars => StoreInv'
  BY StoreStep
<1> QED BY <1>1, <1>2, PTL DEF Spec

----------------------------------------------------------------------------
\* What follows from it.
LEMMA PrefixByIndex ==
    ASSUME NEW m \in Nat, NEW n \in Nat, m =< n, NEW s, NEW u, Lists(s, m), Lists(u, n),
           \A i \in 1..m : u[i] = s[i]
    PROVE  IsPrefix(s, u)
<1>1. Len(s) = m /\ Len(u) = n
  BY DEF Lists
<1>2. SubSeq(s, 1, m) = [i \in 1..m |-> s[i]]
  BY <1>1 DEF SubSeq
<1>3. SubSeq(u, 1, m) = [i \in 1..m |-> u[i]]
  BY <1>1 DEF SubSeq
<1> QED BY <1>1, <1>2, <1>3 DEF IsPrefix

LEMMA KeysListed ==
    ASSUME NEW tables, Proper(tables), NEW t
    PROVE  /\ Len(Rows(tables, t)) \in Nat
           /\ Lists(Keys(tables, t), Len(Rows(tables, t)))
           /\ \A i \in 1..Len(Rows(tables, t)) : Keys(tables, t)[i] = Key(Rows(tables, t)[i])
<1>1. DOMAIN Rows(tables, t) = 1..Len(Rows(tables, t))
  BY ProperRows
<1> QED BY <1>1, ProperRows DEF Keys, Lists

LEMMA RowsKept ==
    ASSUME StoreInv
    PROVE  LegacyRowsKept
<1> SUFFICES ASSUME NEW t \in DOMAIN legacy, ~spent.reset
             PROVE  IsPrefix(Keys(legacy, t), Keys(disk.tables, t))
  BY DEF LegacyRowsKept
<1>1. /\ Proper(legacy) /\ Proper(disk.tables) /\ t \in Names
      /\ disk.version \in {0, 1}
  BY LegacyFacts DEF StoreInv, StoreShape
<1>2. PICK m \in Nat, n \in Nat :
         m = Len(Rows(legacy, t)) /\ n = Len(Rows(disk.tables, t))
  BY <1>1, ProperRows
<1>3. m =< n /\ \A i \in 1..m : Key(Rows(disk.tables, t)[i]) = Key(Rows(legacy, t)[i])
  <2>1. CASE disk.version = 0
    <3>1. Carrying(legacy, t, Rows(disk.tables, t))
      BY <1>1, <2>1 DEF StoreInv, OldStore, Kept, KeptIn
    <3>2. m = n
      BY <1>2, <3>1 DEF Carrying
    <3>3. ASSUME NEW i \in 1..m
          PROVE  Key(Rows(disk.tables, t)[i]) = Key(Rows(legacy, t)[i])
      <4>1. PICK a, b : a = Rows(legacy, t)[i] /\ b = Rows(disk.tables, t)[i]
        OBVIOUS
      <4>2. Carried(legacy, t, a, b)
        BY <1>2, <3>1, <3>2, <4>1 DEF Carrying
      <4>3. Key(b) = Key(a)
        BY <4>2 DEF Carried, Key
      <4> QED BY <4>1, <4>3
    <3> QED BY <3>2, <3>3
  <2>2. CASE disk.version = 1
    <3>1. Prefixed(legacy, disk.tables, t)
      BY <2>2 DEF StoreInv, NewStore, Sound
    <3> QED BY <1>2, <3>1 DEF Prefixed
  <2> QED BY <1>1, <2>1, <2>2
<1>4. /\ Lists(Keys(legacy, t), m) /\ Lists(Keys(disk.tables, t), n)
      /\ \A i \in 1..m : Keys(legacy, t)[i] = Key(Rows(legacy, t)[i])
      /\ \A i \in 1..n : Keys(disk.tables, t)[i] = Key(Rows(disk.tables, t)[i])
  BY <1>1, <1>2, KeysListed
<1>5. \A i \in 1..m : Keys(disk.tables, t)[i] = Keys(legacy, t)[i]
  <2>1. \A i \in 1..m : i \in 1..n
    BY <1>3
  <2> QED BY <1>3, <1>4, <2>1
<1>6. PICK s, u : s = Keys(legacy, t) /\ u = Keys(disk.tables, t)
  OBVIOUS
<1>7. IsPrefix(s, u)
  BY <1>3, <1>4, <1>5, <1>6, PrefixByIndex
<1> QED BY <1>6, <1>7

LEMMA RowsDecode ==
    ASSUME StoreInv
    PROVE  MigratedRowsDecode
<1> SUFFICES ASSUME disk.version = 1, NEW t \in DOMAIN disk.tables,
                    NEW row \in ToSet(disk.tables[t].rows)
             PROVE  /\ Decodes(row)
                    /\ t \in ToSet(Owned) => row.owner = row.blob
                    /\ t \in Scoped => row.space = Space
  BY DEF MigratedRowsDecode, Migrated
<1>1. ProperTable(disk.tables[t])
  BY DEF StoreInv, StoreShape, Proper
<1>2. PICK i \in 1..Len(disk.tables[t].rows) : row = disk.tables[t].rows[i]
  BY <1>1 DEF ProperTable, Lists, ToSet
<1>3. SoundRow(legacy, t, row)
  BY <1>2 DEF StoreInv, NewStore, Sound
<1> QED BY <1>3, TableSets DEF SoundRow

\* Existing data is preserved (sqlite_migration.py): whatever the legacy contents
\* and wherever the process dies, every row written before the migration is
\* there, and after it can be decoded and has its owner and its space.
THEOREM MigrationPreservesRowsAlways == Spec => []MigrationPreservesRows
<1>1. StoreInv => MigrationPreservesRows
  BY RowsKept, RowsDecode DEF MigrationPreservesRows
<1> QED BY <1>1, StoreInductive, PTL

\* Subjects that keep to their own ids are told apart.
LEMMA RightlyRecovered ==
    ASSUME NEW old \in Legacy, SubjectsApart(old), NEW t \in OwnedTables,
           NEW row \in ToSet(Rows(old, t))
    PROVE  OwnerOf(old, t, row.id) \in {row.writer, Unknown}
<1>1. /\ Proper(old)
      /\ \A model \in ToSet(Rows(old, "world_models")) :
            row.id \in model.data[t] => model.writer = row.writer
      /\ \E item \in ToSet(Rows(old, "evidence")) : item.owner = row.writer
  BY LegacyFacts, TableSets DEF SubjectsApart
<1>2. CASE Holders(old, row.id, t) # {}
  <2>1. PICK i : i = Min(Holders(old, row.id, t))
    OBVIOUS
  <2>2. i \in Holders(old, row.id, t)
    BY <1>1, <1>2, <2>1, FirstHolder
  <2>3. /\ i \in DOMAIN Rows(old, "world_models")
        /\ row.id \in Rows(old, "world_models")[i].data[t]
    BY <2>2 DEF Holders
  <2>4. Rows(old, "world_models")[i] \in ToSet(Rows(old, "world_models"))
    BY <2>3 DEF ToSet
  <2>5. Rows(old, "world_models")[i].writer = row.writer
    BY <1>1, <2>3, <2>4
  <2> QED BY <1>2, <2>1, <2>5 DEF OwnerOf
<1>3. CASE Holders(old, row.id, t) = {}
  <2> DEFINE items == Rows(old, "evidence")
             subjects == {item.owner : item \in ToSet(items)}
  <2>1. row.writer \in subjects
    BY <1>1
  <2>2. IsFiniteSet(subjects)
    <3>1. DOMAIN items = 1..Len(items) /\ Len(items) \in Nat
      BY <1>1, ProperRows
    <3> HIDE DEF items
    <3>2. subjects = {items[i].owner : i \in 1..Len(items)}
      BY <3>1 DEF ToSet
    <3> DEFINE f == [i \in 1..Len(items) |-> items[i].owner]
    <3>3. f \in Surjection(1..Len(items), subjects)
      BY <3>2 DEF Surjection
    <3>4. IsFiniteSet(1..Len(items))
      BY <3>1, FS_Interval
    <3> HIDE DEF f, subjects
    <3> QED BY <3>3, <3>4, FS_Surjection
  <2>3. SoleEvidenceSubject(old)
          = IF Cardinality(subjects) = 1 THEN CHOOSE s \in subjects : TRUE ELSE None
    BY DEF SoleEvidenceSubject
  <2> HIDE DEF subjects
  <2>4. Cardinality(subjects) = 1 => SoleEvidenceSubject(old) = row.writer
    <3>1. Cardinality(subjects) = 1 => \E x : subjects = {x}
      BY <2>2, FS_Singleton
    <3>2. Cardinality(subjects) = 1 => subjects = {row.writer}
      BY <2>1, <3>1
    <3> QED BY <2>3, <3>2
  <2>5. SoleEvidenceSubject(old) \in {row.writer, None}
    BY <2>3, <2>4
  <2> QED BY <1>3, <2>5 DEF OwnerOf
<1> QED BY <1>2, <1>3

LEMMA OwnersRight ==
    ASSUME StoreInv, SubjectsApart(legacy)
    PROVE  OwnersRecovered
<1> SUFFICES ASSUME disk.version = 1, NEW t \in OwnedTables,
                    NEW row \in ToSet(Rows(disk.tables, t))
             PROVE  row.owner \in {row.writer, Unknown}
  BY TableSets DEF OwnersRecovered, Migrated
<1>1. /\ Proper(disk.tables) /\ Proper(legacy) /\ legacy \in Legacy
      /\ Names \subseteq DOMAIN disk.tables /\ t \in Names
  BY LegacyFacts, RetiredName DEF StoreInv, StoreShape, NewStore, Sound
<1>2. PICK i \in 1..Len(Rows(disk.tables, t)) : row = Rows(disk.tables, t)[i]
  BY <1>1, ProperRows DEF ToSet
<1>3. SoundRow(legacy, t, row)
  <2>1. Rows(disk.tables, t) = disk.tables[t].rows
    BY <1>1 DEF Rows
  <2> QED BY <1>1, <1>2, <2>1 DEF StoreInv, NewStore, Sound
<1>4. Rightful(legacy, t, row)
  BY <1>3 DEF SoundRow
<1>5. ASSUME NEW j \in 1..Len(Rows(legacy, t)),
             Rows(legacy, t)[j].id = row.id, Rows(legacy, t)[j].writer = row.writer,
             row.owner = Recovered(legacy, t)[row.id]
      PROVE  row.owner \in {row.writer, Unknown}
  <2>1. PICK a : a = Rows(legacy, t)[j]
    OBVIOUS
  <2>2. a \in ToSet(Rows(legacy, t))
    BY <1>1, <2>1, ProperRows DEF ToSet
  <2>3. Recovered(legacy, t)[a.id] = OwnerOf(legacy, t, a.id)
    BY <1>1, <2>1, RecoveredRow
  <2>4. OwnerOf(legacy, t, a.id) \in {a.writer, Unknown}
    BY <1>1, <2>2, RightlyRecovered
  <2> QED BY <1>5, <2>1, <2>3, <2>4
<1> QED BY <1>4, <1>5 DEF Rightful

\* Never leaked to another subject (the migration's third guarantee): if the
\* subjects of every legacy database kept to their own ids, no hypothesis or
\* prediction ever has an owner but who wrote it or nobody.
THEOREM OwnersRecoveredAlways ==
    ASSUME \A tables \in Legacy : SubjectsApart(tables)
    PROVE  Spec => []OwnersRecovered
<1>1. StoreInv => OwnersRecovered
  BY OwnersRight DEF StoreInv, StoreShape
<1> QED BY <1>1, StoreInductive, PTL

----------------------------------------------------------------------------
\* What a reader is shown.  A row belongs to a subject by its columns; an anomaly,
\* which has none, by its writer.
Belongs(t, row, s) ==
    IF t = "anomalies" THEN row.writer = s ELSE row.owner = s /\ row.space = Space

Mine(tables, t, s) == {row \in ToSet(Rows(tables, t)) : Belongs(t, row, s)}

Named(tables, s) == UNION {{NameOf(t, row) : row \in Mine(tables, t, s)} : t \in Citable}

\* Whatever a subject's rows cite is there, and its ledger is numbered from 0 on.
Resolved(tables, s) ==
    \A t \in Names : \A row \in Mine(tables, t, s) : Cites(t, row) \subseteq Named(tables, s)

Ordered(tables, s) ==
    {row.data.seq : row \in Mine(tables, "ledger", s)} = 0..(LedgerLength(tables, s) - 1)

Linked(tables) == \A s \in Subjects : Resolved(tables, s) /\ Ordered(tables, s)

LEMMA MineByPosition ==
    ASSUME NEW tables, NEW t, NEW s, t # "anomalies"
    PROVE  Of(tables, t, s) = Mine(tables, t, s)
  BY DEF Of, Positions, Mine, Belongs, ToSet

LEMMA NamedRow ==
    ASSUME NEW tables, NEW s, NEW t \in Citable, NEW id
    PROVE  <<t, id>> \in Named(tables, s)
             <=> \E row \in Mine(tables, t, s) :
                    id = IF t = "ledger" THEN row.data.to ELSE row.id
<1>1. ASSUME <<t, id>> \in Named(tables, s)
      PROVE  \E row \in Mine(tables, t, s) :
                id = IF t = "ledger" THEN row.data.to ELSE row.id
  <2>0. PICK u \in Citable : \E row \in Mine(tables, u, s) : <<t, id>> = NameOf(u, row)
    BY <1>1 DEF Named
  <2>1. PICK row \in Mine(tables, u, s) : <<t, id>> = NameOf(u, row)
    BY <2>0
  <2>2. u = t /\ id = IF u = "ledger" THEN row.data.to ELSE row.id
    BY <2>1 DEF NameOf
  <2> QED BY <2>1, <2>2
<1>2. ASSUME NEW row \in Mine(tables, t, s),
             id = IF t = "ledger" THEN row.data.to ELSE row.id
      PROVE  <<t, id>> \in Named(tables, s)
  <2>1. <<t, id>> = NameOf(t, row)
    BY <1>2 DEF NameOf
  <2>2. NameOf(t, row) \in {NameOf(t, x) : x \in Mine(tables, t, s)}
    OBVIOUS
  <2> HIDE DEF Mine
  <2> QED BY <2>1, <2>2 DEF Named
<1> QED BY <1>1, <1>2

\* The table a citation leads to can be cited.
LEMMA CitedTables ==
    ASSUME NEW t, NEW row, NEW c \in Cites(t, row)
    PROVE  c = <<c[1], c[2]>> /\ c[1] \in Citable
<1>1. CASE t \in {"hypotheses", "predictions", "inquiries", "anomalies"}
  BY <1>1 DEF Cites, Citable
<1>2. CASE t = "ledger"
  BY <1>2 DEF Cites, Citable
<1>3. CASE t = "world_models"
  BY <1>3 DEF Cites, Citable
<1>4. CASE t = "current_pointer"
  BY <1>4 DEF Cites, Citable
<1>5. CASE t \notin {"hypotheses", "predictions", "inquiries", "anomalies", "ledger",
                     "world_models", "current_pointer"}
  <2>1. Cites(t, row) = {}
    BY <1>5 DEF Cites
  <2> QED BY <2>1
<1> QED BY <1>1, <1>2, <1>3, <1>4, <1>5

LEMMA InsertedAtEnd ==
    ASSUME NEW tables, Proper(tables), NEW t \in DOMAIN tables, t # "current_pointer",
           NEW row, NEW new, new = Inserted(tables, t, row)
    PROVE  /\ Len(new[t].rows) = Len(tables[t].rows) + 1
           /\ DOMAIN new[t].rows = 1..(Len(tables[t].rows) + 1)
           /\ \A i \in 1..Len(tables[t].rows) : new[t].rows[i] = tables[t].rows[i]
           /\ new[t].rows[Len(tables[t].rows) + 1] = row
<1> DEFINE old == tables[t].rows
           same == {i \in DOMAIN old : t = "current_pointer" /\ old[i].id = row.id}
<1>1. same = {}
  OBVIOUS
<1>2. PICK rows : rows = IF same = {} THEN Append(old, row)
                         ELSE [i \in DOMAIN old |-> IF i \in same THEN row ELSE old[i]]
  OBVIOUS
<1>3. new = [tables EXCEPT ![t].rows = rows]
  BY <1>2 DEF Inserted
<1>4. /\ tables = [u \in DOMAIN tables |-> tables[u]]
      /\ tables[t] = [cols |-> tables[t].cols, rows |-> old]
      /\ Len(old) \in Nat /\ Lists(old, Len(old))
  BY DEF Proper, ProperTable
<1>5. new[t].rows = rows
  BY <1>3, <1>4
<1>6. rows = Append(old, row)
  BY <1>1, <1>2
<1> HIDE DEF old, same
<1>7. PICK S : old \in Seq(S) /\ row \in S
  <2> DEFINE S == {old[i] : i \in 1..Len(old)} \cup {row}
  <2>1. \A i \in 1..Len(old) : old[i] \in S
    OBVIOUS
  <2>2. row \in S
    OBVIOUS
  <2> HIDE DEF S
  <2>3. old \in Seq(S)
    BY <1>4, <2>1 DEF Lists
  <2> QED BY <2>2, <2>3
<1>8. /\ rows \in Seq(S) /\ Len(rows) = Len(old) + 1
      /\ \A i \in 1..Len(old) : rows[i] = old[i]
      /\ rows[Len(old) + 1] = row
  BY <1>6, <1>7, AppendProperties
<1>9. DOMAIN rows = 1..(Len(old) + 1)
  BY <1>8
<1> QED BY <1>5, <1>8, <1>9 DEF old

\* What a write changes of a subject's rows.
LEMMA InsertedMine ==
    ASSUME NEW tables, Proper(tables), NEW t \in Names, t \in DOMAIN tables,
           NEW row, ProperRow(row), NEW new, new = Inserted(tables, t, row), NEW s
    PROVE  /\ \A u : u # t => Rows(new, u) = Rows(tables, u)
           /\ Mine(new, t, s) \subseteq Mine(tables, t, s) \cup {row}
           /\ t # "current_pointer" =>
                /\ Mine(tables, t, s) \subseteq Mine(new, t, s)
                /\ Belongs(t, row, s) => row \in Mine(new, t, s)
<1>1. /\ Proper(new) /\ DOMAIN new = DOMAIN tables
      /\ \A u \in DOMAIN tables : u # t => new[u] = tables[u]
      /\ \A i \in 1..Len(new[t].rows) :
            \/ /\ i \in 1..Len(tables[t].rows)
               /\ new[t].rows[i] = tables[t].rows[i]
            \/ new[t].rows[i] = row
  BY InsertedRow
<1>2. \A u : u # t => Rows(new, u) = Rows(tables, u)
  BY <1>1 DEF Rows
<1>3. Rows(new, t) = new[t].rows /\ Rows(tables, t) = tables[t].rows
  BY <1>1 DEF Rows
<1>4. /\ DOMAIN tables[t].rows = 1..Len(tables[t].rows)
      /\ DOMAIN new[t].rows = 1..Len(new[t].rows) /\ Len(tables[t].rows) \in Nat
  BY <1>1, <1>3, ProperRows
<1>5. Mine(new, t, s) \subseteq Mine(tables, t, s) \cup {row}
  <2> SUFFICES ASSUME NEW x \in Mine(new, t, s), x # row
               PROVE  x \in Mine(tables, t, s)
    OBVIOUS
  <2>1. x \in ToSet(new[t].rows) /\ Belongs(t, x, s)
    BY <1>3 DEF Mine
  <2>2. PICK i \in 1..Len(new[t].rows) : x = new[t].rows[i]
    BY <1>4, <2>1 DEF ToSet
  <2>3. i \in 1..Len(tables[t].rows) /\ x = tables[t].rows[i]
    BY <1>1, <2>2
  <2>4. x \in ToSet(tables[t].rows)
    BY <1>4, <2>3 DEF ToSet
  <2> QED BY <1>3, <2>1, <2>4 DEF Mine
<1>6. ASSUME t # "current_pointer"
      PROVE  ToSet(Rows(tables, t)) \cup {row} \subseteq ToSet(Rows(new, t))
  <2>1. /\ DOMAIN new[t].rows = 1..(Len(tables[t].rows) + 1)
        /\ \A i \in 1..Len(tables[t].rows) : new[t].rows[i] = tables[t].rows[i]
        /\ new[t].rows[Len(tables[t].rows) + 1] = row
    BY <1>6, InsertedAtEnd
  <2>2. Len(tables[t].rows) + 1 \in 1..(Len(tables[t].rows) + 1)
    BY <1>4
  <2>3. \A i \in 1..Len(tables[t].rows) : i \in 1..(Len(tables[t].rows) + 1)
    BY <1>4
  <2> QED BY <1>3, <1>4, <2>1, <2>2, <2>3 DEF ToSet
<1> QED BY <1>2, <1>5, <1>6 DEF Mine

LEMMA InsertedNamed ==
    ASSUME NEW tables, Proper(tables), NEW t \in Names, t \in DOMAIN tables,
           NEW row, ProperRow(row), NEW new, new = Inserted(tables, t, row), NEW s
    PROVE  /\ Named(tables, s) \subseteq Named(new, s)
           /\ t \in Citable /\ Belongs(t, row, s) => NameOf(t, row) \in Named(new, s)
<1>1. ASSUME NEW u \in Citable PROVE Mine(tables, u, s) \subseteq Mine(new, u, s)
  <2>1. u # "current_pointer"
    BY DEF Citable
  <2>2. CASE u = t
    BY <2>1, <2>2, InsertedMine
  <2>3. CASE u # t
    BY <2>3, InsertedMine DEF Mine
  <2> QED BY <2>2, <2>3
<1>2. ASSUME t \in Citable, Belongs(t, row, s) PROVE row \in Mine(new, t, s)
  BY <1>2, InsertedMine DEF Citable
<1> QED BY <1>1, <1>2 DEF Named

LEMMA InsertedResolved ==
    ASSUME NEW tables, Proper(tables), NEW t \in Names, t \in DOMAIN tables,
           NEW row, ProperRow(row), NEW new, new = Inserted(tables, t, row), NEW s,
           Resolved(tables, s), Belongs(t, row, s) => Cites(t, row) \subseteq Named(tables, s)
    PROVE  Resolved(new, s)
<1> SUFFICES ASSUME NEW u \in Names, NEW x \in Mine(new, u, s)
             PROVE  Cites(u, x) \subseteq Named(new, s)
  BY DEF Resolved
<1>1. Named(tables, s) \subseteq Named(new, s)
  BY InsertedNamed
<1>2. x \in Mine(tables, u, s) \/ (u = t /\ x = row)
  <2>1. CASE u = t
    BY <2>1, InsertedMine
  <2>2. CASE u # t
    BY <2>2, InsertedMine DEF Mine
  <2> QED BY <2>1, <2>2
<1>3. CASE x \in Mine(tables, u, s)
  BY <1>1, <1>3 DEF Resolved
<1>4. CASE u = t /\ x = row
  <2>1. Belongs(t, row, s)
    BY <1>4 DEF Mine
  <2> QED BY <1>1, <1>4, <2>1
<1> QED BY <1>2, <1>3, <1>4

LEMMA LedgerPositions ==
    ASSUME NEW tables, Proper(tables), NEW s
    PROVE  /\ IsFiniteSet(Positions(tables, "ledger", s))
           /\ LedgerLength(tables, s) \in Nat
           /\ Positions(tables, "ledger", s) \subseteq 1..Len(Rows(tables, "ledger"))
<1>1. /\ Len(Rows(tables, "ledger")) \in Nat
      /\ DOMAIN Rows(tables, "ledger") = 1..Len(Rows(tables, "ledger"))
  BY ProperRows
<1>2. Positions(tables, "ledger", s) \subseteq 1..Len(Rows(tables, "ledger"))
  BY <1>1 DEF Positions
<1>3. IsFiniteSet(1..Len(Rows(tables, "ledger")))
  BY <1>1, FS_Interval
<1>4. IsFiniteSet(Positions(tables, "ledger", s))
  BY <1>2, <1>3, FS_Subset
<1> QED BY <1>2, <1>4, FS_CardinalityType DEF LedgerLength

\* An entry is numbered by how many there are before it.
LEMMA InsertedOrdered ==
    ASSUME NEW tables, Proper(tables), NEW t \in Names, t \in DOMAIN tables,
           NEW row, ProperRow(row), NEW new, new = Inserted(tables, t, row), NEW s,
           Ordered(tables, s),
           t = "ledger" /\ Belongs(t, row, s) => row.data.seq = LedgerLength(tables, s)
    PROVE  /\ Ordered(new, s)
           /\ t # "ledger" => LedgerLength(new, s) = LedgerLength(tables, s)
<1>1. CASE t # "ledger"
  <2>1. Rows(new, "ledger") = Rows(tables, "ledger")
    BY <1>1, InsertedMine
  <2>2. /\ Mine(new, "ledger", s) = Mine(tables, "ledger", s)
        /\ LedgerLength(new, s) = LedgerLength(tables, s)
    BY <2>1 DEF Mine, LedgerLength, Positions
  <2> QED BY <1>1, <2>2 DEF Ordered
<1>2. CASE t = "ledger" /\ ~Belongs(t, row, s)
  <2> DEFINE m == Len(tables[t].rows)
  <2>1. /\ Rows(new, "ledger") = new[t].rows /\ Rows(tables, "ledger") = tables[t].rows
        /\ m \in Nat
    BY <1>2, InsertedRow, ProperRows DEF Rows
  <2>2. /\ DOMAIN new[t].rows = 1..(m + 1) /\ DOMAIN tables[t].rows = 1..m
        /\ \A i \in 1..m : new[t].rows[i] = tables[t].rows[i]
        /\ new[t].rows[m + 1] = row
    BY <1>2, <2>1, InsertedAtEnd, ProperRows
  <2>3. ~(row.owner = s /\ row.space = Space)
    BY <1>2 DEF Belongs
  <2> HIDE DEF m
  <2>4. \A i : i \in 1..(m + 1) <=> i \in 1..m \/ i = m + 1
    BY <2>1
  <2>5. Positions(new, "ledger", s) = Positions(tables, "ledger", s)
    BY <2>1, <2>2, <2>3, <2>4 DEF Positions
  <2>6. Mine(new, "ledger", s) = Mine(tables, "ledger", s)
    <3>1. /\ Mine(new, "ledger", s) \subseteq Mine(tables, "ledger", s) \cup {row}
          /\ Mine(tables, "ledger", s) \subseteq Mine(new, "ledger", s)
      BY <1>2, InsertedMine
    <3>2. row \notin Mine(new, "ledger", s)
      BY <1>2 DEF Mine
    <3> QED BY <3>1, <3>2
  <2> QED BY <1>2, <2>5, <2>6 DEF Ordered, LedgerLength
<1>3. CASE t = "ledger" /\ Belongs(t, row, s)
  <2> DEFINE m == Len(tables[t].rows)
  <2>1. /\ Rows(new, "ledger") = new[t].rows /\ Rows(tables, "ledger") = tables[t].rows
        /\ m \in Nat
    BY <1>3, InsertedRow, ProperRows DEF Rows
  <2>2. /\ DOMAIN new[t].rows = 1..(m + 1) /\ DOMAIN tables[t].rows = 1..m
        /\ \A i \in 1..m : new[t].rows[i] = tables[t].rows[i]
        /\ new[t].rows[m + 1] = row
    BY <1>3, <2>1, InsertedAtEnd, ProperRows
  <2>3. row.owner = s /\ row.space = Space
    BY <1>3 DEF Belongs
  <2> HIDE DEF m
  <2>4. \A i : i \in 1..(m + 1) <=> i \in 1..m \/ i = m + 1
    BY <2>1
  <2>5. Positions(new, "ledger", s) = Positions(tables, "ledger", s) \cup {m + 1}
    BY <2>1, <2>2, <2>3, <2>4 DEF Positions
  <2>6. Mine(new, "ledger", s) = Mine(tables, "ledger", s) \cup {row}
    BY <1>3, InsertedMine
  <2>7. LedgerLength(new, s) = LedgerLength(tables, s) + 1
    <3>1. m + 1 \notin Positions(tables, "ledger", s)
      BY <2>1, <2>2, LedgerPositions DEF Positions
    <3>2. IsFiniteSet(Positions(tables, "ledger", s))
      BY LedgerPositions
    <3>3. Cardinality(Positions(tables, "ledger", s) \cup {m + 1})
            = Cardinality(Positions(tables, "ledger", s)) + 1
      BY <3>1, <3>2, FS_AddElement
    <3> QED BY <2>5, <3>3 DEF LedgerLength
  <2>8. PICK n \in Nat : n = LedgerLength(tables, s)
    BY LedgerPositions
  <2>9. {x.data.seq : x \in Mine(tables, "ledger", s)} = 0..(n - 1)
    BY <2>8 DEF Ordered
  <2>10. row.data.seq = n
    BY <1>3, <2>8
  <2>11. {x.data.seq : x \in Mine(new, "ledger", s)}
           = {x.data.seq : x \in Mine(tables, "ledger", s)} \cup {row.data.seq}
    BY <2>6
  <2>12. (0..(n - 1)) \cup {n} = 0..((n + 1) - 1)
    OBVIOUS
  <2>13. {x.data.seq : x \in Mine(new, "ledger", s)} = 0..((n + 1) - 1)
    BY <2>9, <2>10, <2>11, <2>12
  <2> QED BY <1>3, <2>7, <2>8, <2>13 DEF Ordered
<1> QED BY <1>1, <1>2, <1>3

----------------------------------------------------------------------------
\* What a plan has yet to write: rows of one subject that cite what is there or
\* what comes before them, and at most one entry of the ledger.
Bestowed(writes, n) ==
    {NameOf(writes[j].table, writes[j].row) :
       j \in {i \in 1..n : writes[i].table \in Citable}}

ForSubject(s, writes) ==
    \A k \in 1..Len(writes) : /\ writes[k].row.writer = s /\ writes[k].row.owner = s
                              /\ writes[k].row.space = Space

Chained(names, writes) ==
    \A k \in 1..Len(writes) :
        Cites(writes[k].table, writes[k].row) \subseteq names \cup Bestowed(writes, k - 1)

Entered(n, writes) ==
    \A k \in 1..Len(writes) : writes[k].table = "ledger" =>
        /\ writes[k].row.data.seq = n
        /\ \A j \in 1..Len(writes) : writes[j].table = "ledger" => j = k

InOrder(tables, writes) ==
    \E s \in Subjects : /\ ForSubject(s, writes)
                        /\ Chained(Named(tables, s), writes)
                        /\ Entered(LedgerLength(tables, s), writes)

LEMMA WrittenInOrder ==
    ASSUME NEW tables, Proper(tables), Linked(tables), NEW old,
           NEW writes, InOrder(tables, writes), Len(writes) \in Nat \ {0},
           GoodWrite(old, writes[1]), writes[1].table \in DOMAIN tables,
           NEW rest, Len(rest) = Len(writes) - 1,
           \A i \in 1..Len(rest) : rest[i] = writes[i + 1],
           NEW new, new = Inserted(tables, writes[1].table, writes[1].row)
    PROVE  Linked(new) /\ InOrder(new, rest)
<1>1. PICK t, row : t = writes[1].table /\ row = writes[1].row
  OBVIOUS
<1>2. /\ t \in Names /\ t \in DOMAIN tables /\ ProperRow(row)
      /\ new = Inserted(tables, t, row)
  BY <1>1 DEF GoodWrite
<1>3. PICK s \in Subjects : /\ ForSubject(s, writes)
                            /\ Chained(Named(tables, s), writes)
                            /\ Entered(LedgerLength(tables, s), writes)
  BY DEF InOrder
<1>4. 1 \in 1..Len(writes)
  OBVIOUS
<1>5. row.writer = s /\ row.owner = s /\ row.space = Space /\ Belongs(t, row, s)
  BY <1>1, <1>3, <1>4 DEF ForSubject, Belongs
<1>6. Cites(t, row) \subseteq Named(tables, s)
  <2>1. Bestowed(writes, 1 - 1) = {}
    BY DEF Bestowed
  <2>2. Cites(t, row) \subseteq Named(tables, s) \cup Bestowed(writes, 1 - 1)
    BY <1>1, <1>3, <1>4 DEF Chained
  <2> QED BY <2>1, <2>2
<1>7. t = "ledger" => row.data.seq = LedgerLength(tables, s)
  BY <1>1, <1>3, <1>4 DEF Entered
<1>8. ASSUME NEW x \in Subjects PROVE Resolved(new, x) /\ Ordered(new, x)
  <2>1. Belongs(t, row, x) => x = s
    BY <1>5 DEF Belongs
  <2>2. Resolved(tables, x) /\ Ordered(tables, x)
    BY DEF Linked
  <2>3. /\ Belongs(t, row, x) => Cites(t, row) \subseteq Named(tables, x)
        /\ t = "ledger" /\ Belongs(t, row, x) => row.data.seq = LedgerLength(tables, x)
    BY <1>6, <1>7, <2>1
  <2> QED BY <1>2, <2>2, <2>3, InsertedResolved, InsertedOrdered
<1>9. /\ Named(tables, s) \subseteq Named(new, s)
      /\ t \in Citable => NameOf(t, row) \in Named(new, s)
  BY <1>2, <1>5, InsertedNamed
<1>10. t # "ledger" => LedgerLength(new, s) = LedgerLength(tables, s)
  <2>1. Ordered(tables, s)
    BY DEF Linked
  <2> QED BY <1>2, <1>7, <2>1, InsertedOrdered
<1>11. \A i \in 1..Len(rest) : i + 1 \in 1..Len(writes) /\ rest[i] = writes[i + 1]
  OBVIOUS
<1>12. ForSubject(s, rest)
  BY <1>3, <1>11 DEF ForSubject
<1>13. Chained(Named(new, s), rest)
  <2> SUFFICES ASSUME NEW k \in 1..Len(rest), NEW c \in Cites(rest[k].table, rest[k].row)
               PROVE  c \in Named(new, s) \cup Bestowed(rest, k - 1)
    BY DEF Chained
  <2>1. c \in Named(tables, s) \cup Bestowed(writes, k)
    <3>1. k + 1 \in 1..Len(writes) /\ rest[k] = writes[k + 1] /\ (k + 1) - 1 = k
      BY <1>11
    <3>2. c \in Cites(writes[k + 1].table, writes[k + 1].row)
      BY <3>1
    <3> QED BY <1>3, <3>1, <3>2 DEF Chained
  <2>2. CASE c \in Named(tables, s)
    BY <1>9, <2>2
  <2>3. CASE c \in Bestowed(writes, k)
    <3>1. PICK j \in 1..k : /\ writes[j].table \in Citable
                            /\ c = NameOf(writes[j].table, writes[j].row)
      BY <2>3 DEF Bestowed
    <3>2. CASE j = 1
      BY <1>1, <1>9, <3>1, <3>2
    <3>3. CASE j # 1
      <4>1. j - 1 \in 1..(k - 1) /\ j - 1 \in 1..Len(rest) /\ (j - 1) + 1 = j
        BY <3>3
      <4>2. rest[j - 1] = writes[j]
        BY <1>11, <4>1
      <4> QED BY <3>1, <4>1, <4>2 DEF Bestowed
    <3> QED BY <3>2, <3>3
  <2> QED BY <2>1, <2>2, <2>3
<1>14. Entered(LedgerLength(new, s), rest)
  <2> SUFFICES ASSUME NEW k \in 1..Len(rest), rest[k].table = "ledger"
               PROVE  /\ rest[k].row.data.seq = LedgerLength(new, s)
                      /\ \A j \in 1..Len(rest) : rest[j].table = "ledger" => j = k
    BY DEF Entered
  <2>1. k + 1 \in 1..Len(writes) /\ writes[k + 1].table = "ledger" /\ k + 1 # 1
    BY <1>11
  <2>2. /\ writes[k + 1].row.data.seq = LedgerLength(tables, s)
        /\ \A j \in 1..Len(writes) : writes[j].table = "ledger" => j = k + 1
    BY <1>3, <2>1 DEF Entered
  <2>3. t # "ledger"
    BY <1>1, <1>4, <2>1, <2>2
  <2>4. \A j \in 1..Len(rest) : rest[j].table = "ledger" => j = k
    <3> SUFFICES ASSUME NEW j \in 1..Len(rest), rest[j].table = "ledger" PROVE j = k
      OBVIOUS
    <3>1. j + 1 \in 1..Len(writes) /\ writes[j + 1].table = "ledger"
      BY <1>11
    <3>2. j + 1 = k + 1
      BY <2>2, <3>1
    <3> QED BY <3>2
  <2> QED BY <1>10, <1>11, <2>2, <2>3, <2>4
<1>15. InOrder(new, rest)
  BY <1>12, <1>13, <1>14 DEF InOrder
<1> QED BY <1>8, <1>15 DEF Linked

\* A stretch of a plan for s that may cite `names` and after which `known` may be
\* cited.
Stretch(s, names, writes, known) ==
    /\ Len(writes) \in Nat /\ Lists(writes, Len(writes))
    /\ ForSubject(s, writes) /\ Chained(names, writes)
    /\ known \subseteq names \cup Bestowed(writes, Len(writes))

NoEntry(writes) == \A k \in 1..Len(writes) : writes[k].table # "ledger"

LEMMA StretchesJoined ==
    ASSUME NEW s, NEW names, NEW a, NEW known, Stretch(s, names, a, known),
           NEW b, NEW later, Stretch(s, known, b, later)
    PROVE  /\ Stretch(s, names, a \o b, later)
           /\ NoEntry(a) /\ NoEntry(b) => NoEntry(a \o b)
           /\ NoEntry(a) => \A n : Entered(n, b) => Entered(n, a \o b)
           /\ NoEntry(b) => \A n : Entered(n, a) => Entered(n, a \o b)
<1>1. PICK u : Joins(u, a, b)
  BY DEF Joins
<1>2. PICK l \in Nat, m \in Nat : l = Len(a) /\ m = Len(b)
  BY DEF Stretch
<1>3. /\ Len(u) = l + m /\ Lists(u, l + m)
      /\ \A i \in 1..l : u[i] = a[i]
      /\ \A i \in 1..m : u[l + i] = b[i]
  <2>1. Lists(a, l) /\ Lists(b, m)
    BY <1>2 DEF Stretch
  <2>2. /\ Lists(u, l + m)
        /\ \A i \in 1..l : u[i] = a[i]
        /\ \A i \in 1..m : u[l + i] = b[i]
    BY <1>1, <1>2, <2>1, Joined
  <2>3. \A n \in Nat : Lists(u, n) => Len(u) = n
    BY DEF Lists
  <2> QED BY <2>2, <2>3
<1>4. \A k \in 1..(l + m) : k \in 1..l \/ (k - l \in 1..m /\ k = l + (k - l))
  OBVIOUS
<1>5. \A k \in 1..(l + m) : IF k \in 1..l THEN u[k] = a[k] ELSE u[k] = b[k - l]
  BY <1>3, <1>4
<1>6. ForSubject(s, u)
  BY <1>2, <1>3, <1>4, <1>5 DEF Stretch, ForSubject
<1>7. ASSUME NEW k \in 0..m PROVE Bestowed(a, l) \cup Bestowed(b, k) \subseteq Bestowed(u, l + k)
  <2>1. ASSUME NEW j \in 1..l, a[j].table \in Citable
        PROVE  NameOf(a[j].table, a[j].row) \in Bestowed(u, l + k)
    <3>1. j \in 1..(l + k) /\ u[j] = a[j]
      BY <1>3
    <3> QED BY <2>1, <3>1 DEF Bestowed
  <2>2. ASSUME NEW j \in 1..k, b[j].table \in Citable
        PROVE  NameOf(b[j].table, b[j].row) \in Bestowed(u, l + k)
    <3>1. l + j \in 1..(l + k) /\ u[l + j] = b[j]
      BY <1>3
    <3> QED BY <2>2, <3>1 DEF Bestowed
  <2> QED BY <2>1, <2>2 DEF Bestowed
<1>8. known \subseteq names \cup Bestowed(a, l)
  BY <1>2 DEF Stretch
<1>9. Chained(names, u)
  <2> SUFFICES ASSUME NEW k \in 1..(l + m)
               PROVE  Cites(u[k].table, u[k].row) \subseteq names \cup Bestowed(u, k - 1)
    BY <1>3 DEF Chained
  <2>1. CASE k \in 1..l
    <3>1. Bestowed(u, k - 1) = Bestowed(a, k - 1)
      <4>1. \A j \in 1..(k - 1) : u[j] = a[j]
        BY <1>3, <2>1
      <4> QED BY <4>1 DEF Bestowed
    <3> QED BY <1>2, <1>3, <2>1, <3>1 DEF Stretch, Chained
  <2>2. CASE k \notin 1..l
    <3>1. PICK j \in 1..m : k = l + j
      BY <1>4, <2>2
    <3>2. Cites(b[j].table, b[j].row) \subseteq known \cup Bestowed(b, j - 1)
      BY <1>2 DEF Stretch, Chained
    <3>3. j - 1 \in 0..m /\ l + (j - 1) = k - 1
      BY <3>1
    <3>4. Bestowed(a, l) \cup Bestowed(b, j - 1) \subseteq Bestowed(u, k - 1)
      BY <1>7, <3>3
    <3> QED BY <1>3, <1>8, <3>1, <3>2, <3>4
  <2> QED BY <2>1, <2>2
<1>10. later \subseteq names \cup Bestowed(u, l + m)
  <2>1. later \subseteq known \cup Bestowed(b, m)
    BY <1>2 DEF Stretch
  <2>2. Bestowed(a, l) \cup Bestowed(b, m) \subseteq Bestowed(u, l + m)
    BY <1>7
  <2> QED BY <1>8, <2>1, <2>2
<1>11. Stretch(s, names, u, later)
  BY <1>3, <1>6, <1>9, <1>10 DEF Stretch
<1>12. NoEntry(a) /\ NoEntry(b) => NoEntry(u)
  BY <1>2, <1>3, <1>4, <1>5 DEF NoEntry
<1>13. ASSUME NEW n, NoEntry(a), Entered(n, b) PROVE Entered(n, u)
  <2>1. ASSUME NEW k \in 1..(l + m), u[k].table = "ledger"
        PROVE  k - l \in 1..m /\ b[k - l].table = "ledger" /\ u[k] = b[k - l]
    BY <1>2, <1>4, <1>5, <1>13, <2>1 DEF NoEntry
  <2> SUFFICES ASSUME NEW k \in 1..(l + m), u[k].table = "ledger"
               PROVE  /\ u[k].row.data.seq = n
                      /\ \A j \in 1..(l + m) : u[j].table = "ledger" => j = k
    BY <1>3 DEF Entered
  <2>2. /\ b[k - l].row.data.seq = n
        /\ \A j \in 1..m : b[j].table = "ledger" => j = k - l
    BY <1>2, <1>13, <2>1 DEF Entered
  <2>3. ASSUME NEW j \in 1..(l + m), u[j].table = "ledger" PROVE j = k
    <3>1. j - l = k - l
      BY <2>1, <2>2, <2>3
    <3> QED BY <3>1
  <2> QED BY <2>1, <2>2, <2>3
<1>14. ASSUME NEW n, NoEntry(b), Entered(n, a) PROVE Entered(n, u)
  <2>1. ASSUME NEW k \in 1..(l + m), u[k].table = "ledger"
        PROVE  k \in 1..l /\ a[k].table = "ledger" /\ u[k] = a[k]
    BY <1>2, <1>4, <1>5, <1>14, <2>1 DEF NoEntry
  <2> QED BY <1>2, <1>3, <1>14, <2>1 DEF Entered
<1> QED BY <1>1, <1>11, <1>12, <1>13, <1>14 DEF Joins

LEMMA NoStretch ==
    ASSUME NEW s, NEW names
    PROVE  Stretch(s, names, <<>>, names) /\ NoEntry(<<>>)
<1>1. PICK u : u = <<>>
  OBVIOUS
<1>2. Len(u) = 0 /\ Lists(u, 0)
  BY <1>1 DEF Lists
<1>3. Stretch(s, names, u, names) /\ NoEntry(u)
  BY <1>2 DEF Stretch, ForSubject, Chained, NoEntry
<1> QED BY <1>1, <1>3

\* What a write lets the next ones cite.
Mark(write) ==
    IF write.table \in Citable THEN {NameOf(write.table, write.row)} ELSE {}

Own(s, write) == /\ write.row.writer = s /\ write.row.owner = s
                 /\ write.row.space = Space

LEMMA OneStretch ==
    ASSUME NEW s, NEW names, NEW a, Own(s, a), Cites(a.table, a.row) \subseteq names
    PROVE  /\ Stretch(s, names, <<a>>, names \cup Mark(a))
           /\ a.table # "ledger" => NoEntry(<<a>>)
<1>1. PICK u : u = <<a>>
  OBVIOUS
<1>2. Len(u) = 1 /\ u[1] = a /\ Lists(u, 1)
  BY <1>1 DEF Lists
<1>3. ForSubject(s, u) /\ Chained(names, u)
  BY <1>2 DEF ForSubject, Own, Chained
<1>4. Mark(a) \subseteq Bestowed(u, 1)
  BY <1>2 DEF Mark, Bestowed
<1>5. Stretch(s, names, u, names \cup Mark(a))
  BY <1>2, <1>3, <1>4 DEF Stretch
<1>6. a.table # "ledger" => NoEntry(u)
  BY <1>2 DEF NoEntry
<1> QED BY <1>1, <1>5, <1>6

LEMMA ThreeStretch ==
    ASSUME NEW s, NEW names, NEW a, Own(s, a), NEW b, Own(s, b), NEW c, Own(s, c),
           Cites(a.table, a.row) \subseteq names,
           Cites(b.table, b.row) \subseteq names \cup Mark(a),
           Cites(c.table, c.row) \subseteq names \cup Mark(a) \cup Mark(b)
    PROVE  /\ Stretch(s, names, <<a, b, c>>, names \cup Mark(a) \cup Mark(b) \cup Mark(c))
           /\ "ledger" \notin {a.table, b.table, c.table} => NoEntry(<<a, b, c>>)
           /\ a.table # "ledger" /\ c.table # "ledger"
                => \A n : b.row.data.seq = n => Entered(n, <<a, b, c>>)
<1>1. PICK u : u = <<a, b, c>>
  OBVIOUS
<1>2. Len(u) = 3 /\ u[1] = a /\ u[2] = b /\ u[3] = c /\ Lists(u, 3)
  BY <1>1 DEF Lists
<1>3. ForSubject(s, u)
  BY <1>2 DEF ForSubject, Own
<1>4. /\ Bestowed(u, 0) = {} /\ Mark(a) \subseteq Bestowed(u, 1)
      /\ Mark(a) \cup Mark(b) \subseteq Bestowed(u, 2)
      /\ Mark(a) \cup Mark(b) \cup Mark(c) \subseteq Bestowed(u, 3)
  BY <1>2 DEF Mark, Bestowed
<1>5. Chained(names, u)
  <2> SUFFICES ASSUME NEW k \in 1..3
               PROVE  Cites(u[k].table, u[k].row) \subseteq names \cup Bestowed(u, k - 1)
    BY <1>2 DEF Chained
  <2>1. CASE k = 1
    BY <1>2, <1>4, <2>1
  <2>2. CASE k = 2
    BY <1>2, <1>4, <2>2
  <2>3. CASE k = 3
    BY <1>2, <1>4, <2>3
  <2> QED BY <2>1, <2>2, <2>3
<1>6. Stretch(s, names, u, names \cup Mark(a) \cup Mark(b) \cup Mark(c))
  BY <1>2, <1>3, <1>4, <1>5 DEF Stretch
<1>7. "ledger" \notin {a.table, b.table, c.table} => NoEntry(u)
  BY <1>2 DEF NoEntry
<1>8. a.table # "ledger" /\ c.table # "ledger"
        => \A n : b.row.data.seq = n => Entered(n, u)
  BY <1>2 DEF Entered
<1> QED BY <1>1, <1>6, <1>7, <1>8

LEMMA OwnWrite ==
    ASSUME NEW s, NEW t, NEW id, NEW data, NEW w, w = Write(t, Row(s, id, data))
    PROVE  Own(s, w) /\ w.table = t /\ w.row.id = id /\ w.row.data = data
<1>1. PICK row : row = Row(s, id, data)
  OBVIOUS
<1>2. /\ row.writer = s /\ row.owner = s /\ row.space = Space
      /\ row.id = id /\ row.data = data
  BY <1>1 DEF Row
<1>3. w.table = t /\ w.row = row
  BY <1>1 DEF Write
<1> QED BY <1>2, <1>3 DEF Own

\* What the queries find can be cited.
LEMMA HeldNamed ==
    ASSUME NEW tables, NEW s, Resolved(tables, s)
    PROVE  /\ DOMAIN HypothesesOf(tables, s) = Ids(Of(tables, "hypotheses", s))
           /\ ActiveHypotheses(tables, s) \subseteq DOMAIN HypothesesOf(tables, s)
           /\ \A h \in DOMAIN HypothesesOf(tables, s) :
                 <<"hypotheses", h>> \in Named(tables, s)
           /\ CurrentPointer(tables, s) # 0 =>
                 /\ <<"ledger", CurrentPointer(tables, s)>> \in Named(tables, s)
                 /\ <<"world_models", CurrentPointer(tables, s)>> \in Named(tables, s)
<1>1. DOMAIN HypothesesOf(tables, s) = Ids(Of(tables, "hypotheses", s))
  BY DEF HypothesesOf, LatestPerId
<1>2. ActiveHypotheses(tables, s) \subseteq DOMAIN HypothesesOf(tables, s)
  BY DEF ActiveHypotheses
<1>3. ASSUME NEW h \in Ids(Of(tables, "hypotheses", s))
      PROVE  <<"hypotheses", h>> \in Named(tables, s)
  <2>1. PICK row \in Mine(tables, "hypotheses", s) : h = row.id
    BY MineByPosition DEF Ids
  <2>2. "hypotheses" \in Citable
    BY DEF Citable
  <2> QED BY <2>1, <2>2, NamedRow
<1>4. ASSUME CurrentPointer(tables, s) # 0
      PROVE  /\ <<"ledger", CurrentPointer(tables, s)>> \in Named(tables, s)
             /\ <<"world_models", CurrentPointer(tables, s)>> \in Named(tables, s)
  <2>1. PICK row \in Of(tables, "current_pointer", s) :
           CurrentPointer(tables, s) = row.data
    BY <1>4 DEF CurrentPointer, Only
  <2>2. row \in Mine(tables, "current_pointer", s) /\ "current_pointer" \in Names
    BY <2>1, MineByPosition DEF Names
  <2>3. Cites("current_pointer", row) \subseteq Named(tables, s)
    BY <2>2 DEF Resolved
  <2>4. Cites("current_pointer", row) = {<<"world_models", row.data>>, <<"ledger", row.data>>}
    BY DEF Cites
  <2> QED BY <2>1, <2>3, <2>4
<1> QED BY <1>1, <1>2, <1>3, <1>4

\* The evidence comes first, and may be cited from then on.
LEMMA HeldStretch ==
    ASSUME NEW s, NEW n, NEW names
    PROVE  /\ Stretch(s, names, Held(s, n), names \cup {<<"evidence", n>>})
           /\ NoEntry(Held(s, n))
<1>1. PICK a : a = Write("evidence", Row(s, n, {}))
  OBVIOUS
<1>2. Own(s, a) /\ a.table = "evidence" /\ a.row.id = n
  BY <1>1, OwnWrite
<1>3. Cites(a.table, a.row) = {} /\ Mark(a) = {<<"evidence", n>>}
  BY <1>2 DEF Cites, Mark, NameOf, Citable
<1> QED BY <1>1, <1>2, <1>3, OneStretch DEF Held

LEMMA AnomalyStretch ==
    ASSUME NEW s, NEW n, NEW names, <<"evidence", n>> \in names
    PROVE  /\ Stretch(s, names, <<Write("anomalies", Row(s, n, n))>>, names)
           /\ NoEntry(<<Write("anomalies", Row(s, n, n))>>)
<1>1. PICK a : a = Write("anomalies", Row(s, n, n))
  OBVIOUS
<1>2. Own(s, a) /\ a.table = "anomalies" /\ a.row.data = n
  BY <1>1, OwnWrite
<1>3. Cites(a.table, a.row) \subseteq names /\ names \cup Mark(a) = names
  BY <1>2 DEF Cites, Mark, Citable
<1> QED BY <1>1, <1>2, <1>3, OneStretch

LEMMA ChangeStretch ==
    ASSUME NEW s, NEW n, NEW h, NEW event, event.to = n, event.evidence = {n},
           event.affected = h, NEW names, <<"evidence", n>> \in names,
           event.from # 0 => <<"ledger", event.from>> \in names,
           NEW change, change = <<Write("hypotheses", Row(s, h, {n})),
                                  Write("ledger", Row(s, n, event)),
                                  Write("dependencies", Row(s, n, h))>>
    PROVE  /\ Stretch(s, names, change, names \cup {<<"hypotheses", h>>, <<"ledger", n>>})
           /\ Entered(event.seq, change)
<1>1. PICK a : a = Write("hypotheses", Row(s, h, {n}))
  OBVIOUS
<1>2. PICK b : b = Write("ledger", Row(s, n, event))
  OBVIOUS
<1>3. PICK c : c = Write("dependencies", Row(s, n, h))
  OBVIOUS
<1>4. /\ Own(s, a) /\ a.table = "hypotheses" /\ a.row.id = h /\ a.row.data = {n}
      /\ Own(s, b) /\ b.table = "ledger" /\ b.row.data = event
      /\ Own(s, c) /\ c.table = "dependencies"
  BY <1>1, <1>2, <1>3, OwnWrite
<1>5. /\ Cites(a.table, a.row) = {"evidence"} \X {n}
      /\ Cites(b.table, b.row) = ({"evidence"} \X {n})
            \cup ({"ledger"} \X ({event.from} \ {0})) \cup {<<"hypotheses", h>>}
      /\ Cites(c.table, c.row) = {}
  BY <1>4 DEF Cites
<1>6. /\ Mark(a) = {<<"hypotheses", h>>} /\ Mark(b) = {<<"ledger", n>>} /\ Mark(c) = {}
  BY <1>4 DEF Mark, NameOf, Citable
<1>7. /\ Cites(a.table, a.row) \subseteq names
      /\ Cites(b.table, b.row) \subseteq names \cup Mark(a)
      /\ Cites(c.table, c.row) \subseteq names \cup Mark(a) \cup Mark(b)
  BY <1>5, <1>6
<1>8. /\ Stretch(s, names, <<a, b, c>>, names \cup Mark(a) \cup Mark(b) \cup Mark(c))
      /\ \A m : b.row.data.seq = m => Entered(m, <<a, b, c>>)
  BY <1>4, <1>7, ThreeStretch
<1>9. names \cup Mark(a) \cup Mark(b) \cup Mark(c)
        = names \cup {<<"hypotheses", h>>, <<"ledger", n>>}
  BY <1>6
<1> QED BY <1>1, <1>2, <1>3, <1>4, <1>8, <1>9

LEMMA PredictionStretch ==
    ASSUME NEW s, NEW n, NEW h, NEW foreseen \in {{}, {n}},
           NEW names, <<"hypotheses", h>> \in names, NEW writes,
           writes = IF foreseen # {} THEN <<Write("predictions", Row(s, n, h))>> ELSE <<>>
    PROVE  /\ Stretch(s, names, writes, names \cup ({"predictions"} \X foreseen))
           /\ NoEntry(writes)
<1>1. PICK a : a = Write("predictions", Row(s, n, h))
  OBVIOUS
<1>2. Own(s, a) /\ a.table = "predictions" /\ a.row.data = h /\ a.row.id = n
  BY <1>1, OwnWrite
<1>3. Cites(a.table, a.row) \subseteq names /\ Mark(a) = {"predictions"} \X {n}
  BY <1>2 DEF Cites, Mark, NameOf, Citable
<1>4. /\ Stretch(s, names, <<a>>, names \cup ({"predictions"} \X {n})) /\ NoEntry(<<a>>)
  BY <1>2, <1>3, OneStretch
<1>5. CASE foreseen = {}
  <2>1. names \cup ({"predictions"} \X foreseen) = names
    BY <1>5
  <2> QED BY <1>5, <2>1, NoStretch
<1>6. CASE foreseen = {n}
  BY <1>1, <1>4, <1>6
<1> QED BY <1>5, <1>6

LEMMA InquiryStretch ==
    ASSUME NEW s, NEW n, NEW asked \in {{}, {n}},
           NEW names, <<"ledger", n>> \in names, NEW writes,
           writes = IF asked # {} THEN <<Write("inquiries", Row(s, n, n))>> ELSE <<>>
    PROVE  /\ Stretch(s, names, writes, names \cup ({"inquiries"} \X asked))
           /\ NoEntry(writes)
<1>1. PICK a : a = Write("inquiries", Row(s, n, n))
  OBVIOUS
<1>2. Own(s, a) /\ a.table = "inquiries" /\ a.row.data = n /\ a.row.id = n
  BY <1>1, OwnWrite
<1>3. Cites(a.table, a.row) \subseteq names /\ Mark(a) = {"inquiries"} \X {n}
  BY <1>2 DEF Cites, Mark, NameOf, Citable
<1>4. /\ Stretch(s, names, <<a>>, names \cup ({"inquiries"} \X {n})) /\ NoEntry(<<a>>)
  BY <1>2, <1>3, OneStretch
<1>5. CASE asked = {}
  <2>1. names \cup ({"inquiries"} \X asked) = names
    BY <1>5
  <2> QED BY <1>5, <2>1, NoStretch
<1>6. CASE asked = {n}
  BY <1>1, <1>4, <1>6
<1> QED BY <1>5, <1>6

\* The version names what is held by then, and the pointer comes last.
LEMMA VersionStretch ==
    ASSUME NEW s, NEW n, NEW model, NEW names, <<"ledger", n>> \in names,
           {"hypotheses"} \X model.hypotheses \subseteq names,
           {"predictions"} \X model.predictions \subseteq names,
           {"inquiries"} \X model.inquiries \subseteq names, NEW version,
           version = <<Write("provenance", Row(s, n, {n})),
                       Write("world_models", Row(s, n, model)),
                       Write("current_pointer", Row(s, s, n))>>
    PROVE  /\ Stretch(s, names, version, names)
           /\ NoEntry(version)
<1>1. PICK a : a = Write("provenance", Row(s, n, {n}))
  OBVIOUS
<1>2. PICK b : b = Write("world_models", Row(s, n, model))
  OBVIOUS
<1>3. PICK c : c = Write("current_pointer", Row(s, s, n))
  OBVIOUS
<1>4. /\ Own(s, a) /\ a.table = "provenance"
      /\ Own(s, b) /\ b.table = "world_models" /\ b.row.id = n /\ b.row.data = model
      /\ Own(s, c) /\ c.table = "current_pointer" /\ c.row.data = n
  BY <1>1, <1>2, <1>3, OwnWrite
<1>5. /\ Cites(a.table, a.row) = {}
      /\ Cites(b.table, b.row) = ({"hypotheses"} \X model.hypotheses)
            \cup ({"predictions"} \X model.predictions)
            \cup ({"inquiries"} \X model.inquiries)
      /\ Cites(c.table, c.row) = {<<"world_models", n>>, <<"ledger", n>>}
  BY <1>4 DEF Cites
<1>6. Mark(b) = {<<"world_models", n>>}
  BY <1>4 DEF Mark, NameOf, Citable
<1>7. /\ Cites(a.table, a.row) \subseteq names
      /\ Cites(b.table, b.row) \subseteq names \cup Mark(a)
      /\ Cites(c.table, c.row) \subseteq names \cup Mark(a) \cup Mark(b)
  BY <1>5, <1>6
<1>8. /\ Stretch(s, names, <<a, b, c>>, names \cup Mark(a) \cup Mark(b) \cup Mark(c))
      /\ NoEntry(<<a, b, c>>)
  BY <1>4, <1>7, ThreeStretch
<1>9. Stretch(s, names, <<a, b, c>>, names)
  BY <1>8 DEF Stretch
<1> QED BY <1>1, <1>2, <1>3, <1>8, <1>9

LEMMA StretchInOrder ==
    ASSUME NEW tables, NEW s \in Subjects, NEW writes, NEW known,
           Stretch(s, Named(tables, s), writes, known),
           Entered(LedgerLength(tables, s), writes)
    PROVE  InOrder(tables, writes)
  BY DEF Stretch, InOrder

LEMMA NothingEntered ==
    ASSUME NEW writes, NoEntry(writes), NEW n
    PROVE  Entered(n, writes)
  BY DEF NoEntry, Entered

LEMMA HeldInOrder ==
    ASSUME NEW s \in Subjects, NEW n
    PROVE  InOrder(live, Held(s, n)) /\ InOrder(live, HeldWithAnomaly(s, n))
<1>1. PICK names, known : names = Named(live, s) /\ known = names \cup {<<"evidence", n>>}
  OBVIOUS
<1>2. PICK odd : odd = <<Write("anomalies", Row(s, n, n))>>
  OBVIOUS
<1>3. Stretch(s, names, Held(s, n), known) /\ NoEntry(Held(s, n))
  BY <1>1, HeldStretch
<1>4. Stretch(s, known, odd, known) /\ NoEntry(odd)
  BY <1>1, <1>2, AnomalyStretch
<1>5. Stretch(s, names, Held(s, n) \o odd, known) /\ NoEntry(Held(s, n) \o odd)
  BY <1>3, <1>4, StretchesJoined
<1>6. HeldWithAnomaly(s, n) = Held(s, n) \o odd
  BY <1>2 DEF HeldWithAnomaly
<1> QED BY <1>1, <1>3, <1>5, <1>6, StretchInOrder, NothingEntered

LEMMA CommittedInOrder ==
    ASSUME NEW s \in Subjects, NEW n, NEW chosen, NEW outcome, Resolved(live, s),
           chosen = 0 \/ chosen \in DOMAIN HypothesesOf(live, s)
    PROVE  InOrder(live, Committed(s, n, chosen, outcome))
<1> DEFINE h == IF chosen = 0 THEN n ELSE chosen
           active == ActiveHypotheses(live, s) \cup DOMAIN HypothesesOf(live, s) \cup {h}
           foreseen == IF outcome = "strengthen" THEN {n} ELSE {}
           asked == IF Cardinality(active) > 1 THEN {n} ELSE {}
           model == [hypotheses |-> active, predictions |-> foreseen,
                     inquiries |-> asked]
           held == Held(s, n)
           odd == IF outcome = "contradict"
                  THEN <<Write("anomalies", Row(s, n, n))>> ELSE <<>>
           event == Event(s, n, h, outcome, IF outcome = "contradict" THEN n ELSE 0)
           change == <<Write("hypotheses", Row(s, h, {n})),
                       Write("ledger", Row(s, n, event)),
                       Write("dependencies", Row(s, n, h))>>
           prediction == IF foreseen # {}
                         THEN <<Write("predictions", Row(s, n, h))>> ELSE <<>>
           inquiry == IF asked # {} THEN <<Write("inquiries", Row(s, n, n))>> ELSE <<>>
           version == <<Write("provenance", Row(s, n, {n})),
                        Write("world_models", Row(s, n, model)),
                        Write("current_pointer", Row(s, s, n))>>
<1>1. Committed(s, n, chosen, outcome)
        = held \o odd \o change \o prediction \o inquiry \o version
  BY DEF Committed
<1> DEFINE g0 == Named(live, s)
           g1 == g0 \cup {<<"evidence", n>>}
           g2 == g1 \cup {<<"hypotheses", h>>, <<"ledger", n>>}
           g3 == g2 \cup ({"predictions"} \X foreseen)
           g4 == g3 \cup ({"inquiries"} \X asked)
<1>2. Stretch(s, g0, held, g1) /\ NoEntry(held)
  BY HeldStretch
<1>3. Stretch(s, g1, odd, g1) /\ NoEntry(odd)
  <2> HIDE DEF g0
  <2>1. CASE outcome = "contradict"
    BY <2>1, AnomalyStretch
  <2>2. CASE outcome # "contradict"
    BY <2>2, NoStretch
  <2> QED BY <2>1, <2>2
<1>4. /\ event.to = n /\ event.evidence = {n} /\ event.affected = h
      /\ event.from = CurrentPointer(live, s) /\ event.seq = LedgerLength(live, s)
  BY DEF Event
<1>5. Stretch(s, g1, change, g2) /\ Entered(LedgerLength(live, s), change)
  <2>1. event.from # 0 => <<"ledger", event.from>> \in g1
    BY <1>4, HeldNamed
  <2>2. <<"evidence", n>> \in g1
    OBVIOUS
  <2> HIDE DEF h, event, g1
  <2>3. PICK c : c = change
    OBVIOUS
  <2>4. /\ Stretch(s, g1, c, g1 \cup {<<"hypotheses", h>>, <<"ledger", n>>})
        /\ Entered(event.seq, c)
    BY <1>4, <2>1, <2>2, <2>3, ChangeStretch
  <2> QED BY <1>4, <2>3, <2>4
<1>6. foreseen \in {{}, {n}} /\ asked \in {{}, {n}}
  <2> HIDE DEF active
  <2> QED OBVIOUS
<1>7. Stretch(s, g2, prediction, g3) /\ NoEntry(prediction)
  <2> HIDE DEF h, foreseen, g1
  <2> QED BY <1>6, PredictionStretch
<1>8. Stretch(s, g3, inquiry, g4) /\ NoEntry(inquiry)
  <2> HIDE DEF h, foreseen, asked, g1
  <2> QED BY <1>6, InquiryStretch
<1>9. \A x \in active : <<"hypotheses", x>> \in g4
  <2>1. \A x \in DOMAIN HypothesesOf(live, s) : <<"hypotheses", x>> \in g0
    BY HeldNamed
  <2>2. \A x \in active : x = h \/ x \in DOMAIN HypothesesOf(live, s)
    BY HeldNamed
  <2> HIDE DEF g0, h, active, foreseen, asked
  <2> QED BY <2>1, <2>2
<1>10. Stretch(s, g4, version, g4) /\ NoEntry(version)
  <2>1. /\ model.hypotheses = active /\ model.predictions = foreseen
        /\ model.inquiries = asked
    OBVIOUS
  <2> HIDE DEF h, active, foreseen, asked, g0, model
  <2>2. /\ {"hypotheses"} \X model.hypotheses \subseteq g4 /\ <<"ledger", n>> \in g4
        /\ {"predictions"} \X model.predictions \subseteq g4
        /\ {"inquiries"} \X model.inquiries \subseteq g4
    BY <1>9, <2>1
  <2> HIDE DEF g4
  <2> QED BY <2>2, VersionStretch
<1> HIDE DEF g0, g1, g2, g3, g4, held, odd, change, prediction, inquiry, version
<1>11. Stretch(s, g0, held \o odd, g1) /\ NoEntry(held \o odd)
  BY <1>2, <1>3, StretchesJoined
<1>12. /\ Stretch(s, g0, held \o odd \o change, g2)
       /\ Entered(LedgerLength(live, s), held \o odd \o change)
  <2>1. PICK a, k : a = held \o odd /\ k = LedgerLength(live, s)
    OBVIOUS
  <2>2. Stretch(s, g0, a, g1) /\ NoEntry(a) /\ Stretch(s, g1, change, g2)
        /\ Entered(k, change)
    BY <1>5, <1>11, <2>1
  <2>3. Stretch(s, g0, a \o change, g2) /\ Entered(k, a \o change)
    BY <2>2, StretchesJoined
  <2> QED BY <2>1, <2>3
<1>13. /\ Stretch(s, g0, held \o odd \o change \o prediction, g3)
       /\ Entered(LedgerLength(live, s), held \o odd \o change \o prediction)
  BY <1>7, <1>12, StretchesJoined
<1>14. /\ Stretch(s, g0, held \o odd \o change \o prediction \o inquiry, g4)
       /\ Entered(LedgerLength(live, s), held \o odd \o change \o prediction \o inquiry)
  BY <1>8, <1>13, StretchesJoined
<1>15. /\ Stretch(s, g0, held \o odd \o change \o prediction \o inquiry \o version, g4)
       /\ Entered(LedgerLength(live, s),
                  held \o odd \o change \o prediction \o inquiry \o version)
  BY <1>10, <1>14, StretchesJoined
<1> QED BY <1>1, <1>15, StretchInOrder DEF g0

----------------------------------------------------------------------------
\* A coherent database is readable once it is migrated.
WrittenNames(old, s) ==
    UNION {{NameOf(t, row) : row \in WrittenBy(old, t, s)} : t \in Citable}

LEMMA CoherentFacts ==
    ASSUME NEW old, Coherent(old), NEW s \in Subjects
    PROVE  /\ SubjectsApart(old)
           /\ \A t \in Names : \A row \in WrittenBy(old, t, s) :
                 \A cited \in Cites(t, row) :
                    /\ cited \in WrittenNames(old, s)
                    /\ cited[1] \in OwnedTables
                         => Recovered(old, cited[1])[cited[2]] # Unknown
           /\ {row.data.seq : row \in WrittenBy(old, "ledger", s)}
                = 0..(Cardinality(Entries(old, s)) - 1)
  BY TableSets DEF Coherent, WrittenNames

\* Row a of the legacy table t, as the migration leaves it in the end.
Moved(old, t, a, b) ==
    /\ b.id = a.id /\ b.writer = a.writer /\ b.data = a.data
    /\ t \in Scoped => b.space = Space
    /\ t \in OwnedTables => b.owner = OwnerOf(old, t, a.id)
    /\ t \notin OwnedTables => b.owner = a.writer

LEMMA MigratedRows ==
    ASSUME NEW old \in Legacy, NEW tables, Kept(old, tables),
           \A k \in 1..42 : Done(old, tables, k), NEW t \in Names
    PROVE  /\ Len(Rows(tables, t)) = Len(Rows(old, t))
           /\ \A i \in 1..Len(Rows(old, t)) :
                 Moved(old, t, Rows(old, t)[i], Rows(tables, t)[i])
<1>1. t \in OwnedTables => AllSpaced(Rows(tables, t)) /\ AllAssigned(old, t, Rows(tables, t))
  <2> SUFFICES ASSUME t \in OwnedTables
               PROVE  AllSpaced(Rows(tables, t)) /\ AllAssigned(old, t, Rows(tables, t))
    OBVIOUS
  <2>1. PICK k \in 1..42 : Script[k].op = "assign" /\ Script[k].table = t
    BY ScriptComplete
  <2>2. Done(old, tables, k)
    BY <2>1
  <2> QED BY <2>1, <2>2 DEF Done
<1>2. t \in Scoped => AllSpaced(Rows(tables, t))
  <2> SUFFICES ASSUME t \in Scoped \ OwnedTables PROVE AllSpaced(Rows(tables, t))
    BY <1>1
  <2>1. PICK k \in 1..42 : Script[k].op \in {"fill", "drop"} /\ Script[k].table = t
    BY ScriptComplete
  <2>2. Done(old, tables, k)
    BY <2>1
  <2> QED BY <2>1, <2>2 DEF Done
<1>3. Carrying(old, t, Rows(tables, t))
  BY DEF Kept, KeptIn
<1>4. ASSUME NEW i \in 1..Len(Rows(old, t)), NEW a, NEW b,
             a = Rows(old, t)[i], b = Rows(tables, t)[i]
      PROVE  Moved(old, t, a, b)
  <2>1. Carried(old, t, a, b) /\ i \in 1..Len(Rows(tables, t)) /\ LegacyRow(t, a)
    BY <1>3, <1>4, LegacyFacts DEF Carrying
  <2>2. t \in Scoped => b.space = Space
    BY <1>2, <1>4, <2>1 DEF AllSpaced
  <2>3. ASSUME t \in OwnedTables PROVE b.owner = OwnerOf(old, t, a.id)
    <3>1. b.owner = Recovered(old, t)[b.id]
      BY <1>1, <1>4, <2>1, <2>3 DEF AllAssigned
    <3>2. Recovered(old, t)[a.id] = OwnerOf(old, t, a.id)
      BY <1>4, RecoveredRow
    <3> QED BY <2>1, <3>1, <3>2 DEF Carried
  <2>4. ASSUME t \notin OwnedTables PROVE b.owner = a.writer
    BY <2>1, <2>4, TableSets DEF Carried, LegacyRow
  <2> QED BY <2>1, <2>2, <2>3, <2>4 DEF Carried, Moved
<1> QED BY <1>3, <1>4 DEF Carrying

\* A row that a subject has is one it wrote.
LEMMA WroteMine ==
    ASSUME NEW old \in Legacy, SubjectsApart(old), NEW tables, Proper(tables),
           Kept(old, tables), \A k \in 1..42 : Done(old, tables, k),
           NEW t \in Names, NEW s \in Subjects, NEW b \in Mine(tables, t, s)
    PROVE  \E a \in WrittenBy(old, t, s) : a.id = b.id /\ a.data = b.data
<1>1. Proper(old)
  BY LegacyFacts
<1>2. PICK i \in 1..Len(Rows(tables, t)) : b = Rows(tables, t)[i]
  BY ProperRows DEF Mine, ToSet
<1>3. PICK a : a = Rows(old, t)[i]
  OBVIOUS
<1>4. /\ i \in 1..Len(Rows(old, t))
      /\ b.id = a.id /\ b.writer = a.writer /\ b.data = a.data
      /\ t \in OwnedTables => b.owner = OwnerOf(old, t, a.id)
      /\ t \notin OwnedTables => b.owner = a.writer
  <2>1. /\ Len(Rows(tables, t)) = Len(Rows(old, t))
        /\ \A j \in 1..Len(Rows(old, t)) :
              Moved(old, t, Rows(old, t)[j], Rows(tables, t)[j])
    BY MigratedRows
  <2>2. i \in 1..Len(Rows(old, t)) /\ Moved(old, t, a, b)
    BY <1>2, <1>3, <2>1
  <2> QED BY <2>2 DEF Moved
<1>5. a \in ToSet(Rows(old, t))
  BY <1>1, <1>3, <1>4, ProperRows DEF ToSet
<1>6. a.writer = s
  <2>1. CASE t = "anomalies"
    BY <1>4, <2>1 DEF Mine, Belongs
  <2>2. CASE t # "anomalies" /\ t \notin OwnedTables
    BY <1>4, <2>2 DEF Mine, Belongs
  <2>3. CASE t \in OwnedTables
    <3>1. b.owner \in {a.writer, Unknown}
      BY <1>4, <1>5, <2>3, RightlyRecovered
    <3>2. b.owner = s
      BY <2>3 DEF Mine, Belongs, OwnedTables
    <3> QED BY <3>1, <3>2, StoreAssumption
  <2> QED BY <2>1, <2>2, <2>3
<1> QED BY <1>4, <1>5, <1>6 DEF WrittenBy

\* A row that a subject wrote is its own, unless it had to be put aside.
LEMMA MineWritten ==
    ASSUME NEW old \in Legacy, SubjectsApart(old), NEW tables, Proper(tables),
           Kept(old, tables), \A k \in 1..42 : Done(old, tables, k),
           NEW t \in Names \cap Scoped, NEW s \in Subjects, NEW a \in WrittenBy(old, t, s),
           t \in OwnedTables => Recovered(old, t)[a.id] # Unknown
    PROVE  \E b \in Mine(tables, t, s) : b.id = a.id /\ b.data = a.data
<1>1. Proper(old) /\ a \in ToSet(Rows(old, t)) /\ a.writer = s
  BY LegacyFacts DEF WrittenBy
<1>2. PICK i \in 1..Len(Rows(old, t)) : a = Rows(old, t)[i]
  BY <1>1, ProperRows DEF ToSet
<1>3. PICK b : b = Rows(tables, t)[i]
  OBVIOUS
<1>4. /\ Len(Rows(tables, t)) = Len(Rows(old, t))
      /\ b.id = a.id /\ b.writer = a.writer /\ b.data = a.data /\ b.space = Space
      /\ t \in OwnedTables => b.owner = OwnerOf(old, t, a.id)
      /\ t \notin OwnedTables => b.owner = a.writer
  BY <1>2, <1>3, MigratedRows DEF Moved
<1>5. b \in ToSet(Rows(tables, t))
  BY <1>2, <1>3, <1>4, ProperRows DEF ToSet
<1>6. b.owner = s
  <2>1. CASE t \notin OwnedTables
    BY <1>1, <1>4, <2>1
  <2>2. CASE t \in OwnedTables
    <3>1. OwnerOf(old, t, a.id) \in {a.writer, Unknown}
      BY <1>1, <2>2, RightlyRecovered
    <3>2. Recovered(old, t)[a.id] = OwnerOf(old, t, a.id)
      BY <1>2, RecoveredRow
    <3> QED BY <1>1, <1>4, <2>2, <3>1, <3>2
  <2> QED BY <2>1, <2>2
<1>7. t # "anomalies"
  BY TableSets DEF OwnedTables, RekeyedTables
<1>8. b \in Mine(tables, t, s)
  BY <1>4, <1>5, <1>6, <1>7 DEF Mine, Belongs
<1> QED BY <1>4, <1>8

LEMMA SameCitations ==
    ASSUME NEW t, NEW a, NEW b, a.data = b.data
    PROVE  Cites(t, a) = Cites(t, b)
  BY DEF Cites

LEMMA MigratedLinked ==
    ASSUME NEW old \in Legacy, Coherent(old), NEW tables, Proper(tables),
           Kept(old, tables), \A k \in 1..42 : Done(old, tables, k)
    PROVE  Linked(tables)
<1> SUFFICES ASSUME NEW s \in Subjects PROVE Resolved(tables, s) /\ Ordered(tables, s)
  BY DEF Linked
<1>1. /\ SubjectsApart(old)
      /\ \A t \in Names : \A row \in WrittenBy(old, t, s) :
            \A cited \in Cites(t, row) :
               /\ cited \in WrittenNames(old, s)
               /\ cited[1] \in OwnedTables
                    => Recovered(old, cited[1])[cited[2]] # Unknown
      /\ {row.data.seq : row \in WrittenBy(old, "ledger", s)}
           = 0..(Cardinality(Entries(old, s)) - 1)
  BY CoherentFacts
<1>2. Citable \subseteq Names \cap Scoped /\ "ledger" \in Citable
  BY TableSets DEF Citable, Names, OwnedTables, RekeyedTables
<1>3. ASSUME NEW t \in Names, NEW b \in Mine(tables, t, s), NEW c \in Cites(t, b)
      PROVE  c \in Named(tables, s)
  <2>1. PICK a \in WrittenBy(old, t, s) : a.id = b.id /\ a.data = b.data
    BY <1>1, WroteMine
  <2>2. c \in Cites(t, a)
    BY <2>1, SameCitations
  <2>3. /\ c \in WrittenNames(old, s)
        /\ c[1] \in OwnedTables => Recovered(old, c[1])[c[2]] # Unknown
    BY <1>1, <2>2
  <2>4. PICK u \in Citable : \E row \in WrittenBy(old, u, s) : c = NameOf(u, row)
    BY <2>3 DEF WrittenNames
  <2>5. PICK x \in WrittenBy(old, u, s) : c = NameOf(u, x)
    BY <2>4
  <2>6. u \in OwnedTables => Recovered(old, u)[x.id] # Unknown
    <3>1. c[1] = u /\ (u # "ledger" => c[2] = x.id)
      BY <2>5 DEF NameOf
    <3> QED BY <2>3, <3>1 DEF OwnedTables
  <2>7. PICK y \in Mine(tables, u, s) : y.id = x.id /\ y.data = x.data
    BY <1>1, <1>2, <2>6, MineWritten
  <2>8. c = NameOf(u, y)
    BY <2>5, <2>7 DEF NameOf
  <2> QED BY <2>8 DEF Named
<1>4. Resolved(tables, s)
  BY <1>3 DEF Resolved
<1>5. {row.data.seq : row \in Mine(tables, "ledger", s)}
        = {row.data.seq : row \in WrittenBy(old, "ledger", s)}
  <2>1. "ledger" \in Names \cap Scoped /\ "ledger" \notin OwnedTables
    BY <1>2 DEF OwnedTables
  <2>2. ASSUME NEW b \in Mine(tables, "ledger", s)
        PROVE  b.data.seq \in {row.data.seq : row \in WrittenBy(old, "ledger", s)}
    <3>1. PICK a \in WrittenBy(old, "ledger", s) : a.data = b.data
      BY <1>1, <2>1, WroteMine
    <3> QED BY <3>1
  <2>3. ASSUME NEW a \in WrittenBy(old, "ledger", s)
        PROVE  a.data.seq \in {row.data.seq : row \in Mine(tables, "ledger", s)}
    <3>1. PICK b \in Mine(tables, "ledger", s) : b.data = a.data
      BY <1>1, <2>1, MineWritten
    <3> QED BY <3>1
  <2> QED BY <2>2, <2>3
<1>6. Positions(tables, "ledger", s) = Entries(old, s)
  <2>1. "ledger" \in Names \cap Scoped /\ "ledger" \notin OwnedTables
    BY <1>2 DEF OwnedTables
  <2>2. /\ DOMAIN Rows(old, "ledger") = 1..Len(Rows(old, "ledger"))
        /\ DOMAIN Rows(tables, "ledger") = 1..Len(Rows(tables, "ledger"))
    BY LegacyFacts, ProperRows
  <2>3. /\ Len(Rows(tables, "ledger")) = Len(Rows(old, "ledger"))
        /\ \A i \in 1..Len(Rows(old, "ledger")) :
              /\ Rows(tables, "ledger")[i].space = Space
              /\ Rows(tables, "ledger")[i].owner = Rows(old, "ledger")[i].writer
    BY <2>1, MigratedRows DEF Moved
  <2> QED BY <2>2, <2>3 DEF Positions, Entries
<1>7. Ordered(tables, s)
  BY <1>1, <1>5, <1>6 DEF Ordered, LedgerLength
<1> QED BY <1>4, <1>7

----------------------------------------------------------------------------
\* The invariant of what is shown: what is committed, and outside a reset what the
\* connection sees, resolves; what is left of a plan is in order; a reset goes
\* through the tables one by one.
LinkedInv ==
    disk.version = 1 =>
        /\ Linked(disk.tables)
        /\ phase # "resetting" => Linked(live)
        /\ phase = "resetting" =>
              \A k \in 1..(cursor - 1) : Rows(live, Schema[k]) = <<>>
        /\ phase = "writing" => InOrder(live, todo)

LEMMA EmptyLinked ==
    ASSUME NEW tables, \A t \in Names : Rows(tables, t) = <<>>
    PROVE  Linked(tables)
<1> SUFFICES ASSUME NEW s \in Subjects PROVE Resolved(tables, s) /\ Ordered(tables, s)
  BY DEF Linked
<1>1. \A t \in Names : ToSet(Rows(tables, t)) = {} /\ DOMAIN Rows(tables, t) = {}
  <2>1. PICK none : none = <<>>
    OBVIOUS
  <2>2. DOMAIN none = {}
    BY <2>1
  <2> QED BY <2>1, <2>2 DEF ToSet
<1>2. \A t \in Names : Mine(tables, t, s) = {}
  BY <1>1 DEF Mine
<1>3. Resolved(tables, s)
  BY <1>2 DEF Resolved
<1>4. Mine(tables, "ledger", s) = {} /\ Positions(tables, "ledger", s) = {}
  BY <1>1, <1>2 DEF Names, Positions
<1>5. LedgerLength(tables, s) = 0
  BY <1>4, FS_EmptySet DEF LedgerLength
<1>6. 0..(0 - 1) = {}
  OBVIOUS
<1>7. Ordered(tables, s)
  BY <1>4, <1>5, <1>6 DEF Ordered
<1> QED BY <1>3, <1>7

LEMMA RunLinked ==
    ASSUME StoreInv, Coherent(legacy), LinkedInv, Run
    PROVE  LinkedInv'
<1>1. StoreShape /\ phase = "opening" /\ disk.version \in {0, 1}
  BY DEF StoreInv, StoreShape, Run
<1>2. CASE disk.version = 0
  <2>1. disk'.version = 1 => /\ live' = live /\ disk'.tables = live
                             /\ Kept(legacy, live) /\ phase' = "opening"
                             /\ \A k \in 1..42 : Done(legacy, live, k)
    BY <1>2, RunOld
  <2>2. legacy \in Legacy /\ Proper(live)
    BY <1>1 DEF StoreShape
  <2>3. disk'.version = 1 => Linked(live)
    BY <2>1, <2>2, MigratedLinked
  <2> QED BY <2>1, <2>3 DEF LinkedInv
<1>3. CASE disk.version = 1
  <2>1. live' = live /\ disk'.tables \in {disk.tables, live} /\ phase' = "opening"
    BY <1>3, RunNew
  <2>2. Linked(disk.tables) /\ Linked(live)
    BY <1>1, <1>3 DEF LinkedInv
  <2>3. Linked(disk'.tables) /\ Linked(live')
    BY <2>1, <2>2
  <2> QED BY <2>1, <2>3 DEF LinkedInv
<1> QED BY <1>1, <1>2, <1>3

LEMMA PlanLinked ==
    ASSUME StoreInv, LinkedInv, Plan
    PROVE  LinkedInv'
<1>1. /\ phase = "ready" /\ phase' = "writing"
      /\ UNCHANGED <<disk, live>>
  BY DEF Plan
<1>2. PICK s \in Subjects :
         \/ todo' = Held(s, Fresh)
         \/ todo' = HeldWithAnomaly(s, Fresh)
         \/ \E h, outcome : /\ h = 0 \/ h \in DOMAIN HypothesesOf(live, s)
                            /\ todo' = Committed(s, Fresh, h, outcome)
  BY DEF Plan
<1>3. ASSUME disk.version = 1
      PROVE  /\ Linked(disk.tables) /\ Linked(live)
             /\ InOrder(live, todo')
  <2>1. Linked(disk.tables) /\ Linked(live)
    BY <1>1, <1>3 DEF LinkedInv
  <2>2. Resolved(live, s)
    BY <2>1 DEF Linked
  <2>3. InOrder(live, Held(s, Fresh)) /\ InOrder(live, HeldWithAnomaly(s, Fresh))
    BY HeldInOrder
  <2>4. \A h, outcome : h = 0 \/ h \in DOMAIN HypothesesOf(live, s)
                          => InOrder(live, Committed(s, Fresh, h, outcome))
    BY <2>2, CommittedInOrder
  <2> QED BY <1>2, <2>1, <2>3, <2>4
<1> QED BY <1>1, <1>3 DEF LinkedInv

LEMMA WriteRowLinked ==
    ASSUME StoreInv, LinkedInv, WriteRow
    PROVE  LinkedInv'
<1>1. /\ phase = "writing" /\ todo # <<>>
      /\ live' = Inserted(live, Head(todo).table, Head(todo).row)
      /\ disk' = [disk EXCEPT !.tables = live']
      /\ todo' = Tail(todo)
      /\ phase' \in {"ready", "writing"}
  BY DEF WriteRow
<1>2. StoreShape
  BY DEF StoreInv
<1>3. disk.version = 1 /\ NewStore
  BY <1>1, <1>2 DEF StoreInv, OldStore, StoreShape
<1>4. Linked(live) /\ InOrder(live, todo)
  BY <1>1, <1>3 DEF LinkedInv
<1>5. PICK n \in Nat : n = Len(todo) /\ Lists(todo, n)
  BY <1>2 DEF StoreShape
<1>6. PICK S : S = {todo[i] : i \in 1..n}
  OBVIOUS
<1>7. todo \in Seq(S) /\ n # 0
  <2>1. todo \in Seq(S)
    BY <1>5, <1>6 DEF Lists
  <2> QED BY <1>1, <1>5, <2>1, EmptySeq
<1>8. PICK rest, new : rest = todo' /\ new = live'
  OBVIOUS
<1>9. /\ Len(rest) = Len(todo) - 1
      /\ \A i \in 1..Len(rest) : rest[i] = todo[i + 1]
      /\ Head(todo) = todo[1]
  <2>1. /\ Len(Tail(todo)) = Len(todo) - 1
        /\ \A i \in 1..Len(Tail(todo)) : Tail(todo)[i] = todo[i + 1]
    BY <1>1, <1>7, HeadTailProperties
  <2>2. Head(todo) = todo[1]
    BY DEF Head
  <2> QED BY <1>1, <1>8, <2>1, <2>2
<1>10. GoodWrite(legacy, todo[1]) /\ todo[1].table \in DOMAIN live
  <2>1. GoodWrite(legacy, todo[1])
    BY <1>2, <1>5, <1>7 DEF StoreShape
  <2> QED BY <1>3, <2>1 DEF GoodWrite, NewStore, Sound
<1>11. new = Inserted(live, todo[1].table, todo[1].row)
  BY <1>1, <1>8, <1>9
<1>12. Proper(live) /\ Len(todo) \in Nat \ {0}
  BY <1>2, <1>5, <1>7 DEF StoreShape
<1>13. Linked(new) /\ InOrder(new, rest)
  BY <1>4, <1>9, <1>10, <1>11, <1>12, WrittenInOrder
<1>14. disk'.tables = live'
  BY <1>1, <1>2 DEF StoreShape
<1> QED BY <1>1, <1>8, <1>13, <1>14 DEF LinkedInv

LEMMA ClearLinked ==
    ASSUME StoreInv, LinkedInv, Clear
    PROVE  LinkedInv'
<1>1. /\ phase = "resetting" /\ cursor =< 13 /\ cursor' = cursor + 1
      /\ live' = [live EXCEPT ![Schema[cursor]].rows = <<>>]
      /\ UNCHANGED <<disk, phase>>
  BY SchemaTables DEF Clear
<1>2. StoreShape
  BY DEF StoreInv
<1>3. disk.version = 1 /\ NewStore
  BY <1>1, <1>2 DEF StoreInv, OldStore, StoreShape
<1>4. cursor \in 1..13
  BY <1>1, <1>3 DEF NewStore
<1>5. /\ Linked(disk.tables)
      /\ \A k \in 1..(cursor - 1) : Rows(live, Schema[k]) = <<>>
  BY <1>1, <1>3 DEF LinkedInv
<1>6. PICK t \in Names : t = Schema[cursor]
  BY <1>4, SchemaTables DEF Names
<1>7. PICK new : new = live'
  OBVIOUS
<1>8. PICK table : table = [cols |-> live[t].cols, rows |-> <<>>]
  OBVIOUS
<1>9. t \in DOMAIN live /\ ProperTable(live[t]) /\ Proper(live)
  BY <1>2, <1>3 DEF NewStore, Sound, StoreShape, Proper
<1>10. ProperTable(table) /\ table.rows = <<>>
  BY <1>8 DEF ProperTable, Lists
<1>11. Overwrites(new, live, t, table)
  <2>1. live[t] = [cols |-> live[t].cols, rows |-> live[t].rows]
    BY <1>9 DEF ProperTable
  <2>2. [live[t] EXCEPT !.rows = <<>>] = table
    BY <1>8, <2>1
  <2>3. new = [live EXCEPT ![t] = [live[t] EXCEPT !.rows = <<>>]]
    BY <1>1, <1>6, <1>7
  <2> QED BY <2>2, <2>3 DEF Overwrites
<1>12. /\ DOMAIN new = DOMAIN live /\ new[t] = table
       /\ \A u \in DOMAIN live : u # t => new[u] = live[u]
  BY <1>9, <1>10, <1>11, Replaced
<1>13. \A u : Rows(new, u) = IF u = t THEN <<>> ELSE Rows(live, u)
  BY <1>9, <1>10, <1>12 DEF Rows
<1>14. ASSUME NEW k \in 1..cursor PROVE Rows(new, Schema[k]) = <<>>
  <2>1. CASE k = cursor
    BY <1>6, <1>13, <2>1
  <2>2. CASE k # cursor
    <3>1. k \in 1..(cursor - 1)
      BY <1>4, <2>2
    <3> QED BY <1>5, <1>13, <3>1
  <2> QED BY <2>1, <2>2
<1>15. cursor' - 1 = cursor
  BY <1>1, <1>4
<1> QED BY <1>1, <1>5, <1>7, <1>14, <1>15 DEF LinkedInv

LEMMA EndResetLinked ==
    ASSUME StoreInv, LinkedInv, EndReset
    PROVE  LinkedInv'
<1>1. /\ phase = "resetting" /\ phase' = "ready" /\ cursor > 13
      /\ disk' = [disk EXCEPT !.tables = live] /\ live' = live
  BY SchemaTables DEF EndReset
<1>2. StoreShape
  BY DEF StoreInv
<1>3. disk.version = 1 /\ NewStore
  BY <1>1, <1>2 DEF StoreInv, OldStore, StoreShape
<1>4. cursor = 14
  BY <1>1, <1>3 DEF NewStore
<1>5. \A k \in 1..13 : Rows(live, Schema[k]) = <<>>
  BY <1>1, <1>3, <1>4 DEF LinkedInv
<1>6. \A t \in Names : \E k \in 1..13 : t = Schema[k]
  BY SchemaTables DEF Names
<1>7. Linked(live)
  BY <1>5, <1>6, EmptyLinked
<1>8. disk'.tables = live
  BY <1>1, <1>2 DEF StoreShape
<1> QED BY <1>1, <1>7, <1>8 DEF LinkedInv

LEMMA LinkedStep ==
    ASSUME StoreInv, Coherent(legacy), LinkedInv, [Next]_vars
    PROVE  LinkedInv'
<1>1. CASE Open
  <2>1. phase' = "opening" /\ live' = disk.tables /\ disk' = disk
    BY <1>1 DEF Open
  <2> QED BY <2>1 DEF LinkedInv
<1>2. CASE Run
  BY <1>2, RunLinked
<1>3. CASE Opened
  <2>1. phase = "opening" /\ phase' = "ready" /\ UNCHANGED <<disk, live>>
    BY <1>3 DEF Opened
  <2> QED BY <2>1 DEF LinkedInv
<1>4. CASE Plan
  BY <1>4, PlanLinked
<1>5. CASE WriteRow
  BY <1>5, WriteRowLinked
<1>6. CASE WriteRaises
  <2>1. phase = "writing" /\ phase' = "ready" /\ UNCHANGED <<disk, live>>
    BY <1>6 DEF WriteRaises
  <2> QED BY <2>1 DEF LinkedInv
<1>7. CASE BeginReset
  <2>1. phase' = "resetting" /\ cursor' = 1 /\ UNCHANGED <<disk, live>>
    BY <1>7 DEF BeginReset
  <2> QED BY <2>1 DEF LinkedInv
<1>8. CASE Clear
  BY <1>8, ClearLinked
<1>9. CASE EndReset
  BY <1>9, EndResetLinked
<1>10. CASE Crash
  <2>1. phase' = "closed" /\ live' = disk.tables /\ disk' = disk
    BY <1>10 DEF Crash
  <2> QED BY <2>1 DEF LinkedInv
<1>11. CASE UNCHANGED vars
  BY <1>11 DEF vars, LinkedInv
<1> QED BY <1>1, <1>2, <1>3, <1>4, <1>5, <1>6, <1>7, <1>8, <1>9, <1>10, <1>11 DEF Next

----------------------------------------------------------------------------
\* What resolves can be shown.
LEMMA NamedIds ==
    ASSUME NEW tables, NEW s, NEW t \in Citable \ {"ledger"}, NEW id
    PROVE  <<t, id>> \in Named(tables, s) <=> id \in Ids(Of(tables, t, s))
<1>1. t # "anomalies"
  BY DEF Citable
<1>2. <<t, id>> \in Named(tables, s) <=> \E row \in Mine(tables, t, s) : id = row.id
  BY NamedRow
<1> QED BY <1>1, <1>2, MineByPosition DEF Ids

LEMMA NamedEntries ==
    ASSUME NEW tables, NEW s, NEW v
    PROVE  <<"ledger", v>> \in Named(tables, s)
             <=> \E event \in Ledger(tables, s) : v = event.to
<1>1. "ledger" \in Citable
  BY DEF Citable
<1>2. <<"ledger", v>> \in Named(tables, s)
        <=> \E row \in Mine(tables, "ledger", s) : v = row.data.to
  BY <1>1, NamedRow
<1> QED BY <1>2, MineByPosition DEF Ledger

\* Table by table, what a subject's rows cite is found.
LEMMA ResolvedRows ==
    ASSUME NEW tables, NEW s, Resolved(tables, s)
    PROVE  /\ \A row \in Of(tables, "hypotheses", s) : row.data \subseteq EvidenceOf(tables, s)
           /\ \A row \in Of(tables, "predictions", s) :
                 row.data \in Ids(Of(tables, "hypotheses", s))
           /\ \A row \in Of(tables, "inquiries", s) : row.data # 0 =>
                 \E event \in Ledger(tables, s) : row.data = event.to
           /\ \A row \in Mine(tables, "anomalies", s) : row.data \in EvidenceOf(tables, s)
           /\ \A event \in Ledger(tables, s) :
                 /\ event.evidence \subseteq EvidenceOf(tables, s)
                 /\ event.affected \in Ids(Of(tables, "hypotheses", s))
                 /\ event.from # 0 => \E x \in Ledger(tables, s) : event.from = x.to
           /\ \A row \in Of(tables, "world_models", s) :
                 /\ row.data.hypotheses \subseteq Ids(Of(tables, "hypotheses", s))
                 /\ row.data.predictions \subseteq Ids(Of(tables, "predictions", s))
                 /\ row.data.inquiries \subseteq Ids(Of(tables, "inquiries", s))
<1>1. {"evidence", "hypotheses", "predictions", "inquiries", "world_models"}
        \subseteq Citable \ {"ledger"}
  BY DEF Citable
<1>2. {"hypotheses", "predictions", "inquiries", "ledger", "world_models", "anomalies"}
        \subseteq Names
  BY DEF Names
<1>3. \A id : /\ <<"evidence", id>> \in Named(tables, s) => id \in EvidenceOf(tables, s)
              /\ <<"hypotheses", id>> \in Named(tables, s)
                   => id \in Ids(Of(tables, "hypotheses", s))
              /\ <<"predictions", id>> \in Named(tables, s)
                   => id \in Ids(Of(tables, "predictions", s))
              /\ <<"inquiries", id>> \in Named(tables, s)
                   => id \in Ids(Of(tables, "inquiries", s))
  BY <1>1, NamedIds DEF EvidenceOf
<1>4. \A t \in Names \ {"anomalies"} : \A row \in Of(tables, t, s) :
         Cites(t, row) \subseteq Named(tables, s)
  BY MineByPosition DEF Resolved
<1>5. ASSUME NEW row \in Of(tables, "hypotheses", s), NEW e \in row.data
      PROVE  e \in EvidenceOf(tables, s)
  <2>1. Cites("hypotheses", row) = {"evidence"} \X row.data
    BY DEF Cites
  <2>2. <<"evidence", e>> \in Named(tables, s)
    BY <1>2, <1>4, <2>1
  <2> QED BY <1>3, <2>2
<1>6. ASSUME NEW row \in Of(tables, "predictions", s)
      PROVE  row.data \in Ids(Of(tables, "hypotheses", s))
  <2>1. Cites("predictions", row) = {<<"hypotheses", row.data>>}
    BY DEF Cites
  <2>2. <<"hypotheses", row.data>> \in Named(tables, s)
    BY <1>2, <1>4, <2>1
  <2> QED BY <1>3, <2>2
<1>7. ASSUME NEW row \in Of(tables, "inquiries", s), row.data # 0
      PROVE  \E event \in Ledger(tables, s) : row.data = event.to
  <2>1. Cites("inquiries", row) = {"ledger"} \X ({row.data} \ {0})
    BY DEF Cites
  <2>2. <<"ledger", row.data>> \in Named(tables, s)
    BY <1>2, <1>4, <1>7, <2>1
  <2> QED BY <2>2, NamedEntries
<1>8. ASSUME NEW row \in Mine(tables, "anomalies", s)
      PROVE  row.data \in EvidenceOf(tables, s)
  <2>1. Cites("anomalies", row) = {<<"evidence", row.data>>}
    BY DEF Cites
  <2>2. <<"evidence", row.data>> \in Named(tables, s)
    BY <1>2, <2>1 DEF Resolved
  <2> QED BY <1>3, <2>2
<1>9. ASSUME NEW event \in Ledger(tables, s)
      PROVE  /\ event.evidence \subseteq EvidenceOf(tables, s)
             /\ event.affected \in Ids(Of(tables, "hypotheses", s))
             /\ event.from # 0 => \E x \in Ledger(tables, s) : event.from = x.to
  <2>1. PICK row \in Of(tables, "ledger", s) : event = row.data
    BY DEF Ledger
  <2>2. Cites("ledger", row) = ({"evidence"} \X event.evidence)
                               \cup ({"ledger"} \X ({event.from} \ {0}))
                               \cup {<<"hypotheses", event.affected>>}
    BY <2>1 DEF Cites
  <2>3. Cites("ledger", row) \subseteq Named(tables, s)
    BY <1>2, <1>4
  <2>4. \A e \in event.evidence : <<"evidence", e>> \in Named(tables, s)
    BY <2>2, <2>3
  <2>5. <<"hypotheses", event.affected>> \in Named(tables, s)
    BY <2>2, <2>3
  <2>6. event.from # 0 => <<"ledger", event.from>> \in Named(tables, s)
    BY <2>2, <2>3
  <2>7. event.evidence \subseteq EvidenceOf(tables, s)
    BY <1>3, <2>4
  <2>8. event.affected \in Ids(Of(tables, "hypotheses", s))
    BY <1>3, <2>5
  <2>9. event.from # 0 => \E x \in Ledger(tables, s) : event.from = x.to
    BY <2>6, NamedEntries
  <2> QED BY <2>7, <2>8, <2>9
<1>10. ASSUME NEW row \in Of(tables, "world_models", s)
       PROVE  /\ row.data.hypotheses \subseteq Ids(Of(tables, "hypotheses", s))
              /\ row.data.predictions \subseteq Ids(Of(tables, "predictions", s))
              /\ row.data.inquiries \subseteq Ids(Of(tables, "inquiries", s))
  <2>1. Cites("world_models", row) = ({"hypotheses"} \X row.data.hypotheses)
                                     \cup ({"predictions"} \X row.data.predictions)
                                     \cup ({"inquiries"} \X row.data.inquiries)
    BY DEF Cites
  <2>2. Cites("world_models", row) \subseteq Named(tables, s)
    BY <1>2, <1>4
  <2>3. /\ \A id \in row.data.hypotheses : <<"hypotheses", id>> \in Named(tables, s)
        /\ \A id \in row.data.predictions : <<"predictions", id>> \in Named(tables, s)
        /\ \A id \in row.data.inquiries : <<"inquiries", id>> \in Named(tables, s)
    BY <2>1, <2>2
  <2> QED BY <1>3, <2>3
<1> QED BY <1>5, <1>6, <1>7, <1>8, <1>9, <1>10

\* A graph has no edge to nowhere if its store resolves.
LEMMA ClosedGraph ==
    ASSUME NEW store, NEW anomalies,
           \A x \in store.ledger :
              /\ x.evidence \subseteq store.evidence /\ x.affected \in store.hypotheses
              /\ x.from # 0 => \E y \in store.ledger : x.from = y.to,
           \A p \in store.predictions : p.from \in store.hypotheses,
           \A q \in store.inquiries : q.raisedBy # 0 =>
              \E y \in store.ledger : q.raisedBy = y.to,
           \A a \in anomalies : a.evidence \in store.evidence
    PROVE  Closed(store, anomalies)
<1>1. PICK nodes : nodes = GraphNodes(store, anomalies)
  OBVIOUS
<1>2. /\ Start \in nodes
      /\ \A x \in store.ledger : Version(x.to) \in nodes
      /\ \A e \in store.evidence : <<"E", e>> \in nodes
      /\ \A h \in store.hypotheses : <<"H", h>> \in nodes
      /\ \A p \in store.predictions : <<"P", p.id>> \in nodes
      /\ \A q \in store.inquiries : <<"Q", q.id>> \in nodes
      /\ \A a \in anomalies : <<"A", a.id>> \in nodes
  BY <1>1 DEF GraphNodes
<1>3. \A v : (v # 0 => \E y \in store.ledger : v = y.to) => Version(v) \in nodes
  BY <1>2 DEF Version
<1> SUFFICES ASSUME NEW edge \in GraphEdges(store, anomalies)
             PROVE  edge[1] \in nodes /\ edge[2] \in nodes
  BY <1>1 DEF Closed
<1> DEFINE spine == {<<Version(x.from), Version(x.to), "solid">> : x \in store.ledger}
           grounds == UNION {{<<<<"E", e>>, <<"H", x.affected>>,
                                IF x.outcome \in Supporting THEN "solid" ELSE "dashed">> :
                                 e \in x.evidence} : x \in store.ledger}
           foretold == {<<<<"H", p.from>>, <<"P", p.id>>, "solid">> :
                          p \in store.predictions}
           raised == {<<Version(q.raisedBy), <<"Q", q.id>>, "solid">> :
                        q \in {i \in store.inquiries : i.raisedBy # 0}}
           observed == {<<<<"A", a.id>>, <<"E", a.evidence>>, "dashed">> : a \in anomalies}
           driven == UNION {{<<<<"A", a.id>>, Version(v), "solid">> : v \in Drove(store, a)} :
                              a \in anomalies}
<1>4. CASE edge \in spine
  <2>1. PICK x \in store.ledger : edge = <<Version(x.from), Version(x.to), "solid">>
    BY <1>4
  <2>2. edge[1] = Version(x.from) /\ edge[2] = Version(x.to)
    BY <2>1
  <2> QED BY <1>2, <1>3, <2>2
<1>5. CASE edge \in grounds
  <2>1. PICK x \in store.ledger : \E e \in x.evidence :
           edge = <<<<"E", e>>, <<"H", x.affected>>,
                    IF x.outcome \in Supporting THEN "solid" ELSE "dashed">>
    BY <1>5
  <2>2. PICK e \in x.evidence :
           edge = <<<<"E", e>>, <<"H", x.affected>>,
                    IF x.outcome \in Supporting THEN "solid" ELSE "dashed">>
    BY <2>1
  <2>3. edge[1] = <<"E", e>> /\ edge[2] = <<"H", x.affected>>
    BY <2>2
  <2> QED BY <1>2, <2>3
<1>6. CASE edge \in foretold
  <2>1. PICK p \in store.predictions : edge = <<<<"H", p.from>>, <<"P", p.id>>, "solid">>
    BY <1>6
  <2>2. edge[1] = <<"H", p.from>> /\ edge[2] = <<"P", p.id>>
    BY <2>1
  <2> QED BY <1>2, <2>2
<1>7. CASE edge \in raised
  <2>1. PICK q \in store.inquiries :
           q.raisedBy # 0 /\ edge = <<Version(q.raisedBy), <<"Q", q.id>>, "solid">>
    BY <1>7
  <2>2. edge[1] = Version(q.raisedBy) /\ edge[2] = <<"Q", q.id>>
    BY <2>1
  <2> QED BY <1>2, <1>3, <2>1, <2>2
<1>8. CASE edge \in observed
  <2>1. PICK a \in anomalies : edge = <<<<"A", a.id>>, <<"E", a.evidence>>, "dashed">>
    BY <1>8
  <2>2. edge[1] = <<"A", a.id>> /\ edge[2] = <<"E", a.evidence>>
    BY <2>1
  <2> QED BY <1>2, <2>2
<1>9. CASE edge \in driven
  <2>1. PICK a \in anomalies : \E v \in Drove(store, a) :
           edge = <<<<"A", a.id>>, Version(v), "solid">>
    BY <1>9
  <2>2. PICK v \in Drove(store, a) : edge = <<<<"A", a.id>>, Version(v), "solid">>
    BY <2>1
  <2>3. edge[1] = <<"A", a.id>> /\ edge[2] = Version(v)
    BY <2>2
  <2>4. \E x \in store.ledger : v = x.to
    BY DEF Drove
  <2> QED BY <1>2, <2>3, <2>4
<1>10. edge \in spine \cup grounds \cup foretold \cup raised \cup observed \cup driven
  <2>1. GraphEdges(store, anomalies)
          = spine \cup grounds \cup foretold \cup raised \cup observed \cup driven
    BY DEF GraphEdges
  <2> HIDE DEF spine, grounds, foretold, raised, observed, driven
  <2> QED BY <2>1
<1> HIDE DEF spine, grounds, foretold, raised, observed, driven
<1> QED BY <1>4, <1>5, <1>6, <1>7, <1>8, <1>9, <1>10

LEMMA LinkedReadable ==
    ASSUME Linked(disk.tables), NEW s \in Subjects
    PROVE  Readable(s)
<1>1. PICK tables : tables = disk.tables
  OBVIOUS
<1>2. Resolved(tables, s) /\ Ordered(tables, s)
  BY <1>1 DEF Linked
<1>3. ASSUME CurrentPointer(tables, s) # 0 PROVE CurrentModel(tables, s) # {}
  <2>1. <<"world_models", CurrentPointer(tables, s)>> \in Named(tables, s)
    BY <1>2, <1>3, HeldNamed
  <2>2. "world_models" \in Citable \ {"ledger"}
    BY DEF Citable
  <2>3. CurrentPointer(tables, s) \in Ids(Of(tables, "world_models", s))
    BY <2>1, <2>2, NamedIds
  <2> QED BY <2>3 DEF CurrentModel, VersionOf, Ids
<1>4. ASSUME NEW model, model = CurrentModel(tables, s), model # {},
             NEW shown, shown = Only(model).data
      PROVE  /\ ActiveHypotheses(tables, s) = shown.hypotheses
             /\ ActivePredictions(tables, s) = shown.predictions
             /\ ActiveInquiries(tables, s) = shown.inquiries
  <2>1. PICK row : row = Only(model)
    OBVIOUS
  <2>2. row \in model
    BY <1>4, <2>1 DEF Only
  <2>3. row \in Of(tables, "world_models", s)
    BY <1>4, <2>2 DEF CurrentModel, VersionOf
  <2>4. /\ shown.hypotheses \subseteq Ids(Of(tables, "hypotheses", s))
        /\ shown.predictions \subseteq Ids(Of(tables, "predictions", s))
        /\ shown.inquiries \subseteq Ids(Of(tables, "inquiries", s))
    BY <1>2, <1>4, <2>1, <2>3, ResolvedRows
  <2>5. DOMAIN HypothesesOf(tables, s) = Ids(Of(tables, "hypotheses", s))
    BY DEF HypothesesOf, LatestPerId
  <2>6. DOMAIN InquiriesOf(tables, s) = Ids(Of(tables, "inquiries", s))
    BY DEF InquiriesOf, LatestPerId
  <2>7. ActiveHypotheses(tables, s) = shown.hypotheses
    BY <1>4, <2>4, <2>5 DEF ActiveHypotheses
  <2>8. ActivePredictions(tables, s) = shown.predictions
    BY <1>4, <2>4 DEF ActivePredictions
  <2>9. ActiveInquiries(tables, s) = shown.inquiries
    BY <1>4, <2>4, <2>6 DEF ActiveInquiries
  <2> QED BY <2>7, <2>8, <2>9
<1>5. {event.seq : event \in Ledger(tables, s)} = 0..(LedgerLength(tables, s) - 1)
  <2>1. {event.seq : event \in Ledger(tables, s)}
          = {row.data.seq : row \in Of(tables, "ledger", s)}
    BY DEF Ledger
  <2> QED BY <1>2, <2>1, MineByPosition DEF Ordered
<1>6. \A row \in Of(tables, "hypotheses", s) : row.data \subseteq EvidenceOf(tables, s)
  BY <1>2, ResolvedRows
<1>7. Closed(Drawn(s), DrawnAnomalies(s))
  <2>1. PICK store, anomalies : store = Drawn(s) /\ anomalies = DrawnAnomalies(s)
    OBVIOUS
  <2>2. /\ store.ledger = Ledger(tables, s) /\ store.evidence = EvidenceOf(tables, s)
        /\ store.hypotheses = Ids(Of(tables, "hypotheses", s))
        /\ store.predictions = {[id |-> row.id, from |-> row.data] :
                                  row \in Of(tables, "predictions", s)}
        /\ store.inquiries = {[id |-> row.id, raisedBy |-> row.data] :
                                row \in Of(tables, "inquiries", s)}
    BY <1>1, <2>1 DEF Drawn
  <2>3. anomalies = {[id |-> row.id, evidence |-> row.data] :
                       row \in Mine(tables, "anomalies", s)}
    BY <1>1, <2>1 DEF DrawnAnomalies, Mine, Belongs
  <2>4. \A x \in store.ledger :
           /\ x.evidence \subseteq store.evidence /\ x.affected \in store.hypotheses
           /\ x.from # 0 => \E y \in store.ledger : x.from = y.to
    BY <1>2, <2>2, ResolvedRows
  <2>5. \A p \in store.predictions : p.from \in store.hypotheses
    BY <1>2, <2>2, ResolvedRows
  <2>6. \A q \in store.inquiries : q.raisedBy # 0 =>
           \E y \in store.ledger : q.raisedBy = y.to
    BY <1>2, <2>2, ResolvedRows
  <2>7. \A a \in anomalies : a.evidence \in store.evidence
    BY <1>2, <2>2, <2>3, ResolvedRows
  <2>8. Closed(store, anomalies)
    BY <2>4, <2>5, <2>6, <2>7, ClosedGraph
  <2> QED BY <2>1, <2>8
<1> QED BY <1>1, <1>3, <1>4, <1>5, <1>6, <1>7 DEF Readable

\* Whatever the moment of a crash, of a failing write or of a reset, what the disk
\* holds of a subject is read back whole: the pointer leads to a version all of
\* whose contents are found, the ledger has no gap, evidence cited is there and
\* the lineage graph has no edge to nowhere (commit_plan writes what is cited
\* before what cites it).  Legacy databases are taken to be coherent.
THEOREM StoreReadableAlways ==
    ASSUME \A tables \in Legacy : Coherent(tables)
    PROVE  Spec => []StoreReadable
<1>1. StoreInv => Coherent(legacy)
  BY DEF StoreInv, StoreShape
<1>2. Init => LinkedInv
  BY DEF Init, LinkedInv
<1>3. StoreInv /\ LinkedInv /\ [Next]_vars => LinkedInv'
  BY <1>1, LinkedStep
<1>4. LinkedInv => StoreReadable
  BY LinkedReadable DEF LinkedInv, StoreReadable, Migrated
<1> QED BY <1>2, <1>3, <1>4, StoreInductive, PTL DEF Spec
=============================================================================
