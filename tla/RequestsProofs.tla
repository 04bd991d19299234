--------------------------- MODULE RequestsProofs ---------------------------
(***************************************************************************)
(* What a request means: a query is read as it was written, a walk over a  *)
(* list shows what it should, and every operation of a bulk job gets the   *)
(* answer it is due.  For every length of a query, a list and a job.       *)
(***************************************************************************)
EXTENDS Queries, Listings, ScimBulk, SequenceTheorems, FiniteSetTheorems,
        WellFoundedInduction, TLAPS

-----------------------------------------------------------------------------
(* Queries: what the loop knows of the pairs it has read.                  *)

Noted(i) == i \in DOMAIN pairs /\ i < position

\* What is in force for a parameter is the one value sent for it so far that
\* sets it, if any, and a name that may still come has set nothing.
ForceHolds ==
    \A n \in DOMAIN inForce :
        /\ n \notin seen => inForce[n] = Unset
        /\ inForce[n] = Unset =>
             \A i \in DOMAIN pairs :
                Noted(i) /\ Name(i) = n => Value(i) \in Readers[reader][n].none
        /\ inForce[n] # Unset =>
             /\ \E i \in DOMAIN pairs : /\ Noted(i) /\ Name(i) = n /\ Value(i) = inForce[n]
                                        /\ Value(i) \notin Readers[reader][n].none
             /\ \A i \in DOMAIN pairs :
                   Noted(i) /\ Name(i) = n =>
                       Value(i) \in Readers[reader][n].none \cup {inForce[n]}

NoneBad ==
    \A i \in DOMAIN pairs :
        Noted(i) /\ KnownTo(Name(i)) => Value(i) \notin Readers[reader][Name(i)].bad

\* Every name read is remembered or may be forgotten, what came twice was
\* forgotten the first time, and only the two-pass readers went past a name
\* they do not know.
TwiceHolds ==
    \A i \in DOMAIN pairs : Noted(i) =>
        /\ KnownTo(Name(i)) /\ Name(i) \notin seen => Forgets(i)
        /\ ~KnownTo(Name(i)) => reader \in TwoPass
        /\ \A j \in DOMAIN pairs :
              i < j /\ Noted(j) /\ Name(i) = Name(j) /\ KnownTo(Name(i)) => Forgets(i)

FirstPassDone == position > 1 /\ reader \in TwoPass => ~Duplicated

QueryTyped ==
    /\ reader \in DOMAIN Readers
    /\ pairs \in Seq(Sampled[reader] \X Values)
    /\ position \in 0..(Len(pairs) + 1)
    /\ inForce \in [DOMAIN Readers[reader] -> Values \cup {Unset}]
    /\ verdict \in {"reading", "late", "refused", "accepted"}

QueryInv ==
    /\ QueryTyped
    /\ \A n \in seen : \E i \in DOMAIN pairs : Noted(i) /\ Name(i) = n
    /\ verdict # "refused" => ForceHolds /\ NoneBad /\ TwiceHolds /\ FirstPassDone
    /\ verdict = "late" => ~Wellformed
    /\ verdict = "accepted" => position = Len(pairs) + 1 /\ Complete
    /\ WellformedIsRead

LEMMA QueryInitHolds == QueryInit => QueryInv
<1> SUFFICES ASSUME QueryInit PROVE QueryInv OBVIOUS
<1>1. PICK n \in 0..MaxPairs : pairs \in [1..n -> Sampled[reader] \X Values]
  BY DEF QueryInit
<1>2. n \in Nat BY QueryConstants
<1>3. pairs \in Seq(Sampled[reader] \X Values) BY <1>1, <1>2, SeqDef
<1>4. Len(pairs) \in Nat BY <1>3, LenProperties
<1>5. QueryTyped BY <1>3, <1>4 DEF QueryInit, QueryTyped
<1>6. ForceHolds BY DEF QueryInit, ForceHolds, Noted
<1>7. NoneBad BY DEF QueryInit, NoneBad, Noted
<1>8. \A i \in DOMAIN pairs : ~Noted(i)
  BY <1>3, <1>4, LenProperties DEF QueryInit, Noted
<1>9. TwiceHolds /\ FirstPassDone BY <1>8 DEF TwiceHolds, FirstPassDone, QueryInit
<1> QED BY <1>5, <1>6, <1>7, <1>9 DEF QueryInit, QueryInv, WellformedIsRead

LEMMA QueryDecode == QueryInv /\ Decode => QueryInv'
<1> SUFFICES ASSUME QueryInv, Decode PROVE QueryInv' OBVIOUS
<1>1. Len(pairs) \in Nat BY LenProperties DEF QueryInv, QueryTyped
<1>2. QueryTyped' BY <1>1 DEF QueryInv, QueryTyped, Decode, Refuse
<1>3. \A i \in DOMAIN pairs : ~Noted(i) /\ ~Noted(i)'
  BY LenProperties DEF QueryInv, QueryTyped, Decode, Noted
<1>4. ForceHolds' = ForceHolds /\ NoneBad' = NoneBad
  BY <1>3 DEF Decode, ForceHolds, NoneBad, Name, Value, KnownTo
<1>5. seen = {} BY <1>3 DEF QueryInv
<1>6. Wellformed' = Wellformed BY DEF Decode, Wellformed, Name, Value, KnownTo
<1>7. WellformedIsRead' BY DEF Decode, Refuse, WellformedIsRead
<1>8. TwiceHolds' BY <1>3 DEF Decode, TwiceHolds
<1>9. FirstPassDone' BY DEF Decode, FirstPassDone
<1> QED BY <1>2, <1>4, <1>5, <1>6, <1>7, <1>8, <1>9 DEF QueryInv, Decode, Refuse

LEMMA QueryDuplicate == QueryInv /\ RefuseDuplicate => QueryInv'
<1> SUFFICES ASSUME QueryInv, RefuseDuplicate PROVE QueryInv' OBVIOUS
<1>1. QueryTyped' BY DEF QueryInv, QueryTyped, RefuseDuplicate, Refuse
<1>2. ~Wellformed
  <2>1. PICK i, j \in DOMAIN pairs : i < j /\ Name(i) = Name(j)
    BY DEF RefuseDuplicate, Duplicated
  <2>2. i # j BY <2>1, LenProperties DEF QueryInv, QueryTyped
  <2> QED BY <2>1, <2>2 DEF Wellformed
<1>3. Wellformed' = Wellformed BY DEF RefuseDuplicate, Wellformed, Name, Value, KnownTo
<1>4. \A n \in seen : \E i \in DOMAIN pairs : Noted(i)' /\ Name(i)' = n
  BY DEF QueryInv, RefuseDuplicate, Noted, Name
<1> QED BY <1>1, <1>2, <1>3, <1>4 DEF QueryInv, RefuseDuplicate, Refuse, WellformedIsRead, Noted, Name

LEMMA QueryFinish == QueryInv /\ Finish => QueryInv'
<1> SUFFICES ASSUME QueryInv, Finish PROVE QueryInv' OBVIOUS
<1>1. QueryTyped' BY DEF QueryInv, QueryTyped, Finish
<1>2. Wellformed' = Wellformed BY DEF Finish, Wellformed, Name, Value, KnownTo
<1>3. ForceHolds' = ForceHolds /\ NoneBad' = NoneBad
  BY DEF Finish, ForceHolds, NoneBad, Noted, Name, Value, KnownTo
<1>4. Complete' = Complete
  BY DEF Finish, Complete, RangeHolds, CursorWhole, OneProjection, TokenGiven
<1>5. \A n \in seen : \E i \in DOMAIN pairs : Noted(i)' /\ Name(i)' = n
  BY DEF QueryInv, Finish, Noted, Name
<1>6. WellformedIsRead' BY <1>2, <1>4 DEF QueryInv, Finish, WellformedIsRead
<1>7. TwiceHolds' = TwiceHolds
  BY DEF Finish, TwiceHolds, Forgets, Noted, Name, Value, KnownTo
<1>8. FirstPassDone' = FirstPassDone
  BY DEF Finish, FirstPassDone, Duplicated, Name, KnownTo
<1> QED BY <1>1, <1>2, <1>3, <1>4, <1>5, <1>6, <1>7, <1>8 DEF QueryInv, Finish

\* The parameters that forget a value forget the blank one only.
LEMMA QueryForgets ==
    ASSUME NEW r \in DOMAIN Readers, NEW n \in DOMAIN Readers[r], ~Readers[r][n].seen
    PROVE  <<r, n>> \in Forgotten /\ Readers[r][n].none = {"blank"}
<1>1. DOMAIN Readers =
        {"audit_events", "users", "consent_grants", "oidc_clients", "plain_list", "projection",
         "scim_users", "scim_groups", "scim_user_search", "scim_group_search",
         "scim_user_filter", "scim_group_filter", "audit_export", "authorization",
         "end_session", "token", "introspection", "revocation", "userinfo"}
  BY DEF Readers
<1>2. /\ Readers["audit_events"] = AuditEvents /\ Readers["users"] = Users
      /\ Readers["consent_grants"] = ConsentGrants /\ Readers["oidc_clients"] = OidcClients
      /\ Readers["plain_list"] = Page /\ Readers["projection"] = Projection
      /\ Readers["scim_users"] = ScimUserList /\ Readers["scim_groups"] = ScimGroupList
      /\ Readers["scim_user_search"] = ScimUserSearch
      /\ Readers["scim_group_search"] = ScimGroupSearch
      /\ Readers["scim_user_filter"] = ScimUserFilter
      /\ Readers["scim_group_filter"] = ScimGroupFilter
      /\ Readers["audit_export"] = AuditExport /\ Readers["authorization"] = Authorization
      /\ Readers["end_session"] = EndSession /\ Readers["token"] = TokenForm
      /\ Readers["introspection"] = IntrospectionForm
      /\ Readers["revocation"] = RevocationForm /\ Readers["userinfo"] = UserInfoForm
  BY DEF Readers
<1>3. Exact.seen = TRUE /\ Text.seen = TRUE /\ Prefix.seen = TRUE /\ Scope.seen = TRUE
  BY DEF Exact, Text, Prefix, Scope, Kind
<1>4. \A f \in {AuditEvents, Users, OidcClients} : \A m \in DOMAIN f : f[m].seen = TRUE
  BY <1>3 DEF AuditEvents, Users, OidcClients
<1>5. \A m \in DOMAIN ConsentGrants : ConsentGrants[m].seen = TRUE
  BY <1>3 DEF ConsentGrants, Kind
<1>6. \A f \in {Page, Projection, ScimUserList, ScimGroupList, ScimUserSearch, ScimGroupSearch,
                ScimGroupFilter} : \A m \in DOMAIN f : f[m].seen = TRUE
  BY <1>3 DEF Page, Projection, ScimUserList, ScimGroupList, ScimUserSearch, ScimGroupSearch,
              ScimGroupFilter
<1>7. \A m \in DOMAIN Authorization : Authorization[m].seen = TRUE
  BY <1>3 DEF Authorization, Kind
<1>8. \A f \in {EndSession, TokenForm, IntrospectionForm, RevocationForm, UserInfoForm} :
        \A m \in DOMAIN f : f[m].seen = TRUE
  BY <1>3 DEF EndSession, TokenForm, IntrospectionForm, RevocationForm, UserInfoForm
<1>9. r = "scim_user_filter" \/ r = "audit_export" BY <1>1, <1>2, <1>4, <1>5, <1>6, <1>7, <1>8
<1>10. CASE r = "scim_user_filter"
  <2>1. n = "externalId" /\ Readers[r][n].none = {"blank"}
    BY <1>2, <1>3, <1>10 DEF ScimUserFilter, Kind
  <2> QED BY <1>10, <2>1 DEF Forgotten
<1>11. CASE r = "audit_export"
  <2>1. n \in {"--action", "--target"} /\ Readers[r][n].none = {"blank"}
    BY <1>2, <1>3, <1>11 DEF AuditExport, Kind
  <2> QED BY <1>11, <2>1 DEF Forgotten
<1> QED BY <1>9, <1>10, <1>11

LEMMA QueryReadPair == QueryInv /\ ReadPair => QueryInv'
<1> SUFFICES ASSUME QueryInv, ReadPair PROVE QueryInv' OBVIOUS
<1>p. PICK p : p = position OBVIOUS
<1>n. PICK n : n = Name(p) OBVIOUS
<1>v. PICK v : v = Value(p) OBVIOUS
<1>k. PICK k : k = Readers[reader][n] OBVIOUS
<1>1. /\ p \in DOMAIN pairs /\ p \in 1..Len(pairs) /\ Len(pairs) \in Nat
      /\ DOMAIN pairs = 1..Len(pairs)
      /\ pairs[p] \in Sampled[reader] \X Values /\ v \in Values
  BY <1>p, <1>v, LenProperties DEF QueryInv, QueryTyped, ReadPair, Value
<1>2. /\ verdict \in {"reading", "late"} /\ position' = p + 1
      /\ reader' = reader /\ pairs' = pairs
  BY <1>p DEF ReadPair
<1>3. \/ /\ ~KnownTo(n)
         /\ verdict' = IF reader \in TwoPass THEN verdict ELSE "refused"
         /\ inForce' = inForce /\ seen' = seen
      \/ /\ KnownTo(n) /\ (n \in seen \/ v \in k.bad)
         /\ verdict' = "refused" /\ inForce' = inForce /\ seen' = seen
      \/ /\ KnownTo(n) /\ n \notin seen /\ v \notin k.bad
         /\ inForce' = [inForce EXCEPT ![n] = IF v \in k.none THEN Unset ELSE v]
         /\ seen' = Remember(n, v)
         /\ verdict' = IF v \in k.late THEN "late" ELSE verdict
  BY <1>p, <1>n, <1>v, <1>k DEF ReadPair, Refuse
<1>4. /\ \A i : Name(i)' = Name(i) /\ Value(i)' = Value(i) /\ KnownTo(i)' = KnownTo(i)
      /\ \A i \in DOMAIN pairs : Noted(i)' <=> (Noted(i) \/ i = p)
      /\ ~Noted(p)
  BY <1>1, <1>2, <1>p DEF Name, Value, KnownTo, Noted
<1>5. Wellformed' = Wellformed BY <1>2 DEF Wellformed, Name, Value, KnownTo
<1>6. QueryTyped'
  <2>1. position' \in 0..(Len(pairs) + 1) BY <1>1, <1>2
  <2>2. inForce' \in [DOMAIN Readers[reader] -> Values \cup {Unset}]
    BY <1>1, <1>3 DEF QueryInv, QueryTyped
  <2>3. verdict' \in {"reading", "late", "refused", "accepted"} BY <1>2, <1>3
  <2> QED BY <1>2, <2>1, <2>2, <2>3 DEF QueryInv, QueryTyped
<1>7. \A m \in seen' : \E i \in DOMAIN pairs' : Noted(i)' /\ Name(i)' = m
  <2>1. \A m \in seen' : m \in seen \/ m = n BY <1>3 DEF Remember
  <2> QED BY <1>1, <1>2, <1>4, <1>n, <2>1 DEF QueryInv
<1>8. ASSUME verdict' # "refused" PROVE ForceHolds' /\ NoneBad'
  <2>0. ForceHolds /\ NoneBad BY <1>2 DEF QueryInv
  <2>1. CASE ~KnownTo(n)
    <3>1. inForce' = inForce /\ seen' = seen BY <1>3, <2>1
    <3>2. DOMAIN inForce = DOMAIN Readers[reader] BY DEF QueryInv, QueryTyped
    <3>3. \A m \in DOMAIN inForce : m # n BY <2>1, <3>2 DEF KnownTo
    <3>4. NoneBad' BY <1>2, <1>4, <1>n, <2>0, <2>1 DEF NoneBad
    <3>5. ASSUME NEW m \in DOMAIN inForce, NEW i \in DOMAIN pairs
          PROVE  (Noted(i)' /\ Name(i) = m) <=> (Noted(i) /\ Name(i) = m)
      BY <1>4, <1>n, <3>3
    <3>6. ForceHolds' BY <1>2, <1>4, <2>0, <3>1, <3>5 DEF ForceHolds
    <3> QED BY <3>4, <3>6
  <2>2. CASE KnownTo(n)
    <3>1. /\ n \notin seen /\ v \notin k.bad
          /\ inForce' = [inForce EXCEPT ![n] = IF v \in k.none THEN Unset ELSE v]
          /\ seen' = Remember(n, v)
      BY <1>3, <1>8, <2>2
    <3>2. DOMAIN inForce = DOMAIN Readers[reader] /\ n \in DOMAIN inForce
      BY <2>2 DEF QueryInv, QueryTyped, KnownTo
    <3>3. DOMAIN inForce' = DOMAIN inForce BY <3>1
    <3>4. NoneBad' BY <1>2, <1>4, <1>n, <1>v, <1>k, <2>0, <3>1 DEF NoneBad
    <3>5. \A i \in DOMAIN pairs : Noted(i) /\ Name(i) = n => Value(i) \in k.none
      BY <1>k, <2>0, <3>1, <3>2 DEF ForceHolds
    <3>6. Unset \notin Values BY DEF Unset, Values
    <3>7. ASSUME NEW m \in DOMAIN inForce, m # n
          PROVE  /\ m \notin seen' => inForce'[m] = Unset
                 /\ inForce'[m] = Unset =>
                      \A i \in DOMAIN pairs :
                         Noted(i)' /\ Name(i) = m => Value(i) \in Readers[reader][m].none
                 /\ inForce'[m] # Unset =>
                      /\ \E i \in DOMAIN pairs : /\ Noted(i)' /\ Name(i) = m /\ Value(i) = inForce'[m]
                                                 /\ Value(i) \notin Readers[reader][m].none
                      /\ \A i \in DOMAIN pairs :
                            Noted(i)' /\ Name(i) = m =>
                                Value(i) \in Readers[reader][m].none \cup {inForce'[m]}
      <4>1. inForce'[m] = inForce[m] BY <3>1, <3>7
      <4>2. m \notin seen' => m \notin seen BY <3>1 DEF Remember
      <4>3. \A i \in DOMAIN pairs : (Noted(i)' /\ Name(i) = m) <=> (Noted(i) /\ Name(i) = m)
        BY <1>4, <1>n, <3>7
      <4>4. /\ m \notin seen => inForce[m] = Unset
            /\ inForce[m] = Unset =>
                 \A i \in DOMAIN pairs :
                    Noted(i) /\ Name(i) = m => Value(i) \in Readers[reader][m].none
            /\ inForce[m] # Unset =>
                 /\ \E i \in DOMAIN pairs : /\ Noted(i) /\ Name(i) = m /\ Value(i) = inForce[m]
                                            /\ Value(i) \notin Readers[reader][m].none
                 /\ \A i \in DOMAIN pairs :
                       Noted(i) /\ Name(i) = m =>
                           Value(i) \in Readers[reader][m].none \cup {inForce[m]}
        BY <2>0 DEF ForceHolds
      <4> QED BY <4>1, <4>2, <4>3, <4>4
    <3>8. CASE v \in k.none
      <4>1. inForce'[n] = Unset BY <3>1, <3>2, <3>8
      <4>2. \A i \in DOMAIN pairs : Noted(i)' /\ Name(i) = n => Value(i) \in k.none
        BY <1>4, <1>v, <3>5, <3>8
      <4> QED BY <1>2, <1>4, <1>k, <3>3, <3>4, <3>7, <4>1, <4>2 DEF ForceHolds
    <3>9. CASE v \notin k.none
      <4>1. inForce'[n] = v /\ v # Unset BY <1>1, <3>1, <3>2, <3>6, <3>9
      <4>2. n \in seen' BY <1>k, <3>1, <3>9 DEF Remember
      <4>3. \A i \in DOMAIN pairs : Noted(i)' /\ Name(i) = n => Value(i) \in k.none \cup {v}
        BY <1>4, <1>v, <3>5
      <4>4. \E i \in DOMAIN pairs : Noted(i)' /\ Name(i) = n /\ Value(i) = v /\ Value(i) \notin k.none
        BY <1>1, <1>4, <1>n, <1>v, <3>9
      <4> QED BY <1>2, <1>4, <1>k, <3>3, <3>4, <3>7, <4>1, <4>2, <4>3, <4>4 DEF ForceHolds
    <3> QED BY <3>8, <3>9
  <2> QED BY <2>1, <2>2
<1>9. ASSUME verdict' = "refused" PROVE ~Wellformed
  <2>1. CASE ~KnownTo(n) /\ reader \notin TwoPass BY <1>1, <1>n, <2>1 DEF Wellformed
  <2>2. CASE KnownTo(n) /\ n \in seen
    <3>1. PICK i \in DOMAIN pairs : Noted(i) /\ Name(i) = n BY <2>2 DEF QueryInv
    <3>2. i # p BY <1>4, <3>1
    <3> QED BY <1>1, <1>n, <3>1, <3>2 DEF Wellformed
  <2>3. CASE KnownTo(n) /\ v \in k.bad BY <1>1, <1>n, <1>v, <1>k, <2>3 DEF Wellformed
  <2>4. \/ ~KnownTo(n) /\ reader \notin TwoPass
        \/ KnownTo(n) /\ n \in seen
        \/ KnownTo(n) /\ v \in k.bad
    BY <1>2, <1>3, <1>9
  <2> QED BY <2>1, <2>2, <2>3, <2>4
<1>10. ASSUME verdict' = "late" PROVE ~Wellformed
  <2>1. CASE verdict = "late" BY <2>1 DEF QueryInv
  <2>2. CASE verdict # "late"
    <3>1. KnownTo(n) /\ v \in k.late BY <1>2, <1>3, <1>10, <2>2
    <3> QED BY <1>1, <1>n, <1>v, <1>k, <3>1 DEF Wellformed
  <2> QED BY <2>1, <2>2
<1>11. verdict' # "accepted" BY <1>2, <1>3
<1>12. WellformedIsRead' BY <1>5, <1>9 DEF WellformedIsRead
<1>13. ASSUME verdict' # "refused" PROVE TwiceHolds'
  <2>0. TwiceHolds BY <1>2 DEF QueryInv
  <2>1. \A i : Forgets(i)' = Forgets(i) BY <1>2 DEF Forgets, Name, Value
  <2>2. seen \subseteq seen' BY <1>3 DEF Remember
  <2>3. KnownTo(n) => n \notin seen BY <1>3, <1>13
  <2>4. ~KnownTo(n) => reader \in TwoPass BY <1>3, <1>13
  <2>5. ASSUME KnownTo(n), n \notin seen' PROVE Forgets(p)
    <3>1. v \in k.none /\ ~k.seen BY <1>3, <1>13, <1>k, <2>5 DEF Remember
    <3>2. <<reader, n>> \in Forgotten /\ k.none = {"blank"}
      BY <1>k, <2>5, <3>1, QueryForgets DEF QueryInv, QueryTyped, KnownTo
    <3> QED BY <1>n, <1>v, <3>1, <3>2 DEF Forgets
  <2>6. ASSUME NEW i \in DOMAIN pairs, Noted(i)'
        PROVE  /\ KnownTo(Name(i)) /\ Name(i) \notin seen' => Forgets(i)
               /\ ~KnownTo(Name(i)) => reader \in TwoPass
    <3>1. CASE i = p BY <1>n, <2>4, <2>5, <3>1
    <3>2. CASE Noted(i) BY <2>0, <2>2, <3>2 DEF TwiceHolds
    <3> QED BY <1>4, <2>6, <3>1, <3>2
  <2>7. ASSUME NEW i \in DOMAIN pairs, NEW j \in DOMAIN pairs, Noted(i)', Noted(j)', i < j,
               Name(i) = Name(j), KnownTo(Name(i))
        PROVE  Forgets(i)
    <3>1. i # p BY <1>1, <1>2, <2>7 DEF Noted
    <3>2. Noted(i) BY <1>4, <2>7, <3>1
    <3>3. CASE j = p
      <4>1. Name(i) \notin seen BY <1>n, <2>3, <2>7, <3>3
      <4> QED BY <2>0, <2>7, <3>2, <4>1 DEF TwiceHolds
    <3>4. CASE Noted(j) BY <2>0, <2>7, <3>2, <3>4 DEF TwiceHolds
    <3> QED BY <1>4, <2>7, <3>3, <3>4
  <2> QED BY <1>2, <1>4, <2>1, <2>6, <2>7 DEF TwiceHolds
<1>14. ASSUME verdict' # "refused" PROVE FirstPassDone'
  <2>1. Duplicated' = Duplicated BY <1>2 DEF Duplicated, Name, KnownTo
  <2>2. CASE p = 1 BY <1>2, <1>p, <2>1, <2>2 DEF ReadPair, FirstPassDone
  <2>3. CASE p > 1 BY <1>2, <1>p, <2>1, <2>3 DEF QueryInv, FirstPassDone
  <2> QED BY <1>1, <2>2, <2>3
<1> QED BY <1>5, <1>6, <1>7, <1>8, <1>10, <1>11, <1>12, <1>13, <1>14 DEF QueryInv

LEMMA QueryStep == QueryInv /\ [QueryNext]_queryVars => QueryInv'
<1> SUFFICES ASSUME QueryInv, [QueryNext]_queryVars PROVE QueryInv' OBVIOUS
<1>1. CASE UNCHANGED queryVars
  <2>1. \A i : /\ Name(i)' = Name(i) /\ Value(i)' = Value(i) /\ KnownTo(i)' = KnownTo(i)
               /\ Noted(i)' = Noted(i)
    BY <1>1 DEF queryVars, Name, Value, KnownTo, Noted
  <2>2. ForceHolds' = ForceHolds /\ NoneBad' = NoneBad /\ Wellformed' = Wellformed
    BY <1>1 DEF queryVars, ForceHolds, NoneBad, Wellformed, Noted, Name, Value, KnownTo
  <2>3. Complete' = Complete
    BY <1>1 DEF queryVars, Complete, RangeHolds, CursorWhole, OneProjection, TokenGiven
  <2>4. QueryTyped' BY <1>1 DEF queryVars, QueryInv, QueryTyped
  <2>5. WellformedIsRead' BY <1>1, <2>2, <2>3 DEF queryVars, QueryInv, WellformedIsRead
  <2>6. TwiceHolds' = TwiceHolds /\ FirstPassDone' = FirstPassDone
    BY <1>1 DEF queryVars, TwiceHolds, FirstPassDone, Duplicated, Forgets, Noted, Name, Value, KnownTo
  <2> QED BY <1>1, <2>1, <2>2, <2>3, <2>4, <2>5, <2>6 DEF queryVars, QueryInv
<1> QED BY <1>1, QueryDecode, QueryDuplicate, QueryReadPair, QueryFinish DEF QueryNext

\* The readers that know a range, and how strict they are about its ends.
LEMMA QueryRanges ==
    /\ \A r \in DOMAIN Readers : "from" \in DOMAIN Readers[r] => r = "audit_events"
    /\ \A r \in DOMAIN Readers : "--from" \in DOMAIN Readers[r] => r = "audit_export"
    /\ \A n \in {"from", "to"} :
         n \in DOMAIN Readers["audit_events"] /\ Readers["audit_events"][n] = Exact
    /\ \A n \in {"--from", "--to"} :
         n \in DOMAIN Readers["audit_export"] /\ Readers["audit_export"][n] = Exact
<1>1. DOMAIN Readers =
        {"audit_events", "users", "consent_grants", "oidc_clients", "plain_list", "projection",
         "scim_users", "scim_groups", "scim_user_search", "scim_group_search",
         "scim_user_filter", "scim_group_filter", "audit_export", "authorization",
         "end_session", "token", "introspection", "revocation", "userinfo"}
  BY DEF Readers
<1>2. /\ Readers["audit_events"] = AuditEvents /\ Readers["users"] = Users
      /\ Readers["consent_grants"] = ConsentGrants /\ Readers["oidc_clients"] = OidcClients
      /\ Readers["plain_list"] = Page /\ Readers["projection"] = Projection
      /\ Readers["scim_users"] = ScimUserList /\ Readers["scim_groups"] = ScimGroupList
      /\ Readers["scim_user_search"] = ScimUserSearch
      /\ Readers["scim_group_search"] = ScimGroupSearch
      /\ Readers["scim_user_filter"] = ScimUserFilter
      /\ Readers["scim_group_filter"] = ScimGroupFilter
      /\ Readers["audit_export"] = AuditExport /\ Readers["authorization"] = Authorization
      /\ Readers["end_session"] = EndSession /\ Readers["token"] = TokenForm
      /\ Readers["introspection"] = IntrospectionForm
      /\ Readers["revocation"] = RevocationForm /\ Readers["userinfo"] = UserInfoForm
  BY DEF Readers
<1>3. \A f \in {Users, ConsentGrants, OidcClients, Page, Projection, ScimUserList, ScimGroupList,
                ScimUserSearch, ScimGroupSearch, ScimUserFilter, ScimGroupFilter} :
         "from" \notin DOMAIN f /\ "--from" \notin DOMAIN f
  BY DEF Users, ConsentGrants, OidcClients, Page, PageNames, Projection, ProjectionNames,
         ScimUserList, ScimGroupList, ScimUserSearch, ScimGroupSearch, ScimUserFilter, ScimGroupFilter
<1>4. \A f \in {Authorization, EndSession, TokenForm, IntrospectionForm, RevocationForm, UserInfoForm} :
         "from" \notin DOMAIN f /\ "--from" \notin DOMAIN f
  BY DEF Authorization, AuthorizationNames, EndSession, EndSessionNames, TokenForm, IntrospectionForm,
         RevocationForm, UserInfoForm
<1>5. /\ "--from" \notin DOMAIN AuditEvents
      /\ \A n \in {"from", "to"} : n \in DOMAIN AuditEvents /\ AuditEvents[n] = Exact
  BY DEF AuditEvents, PageNames
<1>6. /\ "from" \notin DOMAIN AuditExport
      /\ \A n \in {"--from", "--to"} : n \in DOMAIN AuditExport /\ AuditExport[n] = Exact
  BY DEF AuditExport
<1>7. ASSUME NEW r \in DOMAIN Readers, r # "audit_events", r # "audit_export"
      PROVE  "from" \notin DOMAIN Readers[r] /\ "--from" \notin DOMAIN Readers[r]
  BY <1>1, <1>2, <1>3, <1>4, <1>7
<1> QED BY <1>2, <1>5, <1>6, <1>7

LEMMA QueryAccepted ==
    ASSUME QueryInv, verdict = "accepted", NEW n \in DOMAIN inForce
    PROVE  LET wanted == Asked(n) \ Readers[reader][n].none IN
           /\ wanted = {} => inForce[n] = Unset
           /\ wanted # {} => wanted = {inForce[n]}
           /\ \A x \in Asked(n) : x \in Values /\ x \notin Readers[reader][n].bad
<1> DEFINE none == Readers[reader][n].none
<1>1. Len(pairs) \in Nat /\ DOMAIN pairs = 1..Len(pairs) BY LenProperties DEF QueryInv, QueryTyped
<1>2. \A i \in DOMAIN pairs : Noted(i) BY <1>1 DEF QueryInv, Noted
<1>3. ForceHolds /\ NoneBad /\ n \in DOMAIN Readers[reader] BY DEF QueryInv, QueryTyped
<1>4. \A i \in DOMAIN pairs : Value(i) \in Values
  BY <1>1, ElementOfSeq DEF QueryInv, QueryTyped, Value
<1>5. \A x \in Asked(n) : \E i \in DOMAIN pairs : Name(i) = n /\ x = Value(i) BY DEF Asked
<1>6. \A i \in DOMAIN pairs : Name(i) = n => Value(i) \in Asked(n) BY DEF Asked
<1>7. \A x \in Asked(n) : x \in Values /\ x \notin Readers[reader][n].bad
  BY <1>2, <1>3, <1>4, <1>5 DEF NoneBad, KnownTo
<1>8. CASE inForce[n] = Unset
  <2>1. \A i \in DOMAIN pairs : Name(i) = n => Value(i) \in none BY <1>2, <1>3, <1>8 DEF ForceHolds
  <2>2. Asked(n) \ none = {} BY <1>5, <2>1
  <2> QED BY <1>7, <1>8, <2>2
<1>9. CASE inForce[n] # Unset
  <2>1. /\ \E i \in DOMAIN pairs : Name(i) = n /\ Value(i) = inForce[n] /\ Value(i) \notin none
        /\ \A i \in DOMAIN pairs : Name(i) = n => Value(i) \in none \cup {inForce[n]}
    BY <1>2, <1>3, <1>9 DEF ForceHolds
  <2>2. inForce[n] \in Asked(n) \ none BY <1>6, <2>1
  <2>3. \A x \in Asked(n) \ none : x = inForce[n] BY <1>5, <2>1
  <2>4. Asked(n) \ none = {inForce[n]} BY <2>2, <2>3
  <2> QED BY <1>7, <2>2, <2>4
<1> QED BY <1>8, <1>9

LEMMA QueryExactRange ==
    ASSUME QueryInv, verdict = "accepted", NEW f \in DOMAIN inForce, NEW t \in DOMAIN inForce,
           Readers[reader][f] = Exact, Readers[reader][t] = Exact, RangeHolds(f, t),
           Asked(f) # {}, Asked(t) # {}
    PROVE  Asked(f) = {"v"} /\ Asked(t) = {"w"}
<1>1. Exact.none = {} /\ Exact.bad = {"blank", "bad", "big"} BY DEF Exact, Kind
<1>2. \A n \in {f, t} : Asked(n) = {inForce[n]} /\ inForce[n] \in {"v", "w"}
  <2> SUFFICES ASSUME NEW n \in {f, t}
               PROVE  Asked(n) = {inForce[n]} /\ inForce[n] \in {"v", "w"}
    OBVIOUS
  <2>1. Asked(n) \ {} = Asked(n) /\ Asked(n) # {} OBVIOUS
  <2>2. Asked(n) = {inForce[n]} BY <1>1, <2>1, QueryAccepted
  <2>3. \A x \in Asked(n) : x \in Values /\ x \notin {"blank", "bad", "big"} BY <1>1, QueryAccepted
  <2> QED BY <2>2, <2>3 DEF Values
<1>3. inForce[f] = "v" /\ inForce[t] = "w" BY <1>2 DEF RangeHolds
<1> QED BY <1>2, <1>3

LEMMA QueryImplies == QueryInv => ReadAsWritten
<1> SUFFICES ASSUME QueryInv PROVE ReadAsWritten OBVIOUS
<1>1. NothingOverridden
  <2> SUFFICES ASSUME verdict = "accepted", NEW n \in DOMAIN inForce
               PROVE  LET wanted == Asked(n) \ Readers[reader][n].none IN
                      IF wanted = {} THEN inForce[n] = Unset ELSE wanted = {inForce[n]}
    BY DEF NothingOverridden
  <2> QED BY QueryAccepted
<1>2. RangesNonEmpty
  <2>1. ASSUME verdict = "accepted", "from" \in DOMAIN inForce, "to" \in DOMAIN inForce,
               Asked("from") # {}, Asked("to") # {}
        PROVE  Asked("from") = {"v"} /\ Asked("to") = {"w"}
    <3>1. reader = "audit_events" BY <2>1, QueryRanges DEF QueryInv, QueryTyped
    <3>2. Readers[reader]["from"] = Exact /\ Readers[reader]["to"] = Exact BY <3>1, QueryRanges
    <3>3. RangeHolds("from", "to") BY <2>1, <3>1 DEF QueryInv, Complete
    <3> QED BY <2>1, <3>2, <3>3, QueryExactRange
  <2>2. ASSUME verdict = "accepted", "--from" \in DOMAIN inForce, "--to" \in DOMAIN inForce,
               Asked("--from") # {}, Asked("--to") # {}
        PROVE  Asked("--from") = {"v"} /\ Asked("--to") = {"w"}
    <3>1. reader = "audit_export" BY <2>2, QueryRanges DEF QueryInv, QueryTyped
    <3>2. Readers[reader]["--from"] = Exact /\ Readers[reader]["--to"] = Exact BY <3>1, QueryRanges
    <3>3. RangeHolds("--from", "--to") BY <2>2, <3>1 DEF QueryInv, Complete
    <3> QED BY <2>2, <3>2, <3>3, QueryExactRange
  <2> QED BY <2>1, <2>2 DEF RangesNonEmpty
<1>3. DuplicatesRefused
  <2> SUFFICES ASSUME verdict = "accepted", NEW i \in DOMAIN pairs, NEW j \in DOMAIN pairs,
                      i < j, Name(i) = Name(j)
               PROVE  (reader \in TwoPass \ Forms /\ ~KnownTo(Name(i))) \/ Forgets(i)
    BY DEF DuplicatesRefused
  <2>1. /\ TwiceHolds /\ FirstPassDone /\ position = Len(pairs) + 1
        /\ Len(pairs) \in Nat /\ DOMAIN pairs = 1..Len(pairs)
    BY LenProperties DEF QueryInv, QueryTyped
  <2>2. Noted(i) /\ Noted(j) /\ position > 1 BY <2>1 DEF Noted
  <2>3. CASE KnownTo(Name(i)) BY <2>1, <2>2, <2>3 DEF TwiceHolds
  <2>4. CASE ~KnownTo(Name(i))
    <3>1. reader \in TwoPass BY <2>1, <2>2, <2>4 DEF TwiceHolds
    <3>2. ~Duplicated BY <2>1, <2>2, <3>1 DEF FirstPassDone
    <3>3. reader \notin Forms BY <3>2 DEF Duplicated
    <3> QED BY <2>4, <3>1, <3>3
  <2> QED BY <2>3, <2>4
<1> QED BY <1>1, <1>2, <1>3 DEF QueryInv, ReadAsWritten

\* The readers of query strings, forms and command lines: however many pairs
\* a request has and in whatever order they come, one that is accepted has in
\* force exactly what it asked for, gives no parameter twice but after a blank
\* that is forgotten, has no empty range, and a well-formed request is refused only for what it asks as a whole.
THEOREM QueriesReadAsWritten == QuerySpec => []ReadAsWritten
<1>1. QueryInit => QueryInv BY QueryInitHolds
<1>2. QueryInv /\ [QueryNext]_queryVars => QueryInv' BY QueryStep
<1>3. QueryInv => ReadAsWritten BY QueryImplies
<1> QED BY <1>1, <1>2, <1>3, PTL DEF QuerySpec

-----------------------------------------------------------------------------
(* Listings: the order of a statement and the rows it puts first.          *)

TableOK ==
    /\ DOMAIN rows \subseteq RowIds
    /\ \A r \in DOMAIN rows : rows[r] \in [at : Nat, matches : BOOLEAN]

LEMMA RowsFinite ==
    /\ IsFiniteSet(RowIds) /\ RowIds \subseteq Nat
    /\ \A S \in SUBSET RowIds : IsFiniteSet(S) /\ Cardinality(S) \in Nat
<1>1. IsFiniteSet(RowIds) BY ListConstants, FS_Interval DEF RowIds
<1>2. RowIds \subseteq Nat BY ListConstants DEF RowIds
<1>3. \A S \in SUBSET RowIds : IsFiniteSet(S) BY <1>1, FS_Subset
<1>4. \A S \in SUBSET RowIds : Cardinality(S) \in Nat BY <1>3, FS_CardinalityType
<1> QED BY <1>1, <1>2, <1>3, <1>4

\* A subset of rows has at most as many, and as many only if it is all.
LEMMA RowsSubset ==
    ASSUME NEW S \in SUBSET RowIds, NEW T \in SUBSET S
    PROVE  Cardinality(T) \in Nat /\ Cardinality(S) \in Nat /\ Cardinality(T) <= Cardinality(S)
BY RowsFinite, FS_Subset

Keys == [at : Nat, id : Nat]

LEMMA PrecedesOrder ==
    /\ \A a \in Keys : ~Precedes(a, a)
    /\ \A a, b, c \in Keys : Precedes(a, b) /\ Precedes(b, c) => Precedes(a, c)
    /\ \A a, b \in Keys : a.id # b.id => Precedes(a, b) \/ Precedes(b, a)
    /\ \A a, b \in Keys : Precedes(a, b) => ~Precedes(b, a)
BY DEF Keys, Precedes

LEMMA KeyOK ==
    ASSUME TableOK, NEW r \in DOMAIN rows
    PROVE  Key(r) \in Keys /\ Key(r).id = r /\ Key(r).at = rows[r].at
BY RowsFinite DEF TableOK, Key, Keys

Before(S, r) == {q \in S : Precedes(Key(q), Key(r))}
Behind(S, r) == {q \in S : Precedes(Key(r), Key(q))}

LEMMA RowOrder ==
    ASSUME TableOK
    PROVE  /\ \A r \in DOMAIN rows : ~Precedes(Key(r), Key(r))
           /\ \A p, q, r \in DOMAIN rows :
                 Precedes(Key(p), Key(q)) /\ Precedes(Key(q), Key(r)) => Precedes(Key(p), Key(r))
           /\ \A q, r \in DOMAIN rows : q # r => Precedes(Key(q), Key(r)) \/ Precedes(Key(r), Key(q))
           /\ \A q, r \in DOMAIN rows : Precedes(Key(q), Key(r)) => ~Precedes(Key(r), Key(q))
<1>1. \A r \in DOMAIN rows : Key(r) \in Keys /\ Key(r).id = r BY KeyOK
<1> QED BY <1>1, PrecedesOrder

\* A set of rows has a first and a last one.
LEMMA FirstExists ==
    ASSUME TableOK, NEW S \in SUBSET DOMAIN rows, S # {}
    PROVE  \E r \in S : Before(S, r) = {}
<1> DEFINE All == {Before(S, r) : r \in S}
<1>1. \A r \in S : Before(S, r) \in SUBSET RowIds BY DEF Before, TableOK
<1>2. All \subseteq FiniteSubsetsOf(RowIds) BY <1>1, RowsFinite DEF FiniteSubsetsOf
<1>3. All # {} OBVIOUS
<1>4. IsWellFoundedOn(StrictSubsetOrdering(RowIds), FiniteSubsetsOf(RowIds))
  BY FS_StrictSubsetOrderingWellFounded
<1> HIDE DEF All
<1>5. \E x \in All : \A y \in All : ~(<<y, x>> \in StrictSubsetOrdering(RowIds))
  BY <1>2, <1>3, <1>4, WFMin
<1>6. PICK r \in S : \A y \in All : ~(<<y, Before(S, r)>> \in StrictSubsetOrdering(RowIds))
  BY <1>5 DEF All
<1>7. ASSUME NEW q \in Before(S, r) PROVE FALSE
  <2>1. q \in S /\ q \in DOMAIN rows /\ r \in DOMAIN rows /\ Precedes(Key(q), Key(r)) BY DEF Before
  <2>2. Before(S, q) \subseteq Before(S, r) BY <2>1, RowOrder DEF Before
  <2>3. q \notin Before(S, q) BY <2>1, RowOrder DEF Before
  <2>4. Before(S, q) \in All BY <2>1 DEF All
  <2> QED BY <1>1, <1>6, <2>1, <2>2, <2>3, <2>4 DEF StrictSubsetOrdering
<1> QED BY <1>7

LEMMA FinalExists ==
    ASSUME TableOK, NEW S \in SUBSET DOMAIN rows, S # {}
    PROVE  FinalRow(S) \in S /\ \A q \in S \ {FinalRow(S)} : Precedes(Key(q), Key(FinalRow(S)))
<1> DEFINE All == {Behind(S, r) : r \in S}
<1>1. \A r \in S : Behind(S, r) \in SUBSET RowIds BY DEF Behind, TableOK
<1>2. All \subseteq FiniteSubsetsOf(RowIds) BY <1>1, RowsFinite DEF FiniteSubsetsOf
<1>3. All # {} OBVIOUS
<1>4. IsWellFoundedOn(StrictSubsetOrdering(RowIds), FiniteSubsetsOf(RowIds))
  BY FS_StrictSubsetOrderingWellFounded
<1> HIDE DEF All
<1>5. \E x \in All : \A y \in All : ~(<<y, x>> \in StrictSubsetOrdering(RowIds))
  BY <1>2, <1>3, <1>4, WFMin
<1>6. PICK r \in S : \A y \in All : ~(<<y, Behind(S, r)>> \in StrictSubsetOrdering(RowIds))
  BY <1>5 DEF All
<1>7. ASSUME NEW q \in Behind(S, r) PROVE FALSE
  <2>1. q \in S /\ q \in DOMAIN rows /\ r \in DOMAIN rows /\ Precedes(Key(r), Key(q)) BY DEF Behind
  <2>2. Behind(S, q) \subseteq Behind(S, r) BY <2>1, RowOrder DEF Behind
  <2>3. q \notin Behind(S, q) BY <2>1, RowOrder DEF Behind
  <2>4. Behind(S, q) \in All BY <2>1 DEF All
  <2> QED BY <1>1, <1>6, <2>1, <2>2, <2>3, <2>4 DEF StrictSubsetOrdering
<1>8. \A q \in S \ {r} : Precedes(Key(q), Key(r)) BY <1>7, RowOrder DEF Behind
<1>9. \E x \in S : \A q \in S \ {x} : Precedes(Key(q), Key(x)) BY <1>8
<1> QED BY <1>9 DEF FinalRow

\* Rank counts the rows before; it grows with the set and along the order.
LEMMA RankCounts ==
    ASSUME TableOK, NEW S \in SUBSET DOMAIN rows, NEW r \in S
    PROVE  /\ Rank(S, r) = Cardinality(Before(S, r)) /\ Rank(S, r) \in Nat
           /\ Cardinality(S) \in Nat /\ Rank(S, r) < Cardinality(S)
<1>1. Rank(S, r) = Cardinality(Before(S, r)) BY DEF Rank, Before
<1>2. S \in SUBSET RowIds /\ Before(S, r) \in SUBSET S BY DEF TableOK, Before
<1>3. /\ Cardinality(S) \in Nat /\ Cardinality(Before(S, r)) \in Nat
      /\ Cardinality(Before(S, r)) <= Cardinality(S)
  BY <1>2, RowsSubset
<1>4. r \notin Before(S, r) BY RowOrder DEF Before
<1>5. Cardinality(Before(S, r)) # Cardinality(S)
  BY <1>2, <1>4, RowsFinite, FS_Subset
<1> QED BY <1>1, <1>3, <1>5

LEMMA RankAlong ==
    ASSUME TableOK, NEW S \in SUBSET DOMAIN rows, NEW q \in S, NEW r \in S,
           Precedes(Key(q), Key(r))
    PROVE  Rank(S, q) <= Rank(S, r)
<1>1. Before(S, q) \subseteq Before(S, r) BY RowOrder DEF Before
<1>2. Before(S, r) \in SUBSET RowIds BY DEF Before, TableOK
<1>3. Cardinality(Before(S, q)) <= Cardinality(Before(S, r)) BY <1>1, <1>2, RowsSubset
<1> QED BY <1>3, RankCounts

\* The first n rows of a set come before all its other rows.
LEMMA FirstIsPrefix ==
    ASSUME TableOK, NEW S \in SUBSET DOMAIN rows, NEW n \in Nat,
           NEW q \in First(S, n), NEW r \in S, r \notin First(S, n)
    PROVE  Precedes(Key(q), Key(r))
<1>1. q \in S /\ Rank(S, q) < n /\ ~(Rank(S, r) < n) BY DEF First
<1>2. Rank(S, q) \in Nat /\ Rank(S, r) \in Nat BY <1>1, RankCounts
<1>3. ~Precedes(Key(r), Key(q)) BY <1>1, <1>2, RankAlong
<1> QED BY <1>1, <1>3, RowOrder

LEMMA FirstNonEmpty ==
    ASSUME TableOK, NEW S \in SUBSET DOMAIN rows, S # {}, NEW n \in Nat \ {0}
    PROVE  First(S, n) # {}
<1>1. PICK r \in S : Before(S, r) = {} BY FirstExists
<1>2. Rank(S, r) = 0 BY <1>1, RankCounts, FS_EmptySet
<1> QED BY <1>2 DEF First

\* A statement with LIMIT n + 1 that answers no more than n rows answers all.
LEMMA FirstIsAll ==
    ASSUME TableOK, NEW S \in SUBSET DOMAIN rows, NEW n \in Nat,
           ~(Cardinality(First(S, n + 1)) > n)
    PROVE  First(S, n + 1) = S
<1> DEFINE F == First(S, n + 1)
<1>1. F \subseteq S BY DEF First
<1> SUFFICES ASSUME S \ F # {} PROVE FALSE BY <1>1
<1>2. PICK r \in S \ F : Before(S \ F, r) = {} BY FirstExists
<1>3. Before(S, r) \subseteq F BY <1>2 DEF Before
<1>4. Rank(S, r) \in Nat /\ ~(Rank(S, r) < n + 1) BY RankCounts DEF First
<1>5. F \in SUBSET RowIds BY <1>1 DEF TableOK
<1> HIDE DEF F
<1>6. Cardinality(Before(S, r)) <= Cardinality(F) /\ Cardinality(F) \in Nat
  BY <1>3, <1>5, RowsSubset
<1>7. Rank(S, r) = Cardinality(Before(S, r)) BY RankCounts
<1> QED BY <1>4, <1>6, <1>7 DEF F

-----------------------------------------------------------------------------
(* Listings: the inductive invariant.                                      *)

ListTyped ==
    /\ list \in Keyset \cup Offset /\ size \in Nat \ {0} /\ now \in Nat
    /\ TableOK /\ DOMAIN rows \subseteq used /\ used \subseteq RowIds
    /\ walk \in {"closed", "open", "counted", "done"}
    /\ cursor = <<>> \/ cursor \in Keys
    /\ start \in Nat /\ total \in Nat /\ listed \in [RowIds -> Nat]
    /\ stayed \subseteq Matching /\ Listed \subseteq used
    /\ list \in Keyset => walk # "counted"
    /\ walk = "closed" => cursor = <<>> /\ start = 0 /\ Listed = {}

\* What a cursor promises: the rows that were listed are not beyond it, the
\* rows that stayed and were not listed are.
CursorParts ==
    /\ NoneTwice
    /\ walk = "open" =>
         /\ \A r \in DOMAIN rows : listed[r] > 0 => ~Beyond(r)
         /\ \A r \in stayed : listed[r] = 0 => Beyond(r)
    /\ walk = "done" => stayed \subseteq Listed

\* What an offset promises, as long as rows only enter, or only leave.
OffsetParts ==
    /\ ~entered => NoneTwice
    /\ walk \in {"open", "counted"} /\ ~entered =>
         \A r \in Matching : listed[r] > 0 => Rank(Matching, r) < start
    /\ walk \in {"open", "counted"} /\ ~left =>
         \A r \in stayed : listed[r] = 0 => Rank(Matching, r) >= start
    /\ walk = "counted" /\ ~raced => Cardinality(Matching) <= total
    /\ walk = "done" /\ ~left /\ ~raced => stayed \subseteq Listed

ListInv ==
    /\ ListTyped
    /\ list \in Keyset => CursorParts
    /\ list \in Offset => OffsetParts

LEMMA NoCursorIsNoKey == \A k \in Keys : k # <<>>
BY DEF Keys

LEMMA ListInitHolds == ListInit => ListInv
<1> SUFFICES ASSUME ListInit PROVE ListInv OBVIOUS
<1>1. rows = <<>> /\ DOMAIN rows = {} BY DEF ListInit
<1>2. Matching = {} BY <1>1 DEF Matching
<1>3. Listed = {} /\ NoneTwice BY ListConstants DEF ListInit, Listed, NoneTwice
<1>4. ListTyped BY <1>1, <1>2, <1>3, ListConstants DEF ListInit, ListTyped, TableOK
<1> QED BY <1>3, <1>4 DEF ListInit, ListInv, CursorParts, OffsetParts

\* A step of a writer.
LEMMA WriteKeeps ==
    ASSUME ListInv, NEW new, Write(new),
           DOMAIN new \subseteq RowIds,
           \A r \in DOMAIN new : new[r] \in [at : Nat, matches : BOOLEAN],
           \A r \in DOMAIN new \cap DOMAIN rows : new[r].at = rows[r].at,
           \A r \in DOMAIN new \ DOMAIN rows : r \notin used,
           used \subseteq used', DOMAIN new \subseteq used', used' \subseteq RowIds
    PROVE  ListInv'
<1>1. /\ rows' = new
      /\ UNCHANGED <<list, size, now, walk, cursor, start, total, listed, exportFiles>>
  BY DEF Write
<1>2. Matching' = {r \in DOMAIN new : new[r].matches} BY <1>1 DEF Matching
<1>3. /\ stayed' = stayed \cap Matching'
      /\ entered' = (entered \/ (walk \in {"open", "counted"} /\ ~(Matching' \subseteq Matching)))
      /\ raced' = (raced \/ ~(Matching' \subseteq Matching))
      /\ left' = (left \/ (walk \in {"open", "counted"} /\ ~(Matching \subseteq Matching')))
  BY <1>2 DEF Write
<1>4. ListTyped /\ TableOK BY DEF ListInv, ListTyped
<1>5. Listed' = Listed /\ NoneTwice' = NoneTwice BY <1>1 DEF Listed, NoneTwice
<1>6. TableOK' BY <1>1 DEF TableOK
<1>7. ListTyped' BY <1>1, <1>3, <1>4, <1>5, <1>6 DEF ListTyped
<1>8. \A r \in DOMAIN rows \cap DOMAIN rows' : Key(r)' = Key(r) BY <1>1 DEF Key
<1>9. \A r \in DOMAIN rows \cap DOMAIN rows' : Beyond(r)' = Beyond(r)
  BY <1>1, <1>8 DEF Beyond
<1>10. /\ Matching \subseteq DOMAIN rows /\ Matching' \subseteq DOMAIN rows'
       /\ DOMAIN rows \subseteq RowIds /\ DOMAIN rows' \subseteq RowIds
  BY <1>4, <1>6 DEF Matching, TableOK
<1>11. ASSUME list \in Keyset PROVE CursorParts'
  <2>1. CursorParts BY <1>11 DEF ListInv
  <2>2. ASSUME walk = "open", NEW r \in DOMAIN rows', listed[r] > 0 PROVE ~Beyond(r)'
    <3>1. r \in Listed BY <1>10, <2>2 DEF Listed
    <3>2. r \in DOMAIN rows BY <1>1, <1>4, <3>1 DEF ListTyped
    <3> QED BY <1>9, <2>1, <2>2, <3>2 DEF CursorParts
  <2>3. ASSUME walk = "open", NEW r \in stayed', listed[r] = 0 PROVE Beyond(r)'
    <3>1. r \in stayed /\ r \in DOMAIN rows \cap DOMAIN rows' BY <1>3, <1>4, <1>10 DEF ListTyped
    <3> QED BY <1>9, <2>1, <2>3, <3>1 DEF CursorParts
  <2> QED BY <1>1, <1>3, <1>5, <2>1, <2>2, <2>3 DEF CursorParts
<1>12. ASSUME list \in Offset PROVE OffsetParts'
  <2>1. OffsetParts BY <1>12 DEF ListInv
  <2> DEFINE Was(r) == {q \in Matching : Precedes(Key(q), Key(r))}
             Is(r) == {q \in Matching' : Precedes(Key(q)', Key(r)')}
  <2>2. ASSUME NEW r \in RowIds
        PROVE  /\ Rank(Matching, r) = Cardinality(Was(r)) /\ Rank(Matching, r)' = Cardinality(Is(r))
               /\ Was(r) \in SUBSET RowIds /\ Is(r) \in SUBSET RowIds
               /\ Cardinality(Was(r)) \in Nat /\ Cardinality(Is(r)) \in Nat
    <3>1. Rank(Matching, r) = Cardinality(Was(r)) BY DEF Rank
    <3>2. Rank(Matching, r)' = Cardinality(Is(r)) BY DEF Rank
    <3>3. Was(r) \in SUBSET RowIds /\ Is(r) \in SUBSET RowIds BY <1>10
    <3> QED BY <3>1, <3>2, <3>3, RowsFinite
  <2>3. ASSUME walk \in {"open", "counted"}, ~entered', NEW r \in Matching', listed[r] > 0
        PROVE  Rank(Matching, r)' < start
    <3>1. ~entered /\ Matching' \subseteq Matching BY <1>3, <2>3
    <3>2. r \in RowIds /\ r \in Matching BY <1>10, <3>1
    <3>3. Is(r) \subseteq Was(r) BY <1>8, <1>10, <3>1, <3>2
    <3>4. Cardinality(Is(r)) <= Cardinality(Was(r)) BY <2>2, <3>2, <3>3, RowsSubset
    <3>5. Rank(Matching, r) < start BY <2>1, <2>3, <3>1, <3>2 DEF OffsetParts
    <3> QED BY <1>4, <2>2, <3>2, <3>4, <3>5 DEF ListTyped
  <2>4. ASSUME walk \in {"open", "counted"}, ~left', NEW r \in stayed', listed[r] = 0
        PROVE  Rank(Matching, r)' >= start
    <3>1. ~left /\ Matching \subseteq Matching' BY <1>3, <2>4
    <3>2. r \in RowIds /\ r \in Matching /\ r \in stayed BY <1>3, <1>4, <1>10 DEF ListTyped
    <3>3. Was(r) \subseteq Is(r) BY <1>8, <1>10, <3>1, <3>2
    <3>4. Cardinality(Was(r)) <= Cardinality(Is(r)) BY <2>2, <3>2, <3>3, RowsSubset
    <3>5. Rank(Matching, r) >= start BY <2>1, <2>4, <3>1, <3>2 DEF OffsetParts
    <3>6. Rank(Matching, r) <= Rank(Matching, r)' BY <2>2, <3>2, <3>4
    <3>7. Rank(Matching, r) \in Nat /\ Rank(Matching, r)' \in Nat BY <2>2, <3>2
    <3> QED BY <1>4, <3>5, <3>6, <3>7 DEF ListTyped
  <2>5. ASSUME walk = "counted", ~raced' PROVE Cardinality(Matching') <= total
    <3>1. ~raced /\ Matching' \subseteq Matching BY <1>3, <2>5
    <3>2. Matching \in SUBSET RowIds /\ Matching' \in SUBSET Matching BY <1>10, <3>1
    <3>3. /\ Cardinality(Matching') \in Nat /\ Cardinality(Matching) \in Nat
          /\ Cardinality(Matching') <= Cardinality(Matching)
      BY <3>2, RowsSubset
    <3>4. Cardinality(Matching) <= total BY <2>1, <2>5, <3>1 DEF OffsetParts
    <3> QED BY <1>4, <3>3, <3>4 DEF ListTyped
  <2>6. ~entered' => ~entered BY <1>3
  <2>7. ASSUME walk = "done", ~left', ~raced' PROVE stayed' \subseteq Listed
    BY <1>3, <2>1, <2>7 DEF OffsetParts
  <2> HIDE DEF Was, Is
  <2> QED BY <1>1, <1>5, <2>1, <2>3, <2>4, <2>5, <2>6, <2>7 DEF OffsetParts
<1> QED BY <1>1, <1>7, <1>11, <1>12 DEF ListInv

LEMMA InsertStep == ASSUME ListInv, NEW r \in RowIds, InsertRow(r) PROVE ListInv'
<1>1. PICK t \in {now, now - 1} \cap 0..now, m \in BOOLEAN :
         Write([q \in DOMAIN rows \cup {r} |->
                  IF q = r THEN [at |-> t, matches |-> m] ELSE rows[q]])
  BY DEF InsertRow
<1> DEFINE new == [q \in DOMAIN rows \cup {r} |->
                     IF q = r THEN [at |-> t, matches |-> m] ELSE rows[q]]
<1>2. ListTyped /\ TableOK BY DEF ListInv, ListTyped
<1>3. t \in Nat BY <1>2 DEF ListTyped
<1>4. r \notin used /\ used' = used \cup {r} BY DEF InsertRow
<1>5. r \notin DOMAIN rows /\ DOMAIN new = DOMAIN rows \cup {r} BY <1>2, <1>4 DEF ListTyped
<1>6. \A q \in DOMAIN new : new[q] \in [at : Nat, matches : BOOLEAN]
  BY <1>2, <1>3 DEF TableOK
<1>7. \A q \in DOMAIN new \cap DOMAIN rows : new[q].at = rows[q].at BY <1>5
<1>8. /\ \A q \in DOMAIN new \ DOMAIN rows : q \notin used
      /\ DOMAIN new \subseteq RowIds /\ used \subseteq used' /\ DOMAIN new \subseteq used'
      /\ used' \subseteq RowIds
  BY <1>2, <1>4, <1>5 DEF ListTyped, TableOK
<1>9. Write(new) BY <1>1
<1> HIDE DEF new
<1> QED BY <1>6, <1>7, <1>8, <1>9, WriteKeeps

LEMMA UpdateStep == ASSUME ListInv, NEW r \in RowIds, UpdateRow(r) PROVE ListInv'
<1> DEFINE new == [rows EXCEPT ![r].matches = ~@]
<1>1. Write(new) /\ r \in DOMAIN rows /\ used' = used BY DEF UpdateRow
<1>2. ListTyped /\ TableOK BY DEF ListInv, ListTyped
<1>3. DOMAIN new = DOMAIN rows OBVIOUS
<1>4. \A q \in DOMAIN rows : q # r => new[q] = rows[q] OBVIOUS
<1>5. new[r] = [rows[r] EXCEPT !.matches = ~@] BY <1>1
<1>6. new[r].at = rows[r].at /\ new[r] \in [at : Nat, matches : BOOLEAN]
  <2>1. rows[r] \in [at : Nat, matches : BOOLEAN] BY <1>1, <1>2 DEF TableOK
  <2>2. (~rows[r].matches) \in BOOLEAN OBVIOUS
  <2> HIDE DEF new
  <2> QED BY <1>5, <2>1, <2>2
<1> HIDE DEF new
<1> QED BY <1>1, <1>2, <1>3, <1>4, <1>6, WriteKeeps DEF ListTyped, TableOK

\* Rows that are taken out of the table.
LEMMA RemovalKeeps ==
    ASSUME ListInv, NEW S, Write([q \in DOMAIN rows \ S |-> rows[q]]), used' = used
    PROVE  ListInv'
<1> DEFINE new == [q \in DOMAIN rows \ S |-> rows[q]]
<1>1. ListTyped /\ TableOK BY DEF ListInv, ListTyped
<1>2. DOMAIN new \subseteq DOMAIN rows /\ \A q \in DOMAIN new : new[q] = rows[q] OBVIOUS
<1>3. Write(new) OBVIOUS
<1> HIDE DEF new
<1> QED BY <1>1, <1>2, <1>3, WriteKeeps DEF ListTyped, TableOK

LEMMA DeleteStep == ASSUME ListInv, NEW r \in RowIds, DeleteRow(r) PROVE ListInv'
BY RemovalKeeps DEF DeleteRow

LEMMA PurgeStep == ASSUME ListInv, PurgeExpired PROVE ListInv'
BY RemovalKeeps DEF PurgeExpired

LEMMA TickStep == ASSUME ListInv, Tick PROVE ListInv'
<1>1. /\ UNCHANGED <<list, size, rows, used, walk, cursor, start, total, listed, exportFiles,
                     stayed, entered, left, raced>>
      /\ now' = now + 1
  BY DEF Tick
<1>2. ListTyped' BY <1>1 DEF ListInv, ListTyped, TableOK, Matching, Listed
<1>3. CursorParts' = CursorParts
  BY <1>1 DEF CursorParts, NoneTwice, Beyond, Key, Listed
<1>4. OffsetParts' = OffsetParts
  BY <1>1 DEF OffsetParts, NoneTwice, Rank, Key, Matching, Listed
<1> QED BY <1>1, <1>2, <1>3, <1>4 DEF ListInv

LEMMA OpenStep == ASSUME ListInv, OpenWalk PROVE ListInv'
<1>1. /\ UNCHANGED <<list, size, rows, used, now, cursor, start, total, listed, exportFiles,
                     entered, left, raced>>
      /\ walk = "closed" /\ walk' = "open" /\ stayed' = Matching
  BY DEF OpenWalk
<1>2. ListTyped /\ TableOK /\ Matching' = Matching /\ Listed' = Listed /\ NoneTwice' = NoneTwice
  BY <1>1 DEF ListInv, ListTyped, Matching, Listed, NoneTwice
<1>3. ListTyped' BY <1>1, <1>2 DEF ListTyped, TableOK
<1>4. cursor = <<>> /\ start = 0 /\ Listed = {} BY <1>1, <1>2 DEF ListTyped
<1>5. \A r \in RowIds : ~(listed[r] > 0) BY <1>4 DEF Listed
<1>6. \A r \in DOMAIN rows : r \in RowIds BY <1>2 DEF TableOK
<1>7. \A r : Beyond(r)' BY <1>1, <1>4 DEF Beyond
<1>8. \A r \in Matching : Rank(Matching, r) >= start /\ Rank(Matching, r)' = Rank(Matching, r)
  <2> SUFFICES ASSUME NEW r \in Matching
               PROVE  Rank(Matching, r) >= start /\ Rank(Matching, r)' = Rank(Matching, r)
    OBVIOUS
  <2>1. Matching \in SUBSET DOMAIN rows BY DEF Matching
  <2>2. Rank(Matching, r) \in Nat BY <1>2, <2>1, RankCounts
  <2>3. Rank(Matching, r)' = Rank(Matching, r) BY <1>1, <1>2 DEF Rank, Key
  <2> QED BY <1>4, <2>2, <2>3
<1>9. ASSUME list \in Keyset PROVE CursorParts'
  BY <1>1, <1>2, <1>5, <1>6, <1>7, <1>9 DEF ListInv, CursorParts
<1>10. Matching \subseteq DOMAIN rows BY DEF Matching
<1>11. ASSUME list \in Offset PROVE OffsetParts'
  BY <1>1, <1>2, <1>5, <1>6, <1>8, <1>10, <1>11 DEF ListInv, OffsetParts
<1> QED BY <1>1, <1>3, <1>9, <1>11 DEF ListInv

\* A page of a walk with a cursor.
LEMMA PageStep ==
    ASSUME ListInv, list \in Keyset, walk = "open", ListPage(Fetch(size + 1)),
           UNCHANGED <<list, size, rows, used, now, start, total, stayed, entered, left, raced>>
    PROVE  ListInv'
<1> DEFINE A == {r \in Matching : Beyond(r)}
           F == First(A, size + 1)
           more == Cardinality(F) > size
           items == IF more THEN First(F, size) ELSE F
<1>1. /\ listed' = [r \in RowIds |-> IF r \in items THEN listed[r] + 1 ELSE listed[r]]
      /\ cursor' = IF more THEN Key(FinalRow(items)) ELSE cursor
      /\ walk' = IF more THEN "open" ELSE "done"
  BY DEF ListPage, Fetch, ShowRows
<1>2. ListTyped /\ TableOK /\ CursorParts BY DEF ListInv, ListTyped
<1>3. /\ size \in Nat \ {0} /\ size + 1 \in Nat /\ size + 1 \in Nat \ {0}
      /\ listed \in [RowIds -> Nat] /\ DOMAIN rows \subseteq RowIds /\ DOMAIN rows \subseteq used
      /\ stayed \subseteq Matching /\ Listed \subseteq used
  BY <1>2 DEF ListTyped, TableOK
<1>4. A \in SUBSET DOMAIN rows /\ A \subseteq Matching BY DEF Matching
<1>5. F \subseteq A /\ items \subseteq F BY DEF First
<1>6. F \in SUBSET DOMAIN rows /\ items \in SUBSET DOMAIN rows BY <1>4, <1>5
<1>7. \A r \in items : Beyond(r) /\ listed[r] = 0
  BY <1>2, <1>3, <1>4, <1>5, <1>6 DEF CursorParts
<1>8. /\ Matching' = Matching /\ TableOK' /\ \A r : Key(r)' = Key(r)
  BY <1>2 DEF Matching, TableOK, Key
<1>9. /\ listed' \in [RowIds -> Nat]
      /\ \A r \in RowIds : r \in items => listed'[r] = 1
      /\ \A r \in RowIds : r \notin items => listed'[r] = listed[r]
  BY <1>1, <1>3, <1>6, <1>7
<1>10. NoneTwice'
  <2>1. \A r \in RowIds : listed[r] <= 1 BY <1>2 DEF CursorParts, NoneTwice
  <2> HIDE DEF items
  <2>2. \A r \in RowIds : listed'[r] <= 1 BY <1>9, <2>1
  <2> QED BY <2>2 DEF NoneTwice
<1>11. Listed' = Listed \cup items BY <1>3, <1>6, <1>9 DEF Listed
<1>12. CASE ~more
  <2>1. F = A BY <1>2, <1>3, <1>4, <1>12, FirstIsAll
  <2>2. items = A BY <1>12, <2>1
  <2>3. walk' = "done" /\ cursor' = cursor BY <1>1, <1>12
  <2>4. stayed \subseteq Listed'
    <3> SUFFICES ASSUME NEW r \in stayed, r \notin A PROVE r \in Listed
      BY <1>11, <2>2
    <3>1. r \in Matching /\ r \in RowIds /\ ~Beyond(r) BY <1>3, <1>4 DEF Matching
    <3>2. listed[r] # 0 /\ listed[r] \in Nat BY <1>2, <1>3, <3>1 DEF CursorParts
    <3> QED BY <3>1, <3>2 DEF Listed
  <2>5. ListTyped' BY <1>2, <1>3, <1>6, <1>8, <1>9, <1>11, <2>3 DEF ListTyped
  <2>6. CursorParts' BY <1>10, <2>3, <2>4 DEF CursorParts
  <2>7. list \notin Offset BY DEF Keyset, Offset, Audit
  <2> QED BY <2>5, <2>6, <2>7 DEF ListInv
<1>13. CASE more
  <2>1. items = First(F, size) BY <1>13
  <2>2. F # {}
    <3>1. F \in SUBSET RowIds BY <1>3, <1>6
    <3>2. F = {} => Cardinality(F) = 0 BY FS_EmptySet
    <3> QED BY <1>3, <1>13, <3>2
  <2>3. items # {} BY <1>2, <1>3, <1>6, <2>1, <2>2, FirstNonEmpty
  <2>4. PICK z : z = FinalRow(items) OBVIOUS
  <2>5. z \in items /\ \A q \in items \ {z} : Precedes(Key(q), Key(z))
    BY <1>2, <1>6, <2>3, <2>4, FinalExists
  <2>6. cursor' = Key(z) /\ walk' = "open" BY <1>1, <1>13, <2>4
  <2>7. z \in DOMAIN rows /\ z \in A /\ Key(z) \in Keys /\ Key(z) # <<>>
    BY <1>2, <1>5, <1>6, <2>5, KeyOK, NoCursorIsNoKey
  <2>8. \A r : Beyond(r)' <=> Precedes(Key(z), Key(r)) BY <1>8, <2>6, <2>7 DEF Beyond
  <2>9. ASSUME NEW r \in A, r \notin items PROVE Precedes(Key(z), Key(r))
    <3>1. CASE r \in F BY <1>2, <1>3, <1>6, <2>1, <2>5, <2>9, <3>1, FirstIsPrefix
    <3>2. CASE r \notin F BY <1>2, <1>3, <1>4, <1>5, <2>5, <3>2, FirstIsPrefix
    <3> QED BY <3>1, <3>2
  <2>10. ASSUME NEW r \in DOMAIN rows, listed'[r] > 0 PROVE ~Precedes(Key(z), Key(r))
    <3>1. CASE r \in items BY <1>2, <1>6, <2>5, <2>7, <3>1, RowOrder
    <3>2. CASE r \notin items
      <4>1. listed[r] > 0 BY <1>3, <1>9, <2>10, <3>2
      <4>2. ~Beyond(r) BY <1>2, <4>1 DEF CursorParts
      <4>3. Beyond(z) BY <2>7
      <4>4. cursor # <<>> /\ cursor \in Keys /\ ~Precedes(cursor, Key(r)) BY <1>2, <4>2 DEF Beyond, ListTyped
      <4>5. Precedes(cursor, Key(z)) BY <4>3, <4>4 DEF Beyond
      <4>6. Key(r) \in Keys BY <1>2, KeyOK
      <4> QED BY <2>7, <4>4, <4>5, <4>6, PrecedesOrder
    <3> QED BY <3>1, <3>2
  <2>11. ASSUME NEW r \in stayed, listed'[r] = 0 PROVE Precedes(Key(z), Key(r))
    <3>1. r \in RowIds /\ r \in Matching BY <1>3 DEF Matching
    <3>2. r \notin items /\ listed[r] = 0 BY <1>9, <2>11, <3>1
    <3>3. r \in A BY <1>2, <3>1, <3>2 DEF CursorParts
    <3> QED BY <2>9, <3>2, <3>3
  <2>12. ListTyped' BY <1>2, <1>3, <1>6, <1>8, <1>9, <1>11, <2>6, <2>7 DEF ListTyped
  <2>13. CursorParts' BY <1>10, <2>6, <2>8, <2>10, <2>11 DEF CursorParts
  <2>14. list \notin Offset BY DEF Keyset, Offset, Audit
  <2> QED BY <2>12, <2>13, <2>14 DEF ListInv
<1> QED BY <1>12, <1>13

\* A step that leaves the walk and the table alone.
LEMMA ListStutter ==
    ASSUME ListInv, UNCHANGED <<list, size, rows, used, now, walk, cursor, start, total, listed,
                                stayed, entered, left, raced>>
    PROVE  ListInv'
<1>1. ListTyped' BY DEF ListInv, ListTyped, TableOK, Matching, Listed
<1>2. CursorParts' = CursorParts BY DEF CursorParts, NoneTwice, Beyond, Key, Listed
<1>3. OffsetParts' = OffsetParts BY DEF OffsetParts, NoneTwice, Rank, Key, Matching, Listed
<1> QED BY <1>1, <1>2, <1>3 DEF ListInv

LEMMA ExportStep == ASSUME ListInv, NEW p \in Paths, ExportArchive(p) PROVE ListInv'
<1>1. /\ list \in Keyset /\ walk = "open"
      /\ UNCHANGED <<list, size, rows, used, now, start, total, stayed, entered, left, raced>>
  BY DEF ExportArchive, Keyset, Audit
<1>2. ListPage(Fetch(size + 1)) \/ UNCHANGED <<listed, cursor, walk>> BY DEF ExportArchive
<1> QED BY <1>1, <1>2, PageStep, ListStutter

LEMMA KeysetStep == ASSUME ListInv, NEW name \in Keyset, KeysetPage(name) PROVE ListInv'
BY PageStep DEF KeysetPage

LEMMA CountStep == ASSUME ListInv, NEW name \in Offset, CountScim(name) PROVE ListInv'
<1>1. /\ list \in Offset /\ walk = "open" /\ walk' = "counted"
      /\ total' = Cardinality(Matching) /\ raced' = FALSE
      /\ UNCHANGED <<list, size, rows, used, now, cursor, start, listed, stayed, entered, left>>
  BY DEF CountScim
<1>2. ListTyped /\ TableOK /\ OffsetParts BY <1>1 DEF ListInv, ListTyped
<1>3. list \notin Keyset BY <1>1 DEF Keyset, Offset, Audit
<1>4. Matching' = Matching /\ Listed' = Listed /\ NoneTwice' = NoneTwice /\ TableOK'
  BY <1>1, <1>2 DEF Matching, Listed, NoneTwice, TableOK
<1>5. Cardinality(Matching) \in Nat BY <1>2, RowsFinite DEF Matching, TableOK
<1>6. ListTyped' BY <1>1, <1>2, <1>3, <1>4, <1>5 DEF ListTyped
<1>7. \A r : Rank(Matching, r)' = Rank(Matching, r) BY <1>1, <1>4 DEF Rank, Key
<1>8. OffsetParts' BY <1>1, <1>2, <1>4, <1>5, <1>7 DEF OffsetParts
<1> QED BY <1>1, <1>3, <1>6, <1>8 DEF ListInv

LEMMA FetchStep == ASSUME ListInv, NEW name \in Offset, FetchScim(name) PROVE ListInv'
<1> DEFINE page == First(Matching, start + size) \ First(Matching, start)
<1>1. /\ list \in Offset /\ walk = "counted" /\ start' = start + size
      /\ walk' = IF start + size >= total THEN "done" ELSE "open"
      /\ listed' = [r \in RowIds |-> IF r \in page THEN listed[r] + 1 ELSE listed[r]]
      /\ UNCHANGED <<list, size, rows, used, now, cursor, total, stayed, entered, left, raced>>
  BY DEF FetchScim, ShowRows, OffsetOf
<1>2. ListTyped /\ TableOK /\ OffsetParts BY <1>1 DEF ListInv, ListTyped
<1>3. /\ size \in Nat \ {0} /\ start \in Nat /\ total \in Nat /\ listed \in [RowIds -> Nat]
      /\ DOMAIN rows \subseteq RowIds /\ DOMAIN rows \subseteq used
      /\ stayed \subseteq Matching /\ Listed \subseteq used
  BY <1>2 DEF ListTyped, TableOK
<1>4. Matching \in SUBSET DOMAIN rows /\ page \subseteq Matching BY DEF Matching, First
<1>5. \A r \in Matching :
         /\ r \in RowIds /\ Rank(Matching, r) \in Nat /\ Rank(Matching, r) < Cardinality(Matching)
         /\ (r \in page <=> start <= Rank(Matching, r) /\ Rank(Matching, r) < start + size)
  <2> SUFFICES ASSUME NEW r \in Matching
               PROVE  /\ r \in RowIds /\ Rank(Matching, r) \in Nat
                      /\ Rank(Matching, r) < Cardinality(Matching)
                      /\ (r \in page <=> start <= Rank(Matching, r) /\ Rank(Matching, r) < start + size)
    OBVIOUS
  <2>1. Rank(Matching, r) \in Nat /\ Rank(Matching, r) < Cardinality(Matching)
    BY <1>2, <1>4, RankCounts
  <2>2. r \in RowIds BY <1>3, <1>4
  <2>3. r \in page <=> start <= Rank(Matching, r) /\ Rank(Matching, r) < start + size
    BY <1>3, <2>1 DEF First
  <2> QED BY <2>1, <2>2, <2>3
<1> HIDE DEF page
<1>6. list \notin Keyset BY <1>1 DEF Keyset, Offset, Audit
<1>7. Matching' = Matching /\ TableOK' BY <1>1, <1>2 DEF Matching, TableOK
<1>8. \A r : Rank(Matching, r)' = Rank(Matching, r) BY <1>1, <1>7 DEF Rank, Key
<1>9. /\ listed' \in [RowIds -> Nat]
      /\ \A r \in RowIds : r \in page => listed'[r] = listed[r] + 1
      /\ \A r \in RowIds : r \notin page => listed'[r] = listed[r]
  BY <1>1, <1>3
<1>10. Listed' = Listed \cup page BY <1>3, <1>4, <1>5, <1>9 DEF Listed
<1>11. ListTyped' BY <1>1, <1>2, <1>3, <1>4, <1>6, <1>7, <1>9, <1>10 DEF ListTyped
<1>12. ASSUME ~entered PROVE NoneTwice' /\ \A r \in Matching : listed'[r] > 0 => Rank(Matching, r) < start'
  <2>1. \A r \in page : listed[r] = 0 BY <1>1, <1>2, <1>3, <1>4, <1>5, <1>12 DEF OffsetParts
  <2>2. NoneTwice' BY <1>2, <1>9, <1>12, <2>1 DEF OffsetParts, NoneTwice
  <2>3. ASSUME NEW r \in Matching, listed'[r] > 0 PROVE Rank(Matching, r) < start'
    <3>1. CASE r \in page BY <1>1, <1>5, <3>1
    <3>2. CASE r \notin page
      <4>1. listed[r] > 0 BY <1>5, <1>9, <2>3, <3>2
      <4>2. Rank(Matching, r) < start BY <1>1, <1>2, <1>12, <4>1 DEF OffsetParts
      <4> QED BY <1>1, <1>3, <1>5, <4>2
    <3> QED BY <3>1, <3>2
  <2> QED BY <2>2, <2>3
<1>13. ASSUME ~left, NEW r \in stayed, listed'[r] = 0
       PROVE  Rank(Matching, r) >= start'
  <2>1. r \in Matching /\ r \in RowIds BY <1>3, <1>5
  <2>2. r \notin page /\ listed[r] = 0 BY <1>3, <1>9, <1>13, <2>1
  <2>3. Rank(Matching, r) >= start BY <1>1, <1>2, <1>13, <2>2 DEF OffsetParts
  <2> QED BY <1>1, <1>3, <1>5, <2>1, <2>2, <2>3
<1>14. ASSUME walk' = "done", ~left, ~raced PROVE stayed \subseteq Listed'
  <2> SUFFICES ASSUME NEW r \in stayed, r \notin Listed' PROVE FALSE OBVIOUS
  <2>1. r \in Matching /\ r \in RowIds BY <1>3, <1>5
  <2>2. listed'[r] = 0 BY <1>9, <2>1 DEF Listed
  <2>3. Rank(Matching, r) >= start' BY <1>13, <1>14, <2>2
  <2>4. start + size >= total BY <1>1, <1>14
  <2>5. Cardinality(Matching) <= total BY <1>1, <1>2, <1>14 DEF OffsetParts
  <2>6. Cardinality(Matching) \in Nat BY <1>2, RowsFinite DEF Matching, TableOK
  <2> QED BY <1>1, <1>3, <1>5, <2>1, <2>3, <2>4, <2>5, <2>6
<1>15. OffsetParts' BY <1>1, <1>7, <1>8, <1>12, <1>13, <1>14 DEF OffsetParts
<1> QED BY <1>1, <1>6, <1>11, <1>15 DEF ListInv

LEMMA ListStep == ListInv /\ [ListNext]_listVars => ListInv'
<1> SUFFICES ASSUME ListInv, [ListNext]_listVars PROVE ListInv' OBVIOUS
<1>1. CASE UNCHANGED listVars BY <1>1, ListStutter DEF listVars
<1>2. CASE \E r \in RowIds : InsertRow(r) \/ UpdateRow(r) \/ DeleteRow(r)
  BY <1>2, InsertStep, UpdateStep, DeleteStep
<1>3. CASE PurgeExpired \/ Tick \/ OpenWalk BY <1>3, PurgeStep, TickStep, OpenStep
<1>4. CASE Reading
  <2>1. CASE \/ ListAuditEvents \/ ListSecurityEvents \/ ListUsers \/ ListGroups \/ ListMemberships
             \/ ListOidcClients \/ ListClientGrants \/ ListUserGrants
    <3>1. \E name \in Keyset : KeysetPage(name)
      BY <2>1 DEF ListAuditEvents, ListSecurityEvents, ListUsers, ListGroups, ListMemberships,
                  ListOidcClients, ListClientGrants, ListUserGrants, Keyset, Audit
    <3> QED BY <3>1, KeysetStep
  <2>2. CASE \E p \in Paths : ExportArchive(p) BY <2>2, ExportStep
  <2>3. CASE ListScimUsers \/ ListScimGroups
    <3>1. \E name \in Offset : CountScim(name) \/ FetchScim(name)
      BY <2>3 DEF ListScimUsers, ListScimGroups, Offset
    <3> QED BY <3>1, CountStep, FetchStep
  <2> QED BY <1>4, <2>1, <2>2, <2>3 DEF Reading
<1> QED BY <1>1, <1>2, <1>3, <1>4 DEF ListNext

LEMMA ListImplies == ListInv => NoRowTwice /\ WalkWhole /\ ScimSlips
BY DEF ListInv, CursorParts, OffsetParts, NoRowTwice, WalkWhole, ScimSlips

\* The batch is at the old end of the expired rows, and these are older than
\* the others.
LEMMA PurgeTakesOldest == ASSUME ListInv, PurgeExpired PROVE OldestGone
<1> DEFINE expired == {r \in DOMAIN rows : rows[r].at + Retention < now}
           batch == {r \in expired : Cardinality(Behind(expired, r)) < Batch}
<1>1. Write([q \in DOMAIN rows \ batch |-> rows[q]]) BY DEF PurgeExpired, Behind
<1>2. TableOK /\ now \in Nat BY DEF ListInv, ListTyped
<1>3. rows' = [q \in DOMAIN rows \ batch |-> rows[q]] BY <1>1 DEF Write
<1>4. DOMAIN rows' = DOMAIN rows \ batch BY <1>3
<1> SUFFICES ASSUME NEW r \in batch, NEW q \in DOMAIN rows \ batch
             PROVE  rows[r].at + Retention < now /\ Precedes(Key(q), Key(r))
  BY <1>4 DEF OldestGone
<1>5. r \in DOMAIN rows /\ q \in DOMAIN rows /\ q # r /\ rows[r].at + Retention < now OBVIOUS
<1>6. rows[r].at \in Nat /\ rows[q].at \in Nat /\ Key(r).at = rows[r].at /\ Key(q).at = rows[q].at
  BY <1>2, <1>5, KeyOK DEF TableOK
<1>7. CASE q \notin expired
  <2>1. ~(rows[q].at + Retention < now) BY <1>5, <1>7
  <2>2. rows[q].at > rows[r].at BY <1>2, <1>5, <1>6, <2>1, ListConstants
  <2> QED BY <1>5, <1>6, <2>2 DEF Precedes
<1>8. CASE q \in expired
  <2>1. expired \in SUBSET DOMAIN rows /\ expired \in SUBSET RowIds BY <1>2 DEF TableOK
  <2>2. ~(Cardinality(Behind(expired, q)) < Batch) /\ Cardinality(Behind(expired, r)) < Batch
    BY <1>8
  <2> HIDE DEF expired
  <2>3. Behind(expired, r) \in SUBSET RowIds BY <2>1 DEF Behind
  <2>4. ASSUME Precedes(Key(r), Key(q)) PROVE FALSE
    <3>1. Behind(expired, q) \subseteq Behind(expired, r)
      BY <1>2, <1>5, <2>1, <2>4, RowOrder DEF Behind
    <3>2. /\ Cardinality(Behind(expired, q)) \in Nat /\ Cardinality(Behind(expired, r)) \in Nat
          /\ Cardinality(Behind(expired, q)) <= Cardinality(Behind(expired, r))
      BY <2>3, <3>1, RowsSubset
    <3> QED BY <2>2, <3>2, ListConstants
  <2> QED BY <1>2, <1>5, <2>4, RowOrder
<1> QED BY <1>5, <1>7, <1>8

LEMMA OldestGoneStep == ListInv /\ [ListNext]_listVars => [OldestGone]_listVars
<1> SUFFICES ASSUME ListInv, ListNext, list \in Audit PROVE OldestGone
  BY DEF OldestGone
<1>1. CASE \E r \in RowIds : InsertRow(r)
  <2>1. DOMAIN rows \subseteq DOMAIN rows' BY <1>1 DEF InsertRow, Write
  <2> QED BY <2>1 DEF OldestGone
<1>2. CASE \E r \in RowIds : UpdateRow(r) \/ DeleteRow(r) BY <1>2 DEF UpdateRow, DeleteRow
<1>3. CASE PurgeExpired BY <1>3, PurgeTakesOldest
<1>4. CASE Tick \/ OpenWalk \/ Reading
  <2>1. rows' = rows
    BY <1>4 DEF Tick, OpenWalk, Reading, ListAuditEvents, ListSecurityEvents, ListUsers, ListGroups,
                ListMemberships, ListOidcClients, ListClientGrants, ListUserGrants, KeysetPage,
                ExportArchive, ListScimUsers, ListScimGroups, CountScim, FetchScim
  <2> QED BY <2>1 DEF OldestGone
<1> QED BY <1>1, <1>2, <1>3, <1>4 DEF ListNext

\* Every list of the server, whatever its size and whoever writes meanwhile: a
\* walk with a cursor shows no row twice and none that stays not at all, a
\* SCIM walk slips only where paging by offset must, and a purge of the audit
\* log takes the oldest expired rows and no other.
THEOREM WalksOverLists == ListSpec => WalksHold
<1>1. ListInit => ListInv BY ListInitHolds
<1>2. ListInv /\ [ListNext]_listVars => ListInv' BY ListStep
<1>3. ListInv => NoRowTwice /\ WalkWhole /\ ScimSlips BY ListImplies
<1>4. ListInv /\ [ListNext]_listVars => [OldestGone]_listVars BY OldestGoneStep
<1> QED BY <1>1, <1>2, <1>3, <1>4, PTL DEF ListSpec, WalksHold

-----------------------------------------------------------------------------
(* ScimBulk: the operations that references lead to.                       *)

BulkRequestOK ==
    /\ operations \in [Indices -> {[shape |-> s, deps |-> d] : s \in Shapes, d \in SUBSET Indices}]
    /\ limit \in Nat

LEMMA BulkIndicesFinite ==
    /\ IsFiniteSet(Indices) /\ Indices \subseteq Nat
    /\ \A S \in SUBSET Indices : IsFiniteSet(S) /\ Cardinality(S) \in Nat
<1>1. IsFiniteSet(Indices) BY BulkConstants, FS_Interval DEF Indices
<1>2. Indices \subseteq Nat BY BulkConstants DEF Indices
<1>3. \A S \in SUBSET Indices : IsFiniteSet(S) BY <1>1, FS_Subset
<1>4. \A S \in SUBSET Indices : Cardinality(S) \in Nat BY <1>3, FS_CardinalityType
<1> QED BY <1>1, <1>2, <1>3, <1>4

LEMMA BulkDeps ==
    ASSUME BulkRequestOK, NEW i \in Indices
    PROVE  Deps(i) \subseteq Indices
BY DEF BulkRequestOK, Deps

\* The least set that holds S and follows references.
LEMMA ReachProperties ==
    ASSUME BulkRequestOK, NEW S \in SUBSET Indices
    PROVE  /\ S \subseteq Reach(S) /\ Reach(S) \subseteq Indices
           /\ FollowsReferences(Reach(S))
           /\ \A T \in SUBSET Indices : S \subseteq T /\ FollowsReferences(T) => Reach(S) \subseteq T
<1>1. S \subseteq Reach(S) /\ Reach(S) \subseteq Indices BY DEF Reach
<1>2. \A T \in SUBSET Indices : S \subseteq T /\ FollowsReferences(T) => Reach(S) \subseteq T
  BY DEF Reach
<1>3. FollowsReferences(Reach(S))
  <2> SUFFICES ASSUME NEW i \in Reach(S), NEW d \in Deps(i) \cap Creatable
               PROVE  d \in Reach(S)
    BY DEF FollowsReferences
  <2>1. d \in Indices BY DEF Creatable
  <2>2. ASSUME NEW T \in SUBSET Indices, S \subseteq T, FollowsReferences(T) PROVE d \in T
    BY <1>2, <2>2 DEF FollowsReferences
  <2> QED BY <2>1, <2>2 DEF Reach
<1> QED BY <1>1, <1>2, <1>3

LEMMA ReachWithin ==
    ASSUME BulkRequestOK, NEW S \in SUBSET Indices, NEW R \in SUBSET Indices, S \subseteq Reach(R)
    PROVE  Reach(S) \subseteq Reach(R)
BY ReachProperties

LEMMA ReachStep ==
    ASSUME BulkRequestOK, NEW m \in Indices, NEW d \in Deps(m) \cap Creatable
    PROVE  d \in Indices /\ d \in Reach({m}) /\ Reach({d}) \subseteq Reach({m})
<1>1. d \in Indices /\ {m} \in SUBSET Indices /\ {d} \in SUBSET Indices BY DEF Creatable
<1>2. m \in Reach({m}) /\ FollowsReferences(Reach({m})) BY <1>1, ReachProperties
<1>3. d \in Reach({m}) BY <1>2 DEF FollowsReferences
<1>4. {d} \subseteq Reach({m}) BY <1>3
<1>5. Reach({d}) \subseteq Reach({m}) BY <1>1, <1>4, ReachWithin
<1> QED BY <1>1, <1>3, <1>5

\* Where every operation of a set waits for another of that set, each leads to
\* a circle: one that reaches as little as any does reaches itself.
LEMMA WaitingMeansCircle ==
    ASSUME BulkRequestOK, NEW P \in SUBSET Indices,
           \A i \in P : \E d \in Deps(i) \cap Creatable : d \in P,
           NEW i \in P
    PROVE  \E r \in Reach({i}) : OnCircle(r)
<1> DEFINE R == Reach({i}) \cap P
           All == {Reach({m}) : m \in R}
<1>1. i \in Indices /\ {i} \in SUBSET Indices OBVIOUS
<1>2. i \in R BY <1>1, ReachProperties
<1>3. \A m \in R : m \in Indices /\ {m} \in SUBSET Indices /\ Reach({m}) \in SUBSET Indices
  BY ReachProperties
<1>4. All \subseteq FiniteSubsetsOf(Indices)
  BY <1>3, BulkIndicesFinite DEF FiniteSubsetsOf
<1>5. All # {} BY <1>2
<1>6. IsWellFoundedOn(StrictSubsetOrdering(Indices), FiniteSubsetsOf(Indices))
  BY FS_StrictSubsetOrderingWellFounded
<1> HIDE DEF All
<1>7. \E x \in All : \A y \in All : ~(<<y, x>> \in StrictSubsetOrdering(Indices))
  BY <1>4, <1>5, <1>6, WFMin
<1>8. PICK m \in R : \A y \in All : ~(<<y, Reach({m})>> \in StrictSubsetOrdering(Indices))
  BY <1>7 DEF All
<1>9. ASSUME NEW d \in R, Reach({d}) \subseteq Reach({m})
      PROVE  Reach({d}) = Reach({m})
  <2>1. Reach({d}) \in All BY DEF All
  <2>2. Reach({d}) \in SUBSET Indices /\ Reach({m}) \in SUBSET Indices BY <1>3
  <2> QED BY <1>8, <1>9, <2>1, <2>2, BulkIndicesFinite DEF StrictSubsetOrdering
<1>10. ASSUME NEW x \in R, NEW d \in Deps(x) \cap Creatable, d \in P PROVE d \in R
  <2>1. d \in Reach({x}) BY <1>3, ReachStep
  <2>2. {x} \subseteq Reach({i}) OBVIOUS
  <2>3. Reach({x}) \subseteq Reach({i}) BY <1>1, <1>3, <2>2, ReachWithin
  <2> QED BY <1>10, <2>1, <2>3
<1>11. PICK d \in Deps(m) \cap Creatable : d \in P OBVIOUS
<1>12. d \in R /\ Reach({d}) = Reach({m})
  <2>1. d \in R BY <1>10, <1>11
  <2>2. Reach({d}) \subseteq Reach({m}) BY <1>3, <1>11, ReachStep
  <2> QED BY <1>9, <2>1, <2>2
<1>13. PICK e \in Deps(d) \cap Creatable : e \in P BY <1>12
<1>14. e \in R /\ Reach({e}) = Reach({m})
  <2>1. e \in R BY <1>10, <1>12, <1>13
  <2>2. Reach({e}) \subseteq Reach({d}) BY <1>3, <1>12, <1>13, ReachStep
  <2> QED BY <1>9, <1>12, <2>1, <2>2
<1>15. d \in Reach({d}) BY <1>3, <1>12, ReachProperties
<1>16. d \in Reach({e}) BY <1>12, <1>14, <1>15
<1>17. Reach({e}) \subseteq Reach(Deps(d) \cap Creatable)
  <2>1. Deps(d) \cap Creatable \in SUBSET Indices BY DEF Creatable
  <2>2. {e} \subseteq Reach(Deps(d) \cap Creatable) BY <1>13, <2>1, ReachProperties
  <2> QED BY <1>3, <1>14, <2>1, <2>2, ReachWithin
<1>18. OnCircle(d) BY <1>11, <1>16, <1>17 DEF OnCircle
<1> QED BY <1>12, <1>18

-----------------------------------------------------------------------------
(* ScimBulk: the job.                                                      *)

Erred == {i \in Indices : responses[i] \in {"error", "unresolved"}}

BulkInv ==
    /\ BulkRequestOK
    /\ phase \in {"check", "round", "run", "done"}
    /\ responses \in [Indices -> {"none", "ok", "error", "unresolved"}]
    /\ pending = {i \in Indices : responses[i] = "none"}
    /\ references = {i \in Creatable : responses[i] = "ok"}
    /\ failed = Creatable \cap Erred
    /\ ready \subseteq pending /\ (phase = "run" <=> ready # {})
    /\ errors \in Nat /\ errors = Cardinality(Erred)
    /\ limit # NoLimit => errors <= limit
    /\ phase = "run" => Below(errors)
    /\ AllAnswered /\ ReferencesCreated /\ UnresolvedMeansCircle

LEMMA BulkInitHolds == BulkInit => BulkInv
<1> SUFFICES ASSUME BulkInit PROVE BulkInv OBVIOUS
<1>1. BulkRequestOK BY BulkConstants DEF BulkInit, BulkRequestOK
<1>2. Erred = {} BY DEF BulkInit, Erred
<1>5. AllAnswered /\ ReferencesCreated /\ UnresolvedMeansCircle
  BY DEF BulkInit, AllAnswered, ReferencesCreated, UnresolvedMeansCircle
<1>6. /\ responses \in [Indices -> {"none", "ok", "error", "unresolved"}]
      /\ pending = {i \in Indices : responses[i] = "none"}
  BY DEF BulkInit
<1>7. references = {i \in Creatable : responses[i] = "ok"} BY DEF BulkInit, Creatable
<1>3. Cardinality(Erred) = 0 BY <1>2, FS_EmptySet
<1>4. limit # NoLimit => errors <= limit BY <1>1 DEF BulkInit, BulkRequestOK
<1> QED BY <1>1, <1>2, <1>3, <1>4, <1>5, <1>6, <1>7 DEF BulkInit, BulkInv

\* What refers to the request alone stays as it is.
LEMMA BulkRequestKept ==
    ASSUME BulkRequestOK, UNCHANGED <<operations, limit>>
    PROVE  /\ BulkRequestOK' /\ Creatable' = Creatable
           /\ \A i : Deps(i)' = Deps(i)
           /\ \A i : OnCircle(i)' = OnCircle(i) /\ Reach({i})' = Reach({i})
           /\ \A e : Below(e)' = Below(e)
BY DEF BulkRequestOK, Creatable, Method, Deps, OnCircle, Reach, FollowsReferences, Below

LEMMA BulkRequestStep == BulkInv /\ ScimBulkRequest => BulkInv'
<1> SUFFICES ASSUME BulkInv, ScimBulkRequest PROVE BulkInv' OBVIOUS
<1>1. UNCHANGED <<operations, limit, ready, pending, references, failed, errors, responses>>
  BY DEF ScimBulkRequest
<1>2. BulkRequestOK BY DEF BulkInv
<1>3. Erred' = Erred BY <1>1 DEF Erred
<1>4. AllAnswered'
  <2>1. CASE N > 0 BY <2>1 DEF ScimBulkRequest, AllAnswered
  <2>2. CASE ~(N > 0)
    <3>1. Indices = {} BY <2>2, BulkConstants DEF Indices
    <3> QED BY <1>1, <3>1 DEF BulkInv, AllAnswered
  <2> QED BY <2>1, <2>2
<1>5. ReferencesCreated' BY <1>1, <1>2, BulkRequestKept DEF BulkInv, ReferencesCreated
<1>6. UnresolvedMeansCircle' BY <1>1, <1>2, BulkRequestKept DEF BulkInv, UnresolvedMeansCircle
<1>7. phase' \in {"round", "done"} /\ phase = "check" BY DEF ScimBulkRequest
<1> QED BY <1>1, <1>2, <1>3, <1>4, <1>5, <1>6, <1>7, BulkRequestKept DEF BulkInv

\* Nothing can run only if everything that is left waits for something that is
\* left and would create what it names.
LEMMA BulkStuck ==
    ASSUME BulkInv, {i \in pending : Ready(i)} = {}, NEW i \in pending
    PROVE  \E r \in Reach({i}) : OnCircle(r)
<1>1. BulkRequestOK /\ pending \in SUBSET Indices BY DEF BulkInv
<1>2. ASSUME NEW j \in pending PROVE \E d \in Deps(j) \cap Creatable : d \in pending
  <2>1. ~Ready(j) OBVIOUS
  <2>2. PICK d \in Deps(j) : d \notin references /\ d \notin failed /\ d \in Creatable
    BY <2>1 DEF Ready
  <2>3. d \in Indices /\ responses[d] \in {"none", "ok", "error", "unresolved"}
    BY <2>2 DEF Creatable, BulkInv
  <2>4. responses[d] = "none" BY <2>2, <2>3 DEF BulkInv, Erred
  <2> QED BY <2>2, <2>3, <2>4 DEF BulkInv
<1> QED BY <1>1, <1>2, WaitingMeansCircle

LEMMA BulkRoundStep == BulkInv /\ Round => BulkInv'
<1> SUFFICES ASSUME BulkInv, Round PROVE BulkInv' OBVIOUS
<1>1. UNCHANGED <<operations, limit, references>> /\ phase = "round" BY DEF Round
<1>2. BulkRequestOK BY DEF BulkInv
<1>k. /\ BulkRequestOK' /\ Creatable' = Creatable /\ \A i : Deps(i)' = Deps(i)
      /\ \A i : OnCircle(i)' = OnCircle(i) /\ Reach({i})' = Reach({i})
      /\ \A e : Below(e)' = Below(e)
  BY <1>1, <1>2, BulkRequestKept
<1>r. limit # NoLimit => (Below(errors) <=> errors < limit) BY DEF Below
<1>3. CASE /\ pending = {} \/ ~Below(errors)
           /\ phase' = "done" /\ UNCHANGED <<ready, pending, failed, errors, responses>>
  <2>1. Erred' = Erred BY <1>3 DEF Erred
  <2>2. AllAnswered' BY <1>3, <1>k DEF AllAnswered
  <2>3. ReferencesCreated' /\ UnresolvedMeansCircle'
    BY <1>3, <1>k DEF BulkInv, ReferencesCreated, UnresolvedMeansCircle
  <2>4. ready' = {} BY <1>1, <1>3 DEF BulkInv
  <2> QED BY <1>1, <1>3, <1>k, <2>1, <2>2, <2>3, <2>4 DEF BulkInv
<1>4. CASE /\ pending # {} /\ Below(errors) /\ {i \in pending : Ready(i)} # {}
           /\ phase' = "run" /\ ready' = {i \in pending : Ready(i)}
           /\ UNCHANGED <<pending, failed, errors, responses>>
  <2>1. Erred' = Erred BY <1>4 DEF Erred
  <2>2. AllAnswered' BY <1>4 DEF AllAnswered
  <2>3. ReferencesCreated' /\ UnresolvedMeansCircle'
    BY <1>4, <1>k DEF BulkInv, ReferencesCreated, UnresolvedMeansCircle
  <2>4. ready' # {} /\ ready' \subseteq pending BY <1>4
  <2> QED BY <1>1, <1>4, <1>k, <2>1, <2>2, <2>3, <2>4 DEF BulkInv
<1>5. CASE pending # {} /\ Below(errors) /\ {i \in pending : Ready(i)} = {} /\ GiveUp
  <2>1. PICK U \in SUBSET pending :
           /\ U = pending \/ (limit # NoLimit /\ Cardinality(U) = limit - errors)
           /\ limit # NoLimit => errors + Cardinality(U) <= limit
           /\ RecordUnresolved(U)
           /\ phase' = "done" /\ ready' = {} /\ pending' = pending \ U
           /\ failed' = failed \cup (U \cap Creatable)
           /\ errors' = errors + Cardinality(U)
    BY <1>5 DEF GiveUp
  <2>2. /\ U \subseteq Indices /\ Erred \subseteq Indices /\ U \cap Erred = {}
    BY <2>1 DEF BulkInv, Erred
  <2>3. IsFiniteSet(U) /\ IsFiniteSet(Erred) /\ Cardinality(U) \in Nat
    BY <2>2, BulkIndicesFinite
  <2>4. responses' = [i \in Indices |-> IF i \in U THEN "unresolved" ELSE responses[i]]
    BY <2>1 DEF RecordUnresolved
  <2>5. Erred' = Erred \cup U BY <2>2, <2>4 DEF Erred
  <2>6. Cardinality(Erred \cup U) = Cardinality(Erred) + Cardinality(U)
    <3>1. Cardinality(Erred \cup U) = Cardinality(Erred) + Cardinality(U) - Cardinality(Erred \cap U)
      BY <2>3, FS_Union
    <3>2. Cardinality(Erred \cap U) = 0 BY <2>2, FS_EmptySet
    <3> QED BY <2>3, <3>1, <3>2 DEF BulkInv
  <2>7. errors' \in Nat /\ errors' = Cardinality(Erred') BY <2>1, <2>3, <2>5, <2>6 DEF BulkInv
  <2>8. pending' = {i \in Indices : responses'[i] = "none"}
    BY <2>1, <2>2, <2>4 DEF BulkInv
  <2>9. AllAnswered'
    <3>1. CASE U = pending BY <2>1, <3>1 DEF AllAnswered
    <3>2. CASE limit # NoLimit /\ Cardinality(U) = limit - errors
      <4>1. errors' = limit BY <2>1, <2>3, <3>2 DEF BulkInv, BulkRequestOK
      <4>2. ~Below(errors)' BY <1>1, <3>2, <4>1 DEF Below, BulkRequestOK, BulkInv
      <4> QED BY <4>2 DEF AllAnswered
    <3> QED BY <2>1, <3>1, <3>2
  <2>10. \A i \in Indices : (responses'[i] = "ok" <=> responses[i] = "ok")
    BY <2>1, <2>2, <2>4 DEF BulkInv
  <2>11. \A i \in Creatable : i \in Indices BY DEF Creatable
  <2>12. references' = {i \in Creatable' : responses'[i] = "ok"}
    BY <1>1, <1>k, <2>10, <2>11 DEF BulkInv
  <2>13. ReferencesCreated' BY <1>k, <2>10, <2>11 DEF BulkInv, ReferencesCreated
  <2>14. UnresolvedMeansCircle'
    <3> SUFFICES ASSUME NEW i \in Indices, responses'[i] = "unresolved"
                 PROVE  \E r \in Reach({i}) : OnCircle(r)
      BY <1>k DEF UnresolvedMeansCircle
    <3>1. i \in U \/ responses[i] = "unresolved" BY <2>4
    <3>2. CASE i \in U BY <1>5, <2>1, <3>2, BulkStuck
    <3>3. CASE responses[i] = "unresolved" BY <3>3 DEF BulkInv, UnresolvedMeansCircle
    <3> QED BY <3>1, <3>2, <3>3
  <2>15. failed' = Creatable' \cap Erred' BY <1>k, <2>1, <2>5 DEF BulkInv
  <2>16. responses' \in [Indices -> {"none", "ok", "error", "unresolved"}]
    BY <2>4 DEF BulkInv
  <2>17. (limit # NoLimit => errors <= limit)' BY <1>1, <2>1
  <2> QED BY <1>1, <1>k, <2>1, <2>7, <2>8, <2>9, <2>12, <2>13, <2>14, <2>15, <2>16, <2>17
          DEF BulkInv
<1> QED BY <1>3, <1>4, <1>5 DEF Round

LEMMA BulkRunStep == BulkInv /\ RunNext => BulkInv'
<1> SUFFICES ASSUME BulkInv, RunNext PROVE BulkInv' OBVIOUS
<1>1. UNCHANGED <<operations, limit>> /\ phase = "run" BY DEF RunNext
<1>2. BulkRequestOK BY DEF BulkInv
<1>k. /\ BulkRequestOK' /\ Creatable' = Creatable /\ \A i : Deps(i)' = Deps(i)
      /\ \A i : OnCircle(i)' = OnCircle(i) /\ Reach({i})' = Reach({i})
      /\ \A e : Below(e)' = Below(e)
  BY <1>1, <1>2, BulkRequestKept
<1>3. PICK i \in ready, ok \in BOOLEAN :
         /\ ok => Admissible(i)
         /\ Execute(i, ok)
         /\ ready' = IF Below(errors') THEN ready \ {i} ELSE {}
         /\ phase' = IF ready' = {} THEN "round" ELSE "run"
  BY DEF RunNext
<1>4. /\ pending' = pending \ {i}
      /\ references' = IF ok /\ i \in Creatable THEN references \cup {i} ELSE references
      /\ failed' = IF ~ok /\ i \in Creatable THEN failed \cup {i} ELSE failed
      /\ errors' = IF ok THEN errors ELSE errors + 1
      /\ responses' = [responses EXCEPT ![i] = IF ok THEN "ok" ELSE "error"]
  BY <1>3 DEF Execute
<1>5. i \in pending /\ i \in Indices /\ responses[i] = "none" /\ i \notin Erred
  BY <1>3 DEF BulkInv, Erred
<1>6. responses' \in [Indices -> {"none", "ok", "error", "unresolved"}] BY <1>4 DEF BulkInv
<1>7. /\ responses'[i] = IF ok THEN "ok" ELSE "error"
      /\ \A j \in Indices : j # i => responses'[j] = responses[j]
  BY <1>4, <1>5 DEF BulkInv
<1>8. Erred' = IF ok THEN Erred ELSE Erred \cup {i} BY <1>5, <1>7 DEF Erred
<1>9. errors' \in Nat /\ errors' = Cardinality(Erred')
  <2>1. IsFiniteSet(Erred) BY BulkIndicesFinite DEF Erred
  <2>2. Cardinality(Erred \cup {i}) = Cardinality(Erred) + 1 BY <1>5, <2>1, FS_AddElement
  <2> QED BY <1>4, <1>8, <2>2 DEF BulkInv
<1>10. pending' = {j \in Indices : responses'[j] = "none"} BY <1>4, <1>5, <1>7 DEF BulkInv
<1>11. \A j \in Creatable : j \in Indices BY DEF Creatable
<1>12. references' = {j \in Creatable' : responses'[j] = "ok"}
  BY <1>4, <1>5, <1>7, <1>11, <1>k DEF BulkInv
<1>13. failed' = Creatable' \cap Erred' BY <1>4, <1>8, <1>k DEF BulkInv
<1>14. (limit # NoLimit => errors <= limit)'
  BY <1>1, <1>4 DEF BulkInv, Below, BulkRequestOK
<1>15. ready' \subseteq pending' /\ phase' \in {"round", "run"} /\ (phase' = "run" <=> ready' # {})
  BY <1>3, <1>4 DEF BulkInv
<1>16. phase' = "run" => Below(errors)' BY <1>3, <1>k, <1>1 DEF Below
<1>17. AllAnswered' BY <1>15 DEF AllAnswered
<1>18. ReferencesCreated'
  <2> SUFFICES ASSUME NEW j \in Indices, responses'[j] = "ok", NEW r \in Deps(j)
               PROVE  r \in Creatable /\ responses'[r] = "ok"
    BY <1>k DEF ReferencesCreated
  <2>1. r \in Creatable /\ responses[r] = "ok"
    <3>1. CASE j = i
      <4>1. Deps(i) \subseteq references BY <1>3, <1>7, <3>1 DEF Admissible, Resolvable
      <4> QED BY <3>1, <4>1 DEF BulkInv
    <3>2. CASE j # i BY <1>7, <3>2 DEF BulkInv, ReferencesCreated
    <3> QED BY <3>1, <3>2
  <2>2. r # i /\ r \in Indices BY <1>5, <1>11, <2>1
  <2> QED BY <1>7, <2>1, <2>2
<1>19. UnresolvedMeansCircle'
  BY <1>7, <1>k DEF BulkInv, UnresolvedMeansCircle
<1> QED BY <1>1, <1>k, <1>6, <1>9, <1>10, <1>12, <1>13, <1>14, <1>15, <1>16, <1>17, <1>18, <1>19
        DEF BulkInv

LEMMA BulkImplies == BulkInv => BulkAnswers
<1> SUFFICES ASSUME BulkInv PROVE BulkAnswers OBVIOUS
<1>1. BulkTypeOK BY DEF BulkInv, BulkTypeOK, Erred, Creatable
<1>2. StopsAtLimit BY DEF BulkInv, StopsAtLimit, Erred
<1> QED BY <1>1, <1>2 DEF BulkInv, BulkAnswers

\* POST /scim/v2/Bulk, for requests of any size with any references and any
\* failOnErrors: the operations run in the order of their references, at most
\* failOnErrors of them fail, all are answered unless that limit stops the
\* job, and only those that lead to a circle are answered as unresolvable.
THEOREM BulkJobAnswers == BulkSpec => []BulkAnswers
<1>1. BulkInit => BulkInv BY BulkInitHolds
<1>2. BulkInv /\ [BulkNext]_bulkVars => BulkInv'
  <2> SUFFICES ASSUME BulkInv, [BulkNext]_bulkVars PROVE BulkInv' OBVIOUS
  <2>1. CASE UNCHANGED bulkVars
    <3>1. UNCHANGED <<operations, limit, phase, ready, pending, references, failed, errors, responses>>
      BY <2>1 DEF bulkVars
    <3>2. BulkRequestOK BY DEF BulkInv
    <3>3. Erred' = Erred BY <3>1 DEF Erred
    <3>4. AllAnswered' BY <3>1 DEF BulkInv, AllAnswered, Below
    <3>5. ReferencesCreated' /\ UnresolvedMeansCircle'
      BY <3>1, <3>2, BulkRequestKept DEF BulkInv, ReferencesCreated, UnresolvedMeansCircle
    <3>6. (phase = "run" => Below(errors))' BY <3>1 DEF BulkInv, Below
    <3> QED BY <3>1, <3>2, <3>3, <3>4, <3>5, <3>6, BulkRequestKept DEF BulkInv
  <2> QED BY <2>1, BulkRequestStep, BulkRoundStep, BulkRunStep DEF BulkNext
<1>3. BulkInv => BulkAnswers BY BulkImplies
<1> QED BY <1>1, <1>2, <1>3, PTL DEF BulkSpec
=============================================================================
