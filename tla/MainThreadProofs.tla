-------------------------- MODULE MainThreadProofs --------------------------
(* Proofs about what the main thread does, for any values of the constants,  *)
(* from what folds and filters over sequences compute.                       *)
(* Lists: the feed list is current whenever it is on the screen; "next       *)
(* unread" gets to an unread article if there is one; leaving an article or  *)
(* a list goes back to its line. The inductive invariant is ListsInv: the    *)
(* types of the fields the main thread has (Typed), and what has been made   *)
(* up for when a key comes (AtRest). Between the operation and the drawing   *)
(* there is Ready, and Settled while the article list goes from feed to feed.*)
(* Questions: what is done with answers was asked for, and a session begins  *)
(* with the history of the one before. The inductive invariant is            *)
(* QuestionsInv: what a form has been asked and answered is the beginning of *)
(* its prompts (Begun, InOrder), and no line of a history is empty.          *)
(* Documents: the elements of a feed may come in any order. Of two steps     *)
(* either order gives the same item, so that all orders give the same result *)
(* (Folding); what is stored is parsed from some order (DocumentsInv).       *)
EXTENDS Lists, Questions, Documents, FiniteSetTheorems, SequenceTheorems, TLAPS

\* The fold of Questions, for Folding: the history that is read.
Anything(v) == TRUE
AddedIn(h, text, c, d) == Added(h, text)
Lines == INSTANCE Folding WITH Op <- AddedIn, Is <- Anything

-----------------------------------------------------------------------------
(* Induction, and the elements of a filtered sequence.                       *)

\* A set of numbers with 0 and with the successor of each of its members has
\* all of them.
LEMMA Induction ==
  ASSUME NEW S, 0 \in S, \A n \in Nat : n \in S => n + 1 \in S
  PROVE  Nat \subseteq S
BY Lines!Induction

\* The first n values of the function that Filtered recurs on.
Picks(E, seq, S, g, n) ==
  /\ g \in [0 .. n -> Seq(E \cap S)]
  /\ g[0] = <<>>
  /\ \A k \in 1 .. n : g[k] = IF seq[k] \in S THEN Append(g[k - 1], seq[k]) ELSE g[k - 1]

LEMMA PicksExist ==
  ASSUME NEW E, NEW seq \in Seq(E), NEW S
  PROVE  \E g : Picks(E, seq, S, g, Len(seq))
<1> DEFINE good == {n \in Nat : n <= Len(seq) => \E g : Picks(E, seq, S, g, n)}
<1>1. 0 \in good
  <2> DEFINE g == [k \in 0 .. 0 |-> <<>>]
  <2>1. g \in [0 .. 0 -> Seq(E \cap S)] /\ g[0] = <<>>
    OBVIOUS
  <2>2. \A k \in 1 .. 0 : FALSE
    OBVIOUS
  <2> HIDE DEF g
  <2>. QED
    BY <2>1, <2>2 DEF Picks
<1>2. ASSUME NEW n \in Nat, n \in good
      PROVE  n + 1 \in good
  <2> SUFFICES ASSUME n + 1 <= Len(seq)
               PROVE  \E g : Picks(E, seq, S, g, n + 1)
    OBVIOUS
  <2>1. Len(seq) \in Nat /\ n <= Len(seq) /\ n + 1 \in 1 .. Len(seq)
    OBVIOUS
  <2>2. PICK h : Picks(E, seq, S, h, n)
    BY <1>2, <2>1
  <2>3. seq[n + 1] \in E
    BY <2>1
  <2> HIDE DEF good
  <2> DEFINE last == IF seq[n + 1] \in S THEN Append(h[n], seq[n + 1]) ELSE h[n]
             g == [k \in 0 .. n + 1 |-> IF k <= n THEN h[k] ELSE last]
  <2>4. h \in [0 .. n -> Seq(E \cap S)] /\ h[n] \in Seq(E \cap S)
    BY SMTT(20), <2>2 DEF Picks
  <2>5. last \in Seq(E \cap S)
    BY <2>3, <2>4
  <2>6. /\ \A k \in 0 .. n : k <= n /\ k \in 0 .. n + 1
        /\ ~(n + 1 <= n) /\ n + 1 \in 0 .. n + 1 /\ \A k \in 0 .. n + 1 : k <= n => k \in 0 .. n
    OBVIOUS
  <2>7. g \in [0 .. n + 1 -> Seq(E \cap S)]
    <3> HIDE DEF last
    <3>. QED
      BY <2>4, <2>5, <2>6
  <2>8. (\A k \in 0 .. n : g[k] = h[k]) /\ g[n + 1] = last
    <3> HIDE DEF last
    <3>. QED
      BY <2>6
  <2> HIDE DEF g
  <2>9. g[0] = <<>>
    BY <2>2, <2>8 DEF Picks
  <2>10. ASSUME NEW k \in 1 .. n + 1
         PROVE  g[k] = IF seq[k] \in S THEN Append(g[k - 1], seq[k]) ELSE g[k - 1]
    <3>1. CASE k = n + 1
      <4>1. k - 1 = n /\ n \in 0 .. n
        BY <3>1
      <4>. QED
        BY <2>8, <3>1, <4>1
    <3>2. CASE k # n + 1
      <4>1. k \in 1 .. n /\ k \in 0 .. n /\ k - 1 \in 0 .. n
        BY <3>2
      <4>. QED
        BY <2>2, <2>8, <4>1 DEF Picks
    <3>. QED
      BY <3>1, <3>2
  <2>. QED
    BY <2>7, <2>9, <2>10 DEF Picks
<1>3. Len(seq) \in good
  <2>1. Len(seq) \in Nat
    OBVIOUS
  <2> HIDE DEF good
  <2>. QED
    BY <1>1, <1>2, <2>1, Induction
<1>. QED
  BY <1>3

LEMMA FilteredIsPick ==
  ASSUME NEW E, NEW seq \in Seq(E), NEW S
  PROVE  \E g : Picks(E, seq, S, g, Len(seq)) /\ Filtered(seq, S) = g[Len(seq)]
<1> DEFINE n == Len(seq)
           Step(g) == [k \in 0 .. n |-> IF k = 0 THEN <<>> ELSE IF seq[k] \in S THEN Append(g[k - 1], seq[k]) ELSE g[k - 1]]
           pick == CHOOSE g : g = Step(g)
<1>1. PICK g : Picks(E, seq, S, g, n)
  BY PicksExist
<1>0. n \in Nat
  OBVIOUS
<1>2. g = Step(g)
  <2> HIDE DEF n
  <2>1. g = [k \in 0 .. n |-> g[k]]
    BY <1>1 DEF Picks
  <2>2. ASSUME NEW k \in 0 .. n
        PROVE  g[k] = IF k = 0 THEN <<>> ELSE IF seq[k] \in S THEN Append(g[k - 1], seq[k]) ELSE g[k - 1]
    <3>1. k # 0 => k \in 1 .. n
      BY <1>0
    <3>. QED
      BY <1>1, <3>1 DEF Picks
  <2>. QED
    BY <2>1, <2>2
<1>3. pick = Step(pick)
  <2> HIDE DEF Step
  <2>. QED
    BY <1>2
<1>4. \A k \in 0 .. n : pick[k] = IF k = 0 THEN <<>> ELSE IF seq[k] \in S THEN Append(pick[k - 1], seq[k]) ELSE pick[k - 1]
  BY <1>3
<1>5. Filtered(seq, S) = pick[n]
  BY DEF Filtered
<1> HIDE DEF pick
<1>6. ASSUME NEW k \in 1 .. n
      PROVE  /\ k \in 0 .. n /\ k # 0 /\ k - 1 \in 0 .. n
             /\ pick[k] = IF seq[k] \in S THEN Append(pick[k - 1], seq[k]) ELSE pick[k - 1]
  BY <1>0, <1>4
<1>7. 0 \in 0 .. n
  BY <1>0
<1>8. pick[0] = <<>>
  BY <1>4, <1>7
<1> DEFINE same == {k \in Nat : k <= n => pick[k] = g[k]}
<1>9. \A k \in Nat : k \in same
  <2>1. 0 \in same
    BY <1>1, <1>8 DEF Picks
  <2>2. ASSUME NEW k \in Nat, k \in same PROVE k + 1 \in same
    <3> SUFFICES ASSUME k + 1 <= n PROVE pick[k + 1] = g[k + 1]
      OBVIOUS
    <3>1. k <= n /\ k + 1 \in 1 .. n /\ (k + 1) - 1 = k
      BY <1>0
    <3>2. pick[k] = g[k]
      BY <2>2, <3>1
    <3>3. g[k + 1] = IF seq[k + 1] \in S THEN Append(g[k], seq[k + 1]) ELSE g[k]
      BY <1>1, <3>1 DEF Picks
    <3>. QED
      BY <1>6, <3>1, <3>2, <3>3
  <2> HIDE DEF same
  <2>. QED
    BY <2>1, <2>2, Induction
<1>10. pick[n] = g[n]
  <2>1. n \in same /\ n <= n
    BY <1>0, <1>9
  <2>. QED
    BY <2>1
<1>. QED
  BY <1>1, <1>5, <1>10

LEMMA FilteredElements ==
  ASSUME NEW E, NEW seq \in Seq(E), NEW S
  PROVE  /\ Filtered(seq, S) \in Seq(E \cap S)
         /\ \A i \in 1 .. Len(seq) : seq[i] \in S =>
              \E k \in 1 .. Len(Filtered(seq, S)) : Filtered(seq, S)[k] = seq[i]
<1>1. PICK g : Picks(E, seq, S, g, Len(seq)) /\ Filtered(seq, S) = g[Len(seq)]
  BY FilteredIsPick
<1>2. Len(seq) \in Nat
  OBVIOUS
<1> DEFINE Has(n) == \A i \in 1 .. n : seq[i] \in S => \E k \in 1 .. Len(g[n]) : g[n][k] = seq[i]
           good == {n \in Nat : n <= Len(seq) => Has(n)}
<1>3. 0 \in good
  OBVIOUS
<1>4. ASSUME NEW n \in Nat, n \in good
      PROVE  n + 1 \in good
  <2> SUFFICES ASSUME n + 1 <= Len(seq), NEW i \in 1 .. n + 1, seq[i] \in S
               PROVE  \E k \in 1 .. Len(g[n + 1]) : g[n + 1][k] = seq[i]
    OBVIOUS
  <2>1. /\ n <= Len(seq) /\ n + 1 \in 1 .. Len(seq) /\ n \in 0 .. Len(seq) /\ (n + 1) - 1 = n
        /\ i \in 1 .. Len(seq) /\ n + 1 \in 0 .. Len(seq)
    BY <1>2
  <2>2. Has(n)
    BY <1>4, <2>1
  <2>3. g[n] \in Seq(E \cap S) /\ g[n + 1] \in Seq(E \cap S)
    BY <1>1, <2>1 DEF Picks
  <2>4. g[n + 1] = IF seq[n + 1] \in S THEN Append(g[n], seq[n + 1]) ELSE g[n]
    BY <1>1, <2>1 DEF Picks
  <2>5. seq[i] \in E \cap S
    BY <2>1
  <2> HIDE DEF good
  <2>6. CASE i = n + 1
    <3>1. g[n + 1] = Append(g[n], seq[i])
      BY <2>4, <2>6
    <3>2. Len(g[n]) + 1 \in 1 .. Len(g[n + 1]) /\ g[n + 1][Len(g[n]) + 1] = seq[i]
      BY <2>3, <2>5, <3>1
    <3>. QED
      BY <3>2
  <2>7. CASE i # n + 1
    <3>1. i \in 1 .. n
      BY <2>7
    <3>2. PICK k \in 1 .. Len(g[n]) : g[n][k] = seq[i]
      BY <2>2, <3>1
    <3>3. CASE seq[n + 1] \in S
      <4>1. g[n + 1] = Append(g[n], seq[n + 1]) /\ seq[n + 1] \in E \cap S
        BY <2>1, <2>4, <3>3
      <4>2. k \in 1 .. Len(g[n + 1]) /\ g[n + 1][k] = g[n][k]
        BY <2>3, <4>1
      <4>. QED
        BY <3>2, <4>2
    <3>4. CASE seq[n + 1] \notin S
      BY <2>4, <3>2, <3>4
    <3>. QED
      BY <3>3, <3>4
  <2>. QED
    BY <2>6, <2>7
<1>5. Len(seq) \in good
  <2> HIDE DEF good
  <2>. QED
    BY <1>2, <1>3, <1>4, Induction
<1>6. Has(Len(seq))
  BY <1>2, <1>5
<1>7. g[Len(seq)] \in Seq(E \cap S)
  BY <1>1, <1>2 DEF Picks
<1>. QED
  BY <1>1, <1>6, <1>7

\* Every set of natural numbers that is not empty has a least element.
LEMMA Least ==
  ASSUME NEW T \in SUBSET Nat, T # {}
  PROVE  Min(T) \in T /\ \A x \in T : Min(T) <= x
BY Lines!LeastExists DEF Min

\* And if it has a bound, it has a greatest one.
LEMMA Greatest ==
  ASSUME NEW n \in Nat, NEW T \in SUBSET (0 .. n), T # {}
  PROVE  Max(T) \in T /\ \A x \in T : x <= Max(T)
<1> DEFINE up == {n - x : x \in T}
<1>0. \A x \in 0 .. n : x \in Nat /\ n - x \in Nat
  OBVIOUS
<1>1. up \in SUBSET Nat /\ up # {}
  BY <1>0
<1> HIDE DEF up
<1>2. Min(up) \in up /\ \A y \in up : Min(up) <= y
  BY <1>1, Least
<1>3. PICK m \in T : Min(up) = n - m
  BY <1>2 DEF up
<1>4. ASSUME NEW x \in T
      PROVE  m >= x
  <2>1. n - x \in up
    BY DEF up
  <2>2. n - m <= n - x
    BY <1>2, <1>3, <2>1
  <2>3. m \in 0 .. n /\ x \in 0 .. n
    OBVIOUS
  <2>. QED
    BY <2>2, <2>3
<1>5. \E a \in T : \A x \in T : a >= x
  BY <1>4
<1>6. Max(T) \in T /\ \A x \in T : Max(T) >= x
  BY <1>5 DEF Max
<1>7. \A x \in T : x \in Nat /\ Max(T) \in Nat
  BY <1>0, <1>6
<1>. QED
  BY <1>6, <1>7

-----------------------------------------------------------------------------
(* The record of the main thread, and its parts.                             *)
Fields == {"screen", "beyond", "show_feeds", "show_items", "tag", "feed_filter", "feeds", "feedpos",
           "named", "redraw", "zero_feedpos", "feed_kept", "feed", "item_filter", "items", "itempos",
           "stale", "old_itempos", "item_kept", "article", "replaced"}
IsUi(u) == DOMAIN u = Fields /\ u = [x \in Fields |-> u[x]]

ExistingIn(n) == {a \in Articles : a[2] <= n[a[1]]}
Existing == ExistingIn(count)
ArticlesIn(n, f) == [k \in 1 .. n[f] |-> <<f, n[f] + 1 - k>>]

\* What holds of the fields after every step of an operation.
Loose(u) ==
  /\ IsUi(u)
  /\ u.feeds \in Seq(Feeds) /\ u.feedpos \in Nat /\ u.named \in Feeds \cup {NoFeed}
  /\ u.items \in Seq(Existing) /\ u.itempos \in Nat /\ u.old_itempos \in Nat \cup {NoPos}
Typed(u) ==
  /\ Loose(u)
  /\ u.screen \in {"feeds", "items", "article"}
  /\ u.screen # "feeds" => u.feed \in Feeds

\* The feed list has nothing left to do.
FeedsAtRest(u) == u.feed_kept = NoFeed /\ ~u.zero_feedpos
\* The article list has what its filter lets through.
ItemsAtRest(u) ==
  /\ u.item_kept = NoPos
  /\ u.show_items => ~u.item_filter
  /\ ~u.item_filter => u.items = ArticlesOf(u.feed)

\* What holds when a key comes.
AtRest(u) ==
  ~u.beyond =>
    /\ FeedsAtRest(u)
    /\ u.screen # "feeds" => ItemsAtRest(u)
    /\ u.screen = "article" =>
         /\ u.article \in Existing
         /\ ~u.replaced => u.itempos < Len(u.items) /\ u.items[u.itempos + 1] = u.article

\* The feed list has the feeds that the tag and the filter let through.
Current(u, ur) == u.screen = "feeds" /\ ~u.beyond => u.feeds = VisibleFeeds(u, ur)

\* What holds when the form on top is about to be prepared and drawn.
Ready(u, ur) ==
  ~u.beyond =>
    /\ u.screen = "feeds" => IF u.redraw
                               THEN u.feed_kept = NoFeed \/ ~u.zero_feedpos
                               ELSE FeedsAtRest(u) /\ Current(u, ur)
    /\ u.screen = "items" => FeedsAtRest(u) /\ (u.show_items => ~u.item_filter) /\ (~u.stale => ItemsAtRest(u))
    /\ u.screen = "article" => AtRest(u)

\* Between the two, with the article list on top or under the article.
Settled(u) ==
  /\ Typed(u) /\ u.screen # "feeds"
  /\ ~u.beyond => FeedsAtRest(u) /\ ItemsAtRest(u)

Counts(n) == n \in [Feeds -> Nat] /\ \A f \in Feeds : n[f] <= MaxArticles[f]
CountsInv == Counts(count)
ListsInv ==
  /\ CountsInv /\ unread \subseteq Existing
  /\ Typed(ui) /\ AtRest(ui) /\ FeedsAreCurrent

-----------------------------------------------------------------------------
(* The lists and the searches.                                               *)
LEMMA FeedsAreNumbers ==
  /\ \A f \in Feeds : f \in Nat
  /\ [f \in Feeds |-> f] \in Seq(Feeds)
<1>1. NFeeds \in Nat
  BY ListsAssumption
<1>. QED
  BY <1>1 DEF Feeds

LEMMA ArticlesInAll ==
  ASSUME NEW c, Counts(c), NEW f \in Feeds
  PROVE  /\ ArticlesIn(c, f) \in Seq(ExistingIn(c))
         /\ \A a \in ExistingIn(c) : a[1] = f => \E k \in 1 .. Len(ArticlesIn(c, f)) : ArticlesIn(c, f)[k] = a
<1> DEFINE n == c[f]
<1>0. n \in Nat /\ n <= MaxArticles[f]
  BY DEF Counts
<1>1. ArticlesIn(c, f) = [k \in 1 .. n |-> <<f, n + 1 - k>>]
  BY DEF ArticlesIn
<1>4. \A i : <<f, i>>[1] = f /\ <<f, i>>[2] = i
  OBVIOUS
<1>5. \A a : a \in ExistingIn(c) <=> a \in Articles /\ a[2] <= c[a[1]]
  BY DEF ExistingIn
<1>6. \A a \in ExistingIn(c) : a[1] = f => a[2] <= n
  BY <1>5
<1>7. \A i \in 1 .. n : <<f, i>> \in Articles => <<f, i>> \in ExistingIn(c)
  BY <1>0, <1>4, <1>5
<1> HIDE DEF n
<1>2. ArticlesIn(c, f) \in Seq(ExistingIn(c))
  <2>1. \A k \in 1 .. n : n + 1 - k \in 1 .. n
    BY <1>0
  <2>2. MaxArticles[f] \in Nat
    BY ListsAssumption
  <2>3. \A k \in 1 .. n : k \in 1 .. MaxArticles[f] /\ k <= n
    BY <1>0, <2>2
  <2>4. \A k \in 1 .. n : <<f, k>> \in ExistingIn(c)
    BY <1>7, <2>3 DEF Articles
  <2>5. \A k \in 1 .. n : <<f, n + 1 - k>> \in ExistingIn(c)
    BY <2>1, <2>4
  <2> DEFINE seq == [k \in 1 .. n |-> <<f, n + 1 - k>>]
  <2>6. seq \in [1 .. n -> ExistingIn(c)]
    BY <2>5
  <2> HIDE DEF seq
  <2>7. seq \in Seq(ExistingIn(c))
    BY <1>0, <2>6
  <2>. QED
    BY <1>1, <2>7 DEF seq
<1>3. ASSUME NEW a \in ExistingIn(c), a[1] = f
      PROVE  \E k \in 1 .. Len(ArticlesIn(c, f)) : ArticlesIn(c, f)[k] = a
  <2>1. PICK g \in Feeds : a \in {g} \X (1 .. MaxArticles[g])
    BY DEF ExistingIn, Articles
  <2>2. a = <<f, a[2]>> /\ a[2] \in 1 .. MaxArticles[f]
    BY <1>3, <2>1
  <2>3. MaxArticles[f] \in Nat
    BY ListsAssumption
  <2>4. a[2] <= n
    BY <1>3, <1>6
  <2>5. a[2] \in Int /\ a[2] \in 1 .. n
    BY <1>0, <2>2, <2>3, <2>4
  <2> DEFINE i == a[2]
             k == n + 1 - i
  <2>6. k \in 1 .. n /\ n + 1 - k = i
    BY <1>0, <2>5
  <2> HIDE DEF i, k
  <2>7. ArticlesIn(c, f)[k] = <<f, i>> /\ Len(ArticlesIn(c, f)) = n
    BY <1>0, <1>1, <2>6
  <2>. QED
    BY <2>2, <2>6, <2>7 DEF i
<1>. QED
  BY <1>1, <1>2, <1>3

LEMMA ArticlesOfAll ==
  ASSUME CountsInv, NEW f \in Feeds
  PROVE  /\ ArticlesOf(f) \in Seq(Existing)
         /\ \A a \in Existing : a[1] = f => \E k \in 1 .. Len(ArticlesOf(f)) : ArticlesOf(f)[k] = a
<1>1. ArticlesOf(f) = ArticlesIn(count, f)
  BY DEF ArticlesOf, ArticlesIn
<1>. QED
  BY <1>1, ArticlesInAll DEF CountsInv, Existing

LEMMA FirstOfHits ==
  ASSUME NEW H \in SUBSET Nat
  PROVE  (FirstOf(H) = NoPos \/ FirstOf(H) \in H) /\ (H # {} => FirstOf(H) \in H)
BY Least DEF FirstOf

LEMMA LastOfHits ==
  ASSUME NEW n \in Nat, NEW H \in SUBSET (0 .. n - 1)
  PROVE  (LastOf(H) = NoPos \/ LastOf(H) \in H) /\ (H # {} => LastOf(H) \in H)
<1>1. H \in SUBSET (0 .. n)
  OBVIOUS
<1>. QED
  BY <1>1, Greatest DEF LastOf

LEMMA NextOfHits ==
  ASSUME NEW n \in Nat, NEW H \in SUBSET (0 .. n - 1), NEW pos \in Nat, NEW start \in {pos, pos + 1}
  PROVE  (NextOf(H, start, pos) = NoPos \/ NextOf(H, start, pos) \in H)
         /\ (H # {} => NextOf(H, start, pos) \in H)
<1> DEFINE after == {i \in H : i >= start}
           before == {i \in H : i <= pos}
<1>0. \A i \in 0 .. n - 1 : i \in Nat
  OBVIOUS
<1>1. after \in SUBSET Nat /\ before \in SUBSET Nat /\ after \subseteq H /\ before \subseteq H
  BY <1>0
<1>2. \A i \in H : i >= start \/ i <= pos
  <2>1. \A i \in 0 .. n - 1 : i >= start \/ i <= pos
    OBVIOUS
  <2>. QED
    BY <2>1
<1>3. NextOf(H, start, pos) = IF after # {} THEN FirstOf(after) ELSE FirstOf(before)
  BY DEF NextOf
<1>4. H # {} => after # {} \/ before # {}
  BY <1>2
<1> HIDE DEF after, before
<1>. QED
  BY <1>1, <1>3, <1>4, FirstOfHits

LEMMA PreviousOfHits ==
  ASSUME NEW n \in Nat, NEW H \in SUBSET (0 .. n - 1), NEW pos \in Nat, NEW start \in {pos, pos - 1}
  PROVE  (PreviousOf(H, start, pos) = NoPos \/ PreviousOf(H, start, pos) \in H)
         /\ (H # {} => PreviousOf(H, start, pos) \in H)
<1> DEFINE before == {i \in H : i <= start}
           after == {i \in H : i >= pos}
<1>1. before \in SUBSET (0 .. n - 1) /\ after \in SUBSET (0 .. n - 1) /\ after \subseteq H /\ before \subseteq H
  OBVIOUS
<1>2. \A i \in H : i <= start \/ i >= pos
  <2>1. \A i \in 0 .. n - 1 : i <= start \/ i >= pos
    OBVIOUS
  <2>. QED
    BY <2>1
<1>3. PreviousOf(H, start, pos) = IF before # {} THEN LastOf(before) ELSE LastOf(after)
  BY DEF PreviousOf
<1>4. H # {} => after # {} \/ before # {}
  BY <1>2
<1> HIDE DEF after, before
<1>. QED
  BY <1>1, <1>3, <1>4, LastOfHits

LEMMA HitsAreLines ==
  ASSUME NEW u, Typed(u), NEW ur
  PROVE  /\ Len(u.feeds) \in Nat /\ FeedHits(u, ur) \in SUBSET (0 .. Len(u.feeds) - 1)
         /\ Len(u.items) \in Nat /\ ItemHits(u, ur) \in SUBSET (0 .. Len(u.items) - 1)
BY DEF Typed, Loose, FeedHits, ItemHits

\* What a search of the feed list finds is a line of it.
LEMMA FoundFeed ==
  ASSUME NEW u, Typed(u), NEW ur, NEW way \in Ways
  PROVE  LET hit == FindFeed(way, u, ur) IN
         /\ ~hit.beyond /\ hit.to # NoPos => hit.to \in 0 .. Len(u.feeds) - 1
         /\ way = "next unread" /\ FeedHits(u, ur) # {} => ~hit.beyond /\ hit.to \in FeedHits(u, ur)
<1> DEFINE n == Len(u.feeds)
           H == FeedHits(u, ur)
           p == u.feedpos
           hit == FindFeed(way, u, ur)
<1>1. n \in Nat /\ H \in SUBSET (0 .. n - 1) /\ p \in Nat
  BY HitsAreLines DEF Typed, Loose
<1> HIDE DEF n, H, p
<1> SUFFICES /\ ~hit.beyond /\ hit.to # NoPos => hit.to \in 0 .. n - 1
             /\ way = "next unread" /\ H # {} => ~hit.beyond /\ hit.to \in H
  BY DEF n, H
<1>2. CASE way = "next unread"
  <2> DEFINE i == NextOf(H, p + 1, p)
  <2>1. (i = NoPos \/ i \in H) /\ (H # {} => i \in H)
    BY <1>1, NextOfHits
  <2>2. hit = [to |-> i, beyond |-> i = NoPos /\ p >= n]
    BY <1>2 DEF FindFeed, NextUnreadFeed, H, p, n
  <2> HIDE DEF i, hit
  <2>4. hit.to = i
    BY <2>2
  <2>5. hit.beyond = (i = NoPos /\ p >= n)
    BY <2>2
  <2>3. \A x \in 0 .. n - 1 : x # NoPos
    BY <1>1 DEF NoPos
  <2>. QED
    BY <1>1, <2>1, <2>3, <2>4, <2>5
<1>3. CASE way = "previous unread"
  <2> DEFINE i == PreviousOf(H, p - 1, p)
  <2>1. i = NoPos \/ i \in H
    BY <1>1, PreviousOfHits
  <2>2. hit = [to |-> i, beyond |-> p > n]
    BY <1>3 DEF FindFeed, PreviousUnreadFeed, H, p, n
  <2>3. hit.to = i
    BY <2>2
  <2> HIDE DEF i, hit
  <2>. QED
    BY <1>1, <1>3, <2>1, <2>3
<1>4. CASE way = "next"
  <2>1. hit = [to |-> IF p + 1 < n THEN p + 1 ELSE NoPos, beyond |-> FALSE]
    BY <1>4 DEF FindFeed, NextFeed, p, n
  <2>2. hit.to = IF p + 1 < n THEN p + 1 ELSE NoPos
    BY <2>1
  <2> HIDE DEF hit
  <2>3. hit.to # NoPos => hit.to \in 0 .. n - 1
    <3>1. p + 1 < n => p + 1 \in 0 .. n - 1
      BY <1>1
    <3>. QED
      BY <2>2, <3>1
  <2>. QED
    BY <1>4, <2>3
<1>5. CASE way = "previous"
  <2>1. hit = [to |-> p - 1, beyond |-> p > n]
    BY <1>5 DEF FindFeed, PreviousFeed, p, n
  <2> HIDE DEF hit
  <2>2. hit.to = p - 1
    BY <2>1
  <2>3. hit.beyond = (p > n)
    BY <2>1
  <2>4. p <= n /\ p - 1 # NoPos => p - 1 \in 0 .. n - 1
    BY <1>1 DEF NoPos
  <2>5. ~hit.beyond => p <= n
    <3>1. ~(p > n) => p <= n
      BY <1>1
    <3>. QED
      BY <2>3, <3>1, Zenon
  <2>6. ~hit.beyond /\ hit.to # NoPos => hit.to \in 0 .. n - 1
    BY <2>2, <2>4, <2>5
  <2>. QED
    BY <1>5, <2>6
<1>. QED
  BY <1>2, <1>3, <1>4, <1>5 DEF Ways

\* What a search of the article list finds is a place in it, and an unread
\* article if one was looked for.
LEMMA FoundItem ==
  ASSUME NEW u, Typed(u), NEW ur, NEW way \in Ways, NEW fresh \in BOOLEAN
  PROVE  LET i == FindItem(way, u, ur, fresh) IN
         /\ i = NoPos \/ i \in Nat
         /\ way = "next unread" => (i = NoPos \/ i \in ItemHits(u, ur)) /\ (ItemHits(u, ur) # {} => i \in ItemHits(u, ur))
<1> DEFINE n == Len(u.items)
           H == ItemHits(u, ur)
           p == u.itempos
<1>1. n \in Nat /\ H \in SUBSET (0 .. n - 1) /\ p \in Nat
  BY HitsAreLines DEF Typed, Loose
<1> HIDE DEF n, H, p
<1>0. \A i \in H : i \in Nat
  BY <1>1
<1>2. CASE way = "next unread"
  <2> DEFINE s == IF fresh THEN p ELSE p + 1
             i == NextOf(H, s, p)
  <2>0. s \in {p, p + 1}
    OBVIOUS
  <2> HIDE DEF s
  <2>1. (i = NoPos \/ i \in H) /\ (H # {} => i \in H)
    BY <1>1, <2>0, NextOfHits
  <2>2. FindItem(way, u, ur, fresh) = i
    BY <1>2 DEF FindItem, NextUnreadItem, H, p, n, s
  <2> HIDE DEF i
  <2>. QED
    BY <1>0, <2>1, <2>2 DEF n, H
<1>3. CASE way = "previous unread"
  <2> DEFINE s == IF fresh THEN p ELSE p - 1
             i == PreviousOf(H, s, p)
  <2>0. s \in {p, p - 1}
    OBVIOUS
  <2> HIDE DEF s
  <2>1. i = NoPos \/ i \in H
    BY <1>1, <2>0, PreviousOfHits
  <2>2. FindItem(way, u, ur, fresh) = i
    BY <1>3 DEF FindItem, PreviousUnreadItem, H, p, n, s
  <2> HIDE DEF i
  <2>. QED
    BY <1>0, <1>3, <2>1, <2>2 DEF n, H
<1>4. CASE way = "next"
  <2> DEFINE i == IF fresh THEN p ELSE p + 1
  <2>1. FindItem(way, u, ur, fresh) = IF i < n THEN i ELSE NoPos
    BY <1>4 DEF FindItem, NextItem, p, n
  <2>2. i \in Nat
    BY <1>1
  <2>. QED
    BY <1>4, <2>1, <2>2
<1>5. CASE way = "previous"
  <2>1. FindItem(way, u, ur, fresh) = IF fresh THEN p ELSE p - 1
    BY <1>5 DEF FindItem, PreviousItem, p
  <2>2. p \in Nat /\ (p - 1 = NoPos \/ p - 1 \in Nat)
    BY <1>1 DEF NoPos
  <2>. QED
    BY <1>5, <2>1, <2>2
<1>. QED
  BY <1>2, <1>3, <1>4, <1>5 DEF Ways

-----------------------------------------------------------------------------
(* Entering a feed, going to another feed and to another article.            *)
\* What of the record stays when the article list goes to another place.
SameForm(u, v) ==
  /\ v.screen = u.screen /\ v.article = u.article /\ v.replaced = u.replaced
  /\ v.show_items = u.show_items

LEMMA VisibleItemsTyped ==
  ASSUME CountsInv, NEW u, NEW f \in Feeds, NEW ur
  PROVE  /\ VisibleItems(u, ArticlesOf(f), ur) \in Seq(Existing)
         /\ ~u.item_filter => VisibleItems(u, ArticlesOf(f), ur) = ArticlesOf(f)
         /\ ur \subseteq Existing /\ HasUnread(f, ur) =>
              \E k \in 1 .. Len(VisibleItems(u, ArticlesOf(f), ur)) : VisibleItems(u, ArticlesOf(f), ur)[k] \in ur
<1> DEFINE all == ArticlesOf(f)
           some == Filtered(all, ur)
           seq == VisibleItems(u, all, ur)
<1>1. all \in Seq(Existing)
  BY ArticlesOfAll
<1>2. some \in Seq(Existing \cap ur)
      /\ \A i \in 1 .. Len(all) : all[i] \in ur => \E k \in 1 .. Len(some) : some[k] = all[i]
  <2> HIDE DEF all
  <2>. QED
    BY <1>1, FilteredElements
<1>3. seq = IF u.item_filter THEN some ELSE all
  BY DEF VisibleItems
<1>4. some \in Seq(Existing)
  BY <1>2
<1>5. ASSUME ur \subseteq Existing, HasUnread(f, ur)
      PROVE  \E k \in 1 .. Len(seq) : seq[k] \in ur
  <2>1. PICK a \in ur : a[1] = f
    BY <1>5 DEF HasUnread
  <2>2. PICK i \in 1 .. Len(all) : all[i] = a
    BY <1>5, <2>1, ArticlesOfAll
  <2>3. PICK k \in 1 .. Len(some) : some[k] = a
    BY <1>2, <2>1, <2>2
  <2> HIDE DEF some, all, seq
  <2>. QED
    BY <1>3, <2>1, <2>2, <2>3
<1> HIDE DEF some, all, seq
<1>6. seq \in Seq(Existing) /\ (~u.item_filter => seq = all)
  BY <1>1, <1>3, <1>4
<1>. QED
  BY <1>5, <1>6 DEF all, seq

LEMMA EnteredSettled ==
  ASSUME CountsInv, NEW u, Loose(u), u.screen \in {"items", "article"}, FeedsAtRest(u), u.item_kept = NoPos,
         NEW f \in Feeds, NEW ur
  PROVE  LET v == Entered(u, f, ur) IN
         /\ Settled(v) /\ SameForm(u, v) /\ v.beyond = u.beyond
         /\ ur \subseteq Existing /\ HasUnread(f, ur) => ItemHits(v, ur) # {}
<1> DEFINE filter == ~u.show_items
           v == [u EXCEPT !.feed = f, !.item_filter = filter, !.itempos = 0, !.stale = TRUE]
           seq == VisibleItems(v, ArticlesOf(f), ur)
           w == [v EXCEPT !.items = seq]
           i == NextUnreadItem(w, ur, TRUE)
           e == Entered(u, f, ur)
<1>1. e = IF cfg.first_unread /\ i # NoPos THEN [w EXCEPT !.itempos = i] ELSE w
  BY DEF Entered
<1>2. IsUi(u)
  BY DEF Loose
<1>15. filter = (~u.show_items)
  OBVIOUS
<1> HIDE DEF filter
<1>16. IsUi(v) /\ v.feed = f /\ v.itempos = 0 /\ v.item_filter = filter
  BY <1>2 DEF IsUi, Fields
<1>3. IsUi(v) /\ v.feed = f /\ v.itempos = 0 /\ v.item_filter = (~u.show_items)
  BY <1>15, <1>16
<1>4. /\ v.screen = u.screen /\ v.article = u.article /\ v.replaced = u.replaced
      /\ v.show_items = u.show_items /\ v.beyond = u.beyond
      /\ v.feeds = u.feeds /\ v.feedpos = u.feedpos /\ v.named = u.named /\ v.old_itempos = u.old_itempos
      /\ v.feed_kept = u.feed_kept /\ v.zero_feedpos = u.zero_feedpos /\ v.item_kept = u.item_kept
  BY <1>2 DEF IsUi, Fields
<1> HIDE DEF v
<1>5. /\ seq \in Seq(Existing) /\ (~v.item_filter => seq = ArticlesOf(f))
      /\ ur \subseteq Existing /\ HasUnread(f, ur) => \E k \in 1 .. Len(seq) : seq[k] \in ur
  BY VisibleItemsTyped
<1> HIDE DEF seq
<1>6. IsUi(w) /\ w.items = seq
  BY <1>3 DEF IsUi, Fields
<1>7. /\ w.screen = u.screen /\ w.article = u.article /\ w.replaced = u.replaced
      /\ w.show_items = u.show_items /\ w.beyond = u.beyond
      /\ w.feeds = u.feeds /\ w.feedpos = u.feedpos /\ w.named = u.named /\ w.old_itempos = u.old_itempos
      /\ w.feed_kept = u.feed_kept /\ w.zero_feedpos = u.zero_feedpos /\ w.item_kept = u.item_kept
      /\ w.feed = f /\ w.itempos = 0 /\ w.item_filter = (~u.show_items)
  BY <1>3, <1>4 DEF IsUi, Fields
<1> HIDE DEF w
<1>8. Typed(w)
  BY <1>5, <1>6, <1>7 DEF Typed, Loose
<1>9. i = NoPos \/ i \in Nat
  <2>1. i = FindItem("next unread", w, ur, TRUE)
    BY DEF FindItem
  <2>. QED
    BY <1>8, <2>1, FoundItem DEF Ways
<1> HIDE DEF i
<1>10. /\ IsUi(e) /\ e.itempos \in Nat /\ e.items = seq
       /\ e.screen = u.screen /\ e.article = u.article /\ e.replaced = u.replaced
       /\ e.show_items = u.show_items /\ e.beyond = u.beyond
       /\ e.feeds = u.feeds /\ e.feedpos = u.feedpos /\ e.named = u.named /\ e.old_itempos = u.old_itempos
       /\ e.feed_kept = u.feed_kept /\ e.zero_feedpos = u.zero_feedpos /\ e.item_kept = u.item_kept
       /\ e.feed = f /\ e.item_filter = (~u.show_items)
  <2>1. CASE cfg.first_unread /\ i # NoPos
    <3>1. e = [w EXCEPT !.itempos = i] /\ i \in Nat
      BY <1>1, <1>9, <2>1
    <3> HIDE DEF e
    <3>2. IsUi(e) /\ e.itempos = i
      BY <1>6, <3>1 DEF IsUi, Fields
    <3>3. \A x \in Fields : x # "itempos" => e[x] = w[x]
      BY <1>6, <3>1 DEF IsUi
    <3>. QED
      BY <1>6, <1>7, <3>1, <3>2, <3>3 DEF Fields
  <2>2. CASE ~(cfg.first_unread /\ i # NoPos)
    <3>1. e = w
      BY <1>1, <2>2
    <3>. QED
      BY <1>6, <1>7, <3>1
  <2>. QED
    BY <2>1, <2>2
<1> HIDE DEF e
<1>11. Typed(e)
  BY <1>5, <1>10 DEF Typed, Loose
<1>12. FeedsAtRest(e) /\ ItemsAtRest(e)
  <2>1. v.item_filter = e.item_filter
    BY <1>3, <1>10
  <2>2. ~e.item_filter => e.items = ArticlesOf(e.feed)
    BY <1>5, <1>10, <2>1
  <2>3. e.show_items => ~e.item_filter
    BY <1>10
  <2>. QED
    BY <1>10, <2>2, <2>3 DEF FeedsAtRest, ItemsAtRest
<1>13. ASSUME ur \subseteq Existing, HasUnread(f, ur)
       PROVE  ItemHits(e, ur) # {}
  <2>1. PICK k \in 1 .. Len(seq) : seq[k] \in ur
    BY <1>5, <1>13
  <2>2. Len(seq) \in Nat
    BY <1>5
  <2>3. k - 1 \in 0 .. Len(seq) - 1 /\ (k - 1) + 1 = k
    BY <2>2
  <2>. QED
    BY <1>10, <2>1, <2>3 DEF ItemHits
<1>14. Settled(e) /\ SameForm(u, e) /\ e.beyond = u.beyond
  BY <1>10, <1>11, <1>12 DEF Settled, SameForm
<1>. QED
  BY <1>13, <1>14 DEF e

LEMMA BeyondIsUi ==
  ASSUME NEW u, Typed(u)
  PROVE  Typed(Beyond(u)) /\ Beyond(u).beyond = TRUE /\ Beyond(u).screen = u.screen
         /\ SameForm(u, Beyond(u))
<1> DEFINE v == Beyond(u)
<1>1. IsUi(u)
  BY DEF Typed, Loose
<1>2. v = [u EXCEPT !.beyond = TRUE]
  BY DEF Beyond
<1> HIDE DEF v
<1>3. /\ IsUi(v) /\ v.beyond = TRUE /\ v.screen = u.screen
      /\ v.article = u.article /\ v.replaced = u.replaced /\ v.show_items = u.show_items
      /\ v.feeds = u.feeds /\ v.feedpos = u.feedpos /\ v.named = u.named /\ v.old_itempos = u.old_itempos
      /\ v.items = u.items /\ v.itempos = u.itempos /\ v.feed = u.feed
  BY <1>1, <1>2 DEF IsUi, Fields
<1>4. Typed(v)
  BY <1>3 DEF Typed, Loose
<1>. QED
  BY <1>3, <1>4 DEF SameForm, v

LEMMA EnteredFromLine ==
  ASSUME CountsInv, NEW u, Settled(u), ~u.beyond, NEW i \in 0 .. Len(u.feeds) - 1, NEW ur
  PROVE  LET v == Entered([u EXCEPT !.feedpos = i], u.feeds[i + 1], ur) IN
         /\ Settled(v) /\ SameForm(u, v) /\ ~v.beyond
         /\ ur \subseteq Existing /\ i \in FeedHits(u, ur) => ItemHits(v, ur) # {}
<1> DEFINE w == [u EXCEPT !.feedpos = i]
           f == u.feeds[i + 1]
           v == Entered(w, f, ur)
<1>1. Typed(u) /\ IsUi(u) /\ u.screen # "feeds" /\ FeedsAtRest(u) /\ u.item_kept = NoPos
  BY DEF Settled, Typed, Loose, ItemsAtRest
<1>2. f \in Feeds /\ i \in Nat
  <2>1. u.feeds \in Seq(Feeds) /\ Len(u.feeds) \in Nat
    BY <1>1 DEF Typed, Loose
  <2>2. i + 1 \in 1 .. Len(u.feeds) /\ i \in Nat
    BY <2>1
  <2>. QED
    BY <2>1, <2>2
<1>3. /\ IsUi(w) /\ w.feedpos = i /\ w.beyond = u.beyond /\ w.screen = u.screen
      /\ w.article = u.article /\ w.replaced = u.replaced /\ w.show_items = u.show_items
      /\ w.feeds = u.feeds /\ w.named = u.named /\ w.old_itempos = u.old_itempos /\ w.feed_kept = u.feed_kept
      /\ w.zero_feedpos = u.zero_feedpos /\ w.item_kept = u.item_kept
      /\ w.items = u.items /\ w.itempos = u.itempos /\ w.feed = u.feed
  BY <1>1 DEF IsUi, Fields
<1>6. i \in FeedHits(u, ur) => HasUnread(f, ur)
  BY DEF FeedHits
<1> HIDE DEF w, f
<1>4. Typed(w) /\ w.screen # "feeds" /\ FeedsAtRest(w) /\ w.item_kept = NoPos
  BY <1>1, <1>2, <1>3 DEF Typed, Loose, FeedsAtRest
<1>5. /\ Settled(v) /\ SameForm(w, v) /\ v.beyond = w.beyond
      /\ ur \subseteq Existing /\ HasUnread(f, ur) => ItemHits(v, ur) # {}
  <2>1. Loose(w) /\ w.screen \in {"items", "article"}
    BY <1>4 DEF Typed
  <2> HIDE DEF v
  <2>. QED
    BY <1>2, <1>4, <2>1, EnteredSettled DEF v
<1> HIDE DEF v
<1>7. SameForm(u, v) /\ ~v.beyond
  BY <1>3, <1>5 DEF SameForm
<1>. QED
  BY <1>5, <1>6, <1>7 DEF v, w, f

LEMMA GotoFeedSettled ==
  ASSUME CountsInv, NEW u, Settled(u), ~u.beyond, NEW ur, NEW way \in Ways
  PROVE  Settled(GotoFeed(u, ur, way)) /\ SameForm(u, GotoFeed(u, ur, way))
<1> DEFINE hit == FindFeed(way, u, ur)
           v == GotoFeed(u, ur, way)
<1>1. v = IF hit.beyond THEN Beyond(u)
          ELSE IF hit.to = NoPos THEN u
          ELSE Entered([u EXCEPT !.feedpos = hit.to], u.feeds[hit.to + 1], ur)
  BY DEF GotoFeed
<1>2. Typed(u) /\ u.screen # "feeds"
  BY DEF Settled
<1>3. ~hit.beyond /\ hit.to # NoPos => hit.to \in 0 .. Len(u.feeds) - 1
  BY <1>2, FoundFeed
<1> HIDE DEF v, hit
<1>4. CASE hit.beyond
  <2>1. v = Beyond(u)
    BY <1>1, <1>4
  <2>2. Typed(v) /\ v.beyond = TRUE /\ v.screen = u.screen /\ SameForm(u, v)
    BY <1>2, <2>1, BeyondIsUi
  <2>. QED
    BY <1>2, <2>2 DEF Settled, v
<1>5. CASE ~hit.beyond /\ hit.to = NoPos
  BY <1>1, <1>5 DEF SameForm, v
<1>6. CASE ~hit.beyond /\ hit.to # NoPos
  <2>1. hit.to \in 0 .. Len(u.feeds) - 1
    BY <1>3, <1>6
  <2>2. v = Entered([u EXCEPT !.feedpos = hit.to], u.feeds[hit.to + 1], ur)
    BY <1>1, <1>6
  <2>. QED
    BY <2>1, <2>2, EnteredFromLine DEF v
<1>. QED
  BY <1>4, <1>5, <1>6

\* Putting the cursor of the article list somewhere.
LEMMA Moved ==
  ASSUME NEW u, Settled(u), NEW i \in Nat
  PROVE  LET v == [u EXCEPT !.itempos = i] IN
         Settled(v) /\ SameForm(u, v) /\ v.beyond = u.beyond /\ v.itempos = i /\ v.items = u.items
<1> DEFINE v == [u EXCEPT !.itempos = i]
<1>1. Typed(u) /\ IsUi(u)
  BY DEF Settled, Typed, Loose
<1>2. /\ IsUi(v) /\ v.beyond = u.beyond /\ v.screen = u.screen
      /\ v.article = u.article /\ v.replaced = u.replaced /\ v.show_items = u.show_items
      /\ v.feeds = u.feeds /\ v.feedpos = u.feedpos /\ v.named = u.named /\ v.old_itempos = u.old_itempos
      /\ v.items = u.items /\ v.itempos = i /\ v.feed = u.feed
      /\ v.feed_kept = u.feed_kept /\ v.zero_feedpos = u.zero_feedpos /\ v.item_kept = u.item_kept
      /\ v.item_filter = u.item_filter
  BY <1>1 DEF IsUi, Fields
<1> HIDE DEF v
<1>3. Typed(v)
  BY <1>1, <1>2 DEF Typed, Loose
<1>4. Settled(v)
  <2>1. u.screen # "feeds" /\ (~u.beyond => FeedsAtRest(u) /\ ItemsAtRest(u))
    BY DEF Settled
  <2>. QED
    BY <1>2, <1>3, <2>1 DEF Settled, FeedsAtRest, ItemsAtRest
<1>. QED
  BY <1>2, <1>4 DEF SameForm, v

LEMMA GotoSettled ==
  ASSUME CountsInv, NEW u, Settled(u), ~u.beyond, NEW ur, NEW way \in Ways
  PROVE  LET r == Goto(u, ur, way) IN
         /\ Settled(r.ui) /\ SameForm(u, r.ui)
         /\ way = "next unread" /\ cfg.next_feed /\ ur \subseteq Existing /\ FeedHits(u, ur) # {} =>
              r.found /\ ~r.ui.beyond /\ r.ui.itempos \in ItemHits(r.ui, ur)
<1> DEFINE i == FindItem(way, u, ur, FALSE)
           hit == FindFeed(way, u, ur)
           v == GotoFeed(u, ur, way)
           k == FindItem(way, v, ur, TRUE)
           r == Goto(u, ur, way)
           Claim == /\ Settled(r.ui) /\ SameForm(u, r.ui)
                    /\ way = "next unread" /\ cfg.next_feed /\ ur \subseteq Existing /\ FeedHits(u, ur) # {} =>
                         r.found /\ ~r.ui.beyond /\ r.ui.itempos \in ItemHits(r.ui, ur)
<1>1. r = IF i # NoPos THEN [found |-> TRUE, ui |-> [u EXCEPT !.itempos = i]]
          ELSE IF ~cfg.next_feed THEN [found |-> FALSE, ui |-> u]
          ELSE IF hit.beyond \/ hit.to = NoPos THEN [found |-> FALSE, ui |-> v]
          ELSE [found |-> k # NoPos, ui |-> IF k = NoPos THEN v ELSE [v EXCEPT !.itempos = k]]
  BY DEF Goto
<1>2. Typed(u)
  BY DEF Settled
<1>3. /\ i = NoPos \/ i \in Nat
      /\ way = "next unread" => (i = NoPos \/ i \in ItemHits(u, ur)) /\ (ItemHits(u, ur) # {} => i \in ItemHits(u, ur))
  BY <1>2, FoundItem
<1>4. /\ ~hit.beyond /\ hit.to # NoPos => hit.to \in 0 .. Len(u.feeds) - 1
      /\ way = "next unread" /\ FeedHits(u, ur) # {} => ~hit.beyond /\ hit.to \in FeedHits(u, ur)
  BY <1>2, FoundFeed
<1>5. Settled(v) /\ SameForm(u, v)
  BY GotoFeedSettled
<1>6. Typed(v)
  BY <1>5 DEF Settled
<1>7. v = IF hit.beyond THEN Beyond(u)
          ELSE IF hit.to = NoPos THEN u
          ELSE Entered([u EXCEPT !.feedpos = hit.to], u.feeds[hit.to + 1], ur)
  BY DEF GotoFeed
<1> HIDE DEF v
<1>8. /\ k = NoPos \/ k \in Nat
      /\ way = "next unread" => (k = NoPos \/ k \in ItemHits(v, ur)) /\ (ItemHits(v, ur) # {} => k \in ItemHits(v, ur))
  BY <1>6, FoundItem
<1> HIDE DEF i, hit, k, r
<1> SUFFICES Claim
  BY DEF r
<1>9. CASE i # NoPos
  <2> DEFINE w == [u EXCEPT !.itempos = i]
  <2>1. i \in Nat
    BY <1>3, <1>9
  <2>2. Settled(w) /\ SameForm(u, w) /\ w.beyond = u.beyond /\ w.itempos = i /\ w.items = u.items
    BY <2>1, Moved
  <2>3. r = [found |-> TRUE, ui |-> w]
    BY <1>1, <1>9
  <2> HIDE DEF w
  <2>4. r.found = TRUE /\ r.ui = w
    BY <2>3
  <2>5. ASSUME way = "next unread"
        PROVE  i \in ItemHits(w, ur)
    <3>1. i \in ItemHits(u, ur)
      BY <1>3, <1>9, <2>5
    <3>. QED
      BY <2>2, <3>1 DEF ItemHits
  <2>. QED
    BY <2>2, <2>4, <2>5
<1>10. CASE i = NoPos /\ ~cfg.next_feed
  <2>1. r = [found |-> FALSE, ui |-> u]
    BY <1>1, <1>10
  <2>2. r.ui = u
    BY <2>1
  <2>. QED
    BY <1>10, <2>2 DEF SameForm
<1>11. CASE i = NoPos /\ cfg.next_feed /\ (hit.beyond \/ hit.to = NoPos)
  <2>1. r = [found |-> FALSE, ui |-> v]
    BY <1>1, <1>11
  <2>2. r.ui = v
    BY <2>1
  <2>3. way = "next unread" => FeedHits(u, ur) = {}
    <3>1. FeedHits(u, ur) \in SUBSET (0 .. Len(u.feeds) - 1) /\ Len(u.feeds) \in Nat
      BY <1>2, HitsAreLines
    <3>2. \A x \in 0 .. Len(u.feeds) - 1 : x # NoPos
      BY <3>1 DEF NoPos
    <3>. QED
      BY <1>4, <1>11, <3>1, <3>2
  <2>. QED
    BY <1>5, <2>2, <2>3
<1>12. CASE i = NoPos /\ cfg.next_feed /\ ~hit.beyond /\ hit.to # NoPos
  <2>1. r = [found |-> k # NoPos, ui |-> IF k = NoPos THEN v ELSE [v EXCEPT !.itempos = k]]
    BY <1>1, <1>12
  <2>2. hit.to \in 0 .. Len(u.feeds) - 1
    BY <1>4, <1>12
  <2>3. v = Entered([u EXCEPT !.feedpos = hit.to], u.feeds[hit.to + 1], ur)
    BY <1>7, <1>12
  <2>4. ~v.beyond /\ (ur \subseteq Existing /\ hit.to \in FeedHits(u, ur) => ItemHits(v, ur) # {})
    BY <2>2, <2>3, EnteredFromLine
  <2>5. CASE k = NoPos
    <3>1. r.ui = v
      BY <2>1, <2>5
    <3>2. ItemHits(v, ur) \in SUBSET (0 .. Len(v.items) - 1) /\ Len(v.items) \in Nat
      BY <1>6, HitsAreLines
    <3>3. \A x \in 0 .. Len(v.items) - 1 : x # NoPos
      BY <3>2 DEF NoPos
    <3>4. way = "next unread" => ItemHits(v, ur) = {}
      BY <1>8, <2>5, <3>2, <3>3
    <3>. QED
      BY <1>4, <1>5, <2>4, <3>1, <3>4
  <2>6. CASE k # NoPos
    <3> DEFINE w == [v EXCEPT !.itempos = k]
    <3>1. k \in Nat
      BY <1>8, <2>6
    <3>2. Settled(w) /\ SameForm(v, w) /\ w.beyond = v.beyond /\ w.itempos = k /\ w.items = v.items
      BY <1>5, <3>1, Moved
    <3>3. r = [found |-> TRUE, ui |-> w]
      BY <2>1, <2>6
    <3> HIDE DEF w
    <3>4. r.found = TRUE /\ r.ui = w
      BY <3>3
    <3>5. SameForm(u, w)
      BY <1>5, <3>2 DEF SameForm
    <3>6. way = "next unread" => k \in ItemHits(w, ur)
      BY <1>8, <2>6, <3>2 DEF ItemHits
    <3>. QED
      BY <2>4, <3>2, <3>4, <3>5, <3>6
  <2>. QED
    BY <2>5, <2>6
<1>. QED
  BY <1>9, <1>10, <1>11, <1>12

LEMMA OpenedReady ==
  ASSUME NEW u, Settled(u), ~u.beyond, NEW ur
  PROVE  LET v == Opened(u) IN
         /\ Typed(v) /\ Ready(v, ur) /\ v.screen # "feeds"
         /\ u.itempos \in ItemHits(u, ur) => ~v.beyond /\ v.screen = "article" /\ v.article \in ur
<1> DEFINE v == Opened(u)
<1>1. /\ Typed(u) /\ IsUi(u) /\ u.screen # "feeds" /\ FeedsAtRest(u) /\ ItemsAtRest(u)
      /\ u.items \in Seq(Existing) /\ u.itempos \in Nat /\ Len(u.items) \in Nat
  BY DEF Settled, Typed, Loose
<1>2. v = IF u.itempos < Len(u.items)
          THEN [u EXCEPT !.screen = "article", !.article = u.items[u.itempos + 1], !.replaced = FALSE] ELSE Beyond(u)
  BY DEF Opened
<1> HIDE DEF v
<1> SUFFICES /\ Typed(v) /\ Ready(v, ur) /\ v.screen # "feeds"
             /\ u.itempos \in ItemHits(u, ur) => ~v.beyond /\ v.screen = "article" /\ v.article \in ur
  BY DEF v
<1>3. CASE u.itempos < Len(u.items)
  <2> DEFINE a == u.items[u.itempos + 1]
  <2>1. u.itempos + 1 \in 1 .. Len(u.items)
    BY <1>1, <1>3
  <2>2. a \in Existing
    BY <1>1, <2>1
  <2>3. v = [u EXCEPT !.screen = "article", !.article = a, !.replaced = FALSE]
    BY <1>2, <1>3
  <2>7. a = u.items[u.itempos + 1]
    OBVIOUS
  <2> HIDE DEF a
  <2>4. /\ IsUi(v) /\ v.beyond = u.beyond /\ v.screen = "article" /\ v.article = a
        /\ v.show_items = u.show_items
        /\ v.feeds = u.feeds /\ v.feedpos = u.feedpos /\ v.named = u.named /\ v.old_itempos = u.old_itempos
        /\ v.items = u.items /\ v.itempos = u.itempos /\ v.feed = u.feed
        /\ v.feed_kept = u.feed_kept /\ v.zero_feedpos = u.zero_feedpos /\ v.item_kept = u.item_kept
        /\ v.item_filter = u.item_filter
    BY <1>1, <2>3 DEF IsUi, Fields
  <2>5. Typed(v)
    BY <1>1, <2>4 DEF Typed, Loose
  <2>6. Ready(v, ur)
    <3>1. FeedsAtRest(v) /\ ItemsAtRest(v)
      BY <1>1, <2>4 DEF FeedsAtRest, ItemsAtRest
    <3>2. v.itempos < Len(v.items) /\ v.items[v.itempos + 1] = v.article /\ v.article \in Existing
      BY <1>3, <2>2, <2>4, <2>7
    <3>. QED
      BY <2>4, <3>1, <3>2 DEF Ready, AtRest
  <2>8. u.itempos \in ItemHits(u, ur) => a \in ur
    BY <2>7 DEF ItemHits
  <2>. QED
    BY <2>4, <2>5, <2>6, <2>8
<1>4. CASE ~(u.itempos < Len(u.items))
  <2>1. v = Beyond(u)
    BY <1>2, <1>4
  <2>2. Typed(v) /\ v.beyond = TRUE /\ v.screen = u.screen
    BY <1>1, <2>1, BeyondIsUi
  <2>3. u.itempos \notin ItemHits(u, ur)
    <3>1. \A i \in 0 .. Len(u.items) - 1 : i < Len(u.items)
      BY <1>1
    <3>. QED
      BY <1>4, <3>1 DEF ItemHits
  <2>. QED
    BY <1>1, <2>2, <2>3 DEF Ready
<1>. QED
  BY <1>3, <1>4

LEMMA ClosedReady ==
  ASSUME NEW u, Settled(u), ~u.beyond, NEW ur
  PROVE  LET v == Closed(u) IN
         /\ Typed(v) /\ Ready(v, ur) /\ v.screen = "items" /\ v.stale = TRUE /\ ~v.beyond /\ v.feed = u.feed
         /\ v.item_kept = NoPos
         /\ u.show_items => v.itempos = u.itempos /\ ~v.item_filter
<1> DEFINE filter == ~u.show_items
           r == Redrawn(u)
           back == u.old_itempos # NoPos /\ u.itempos > u.old_itempos /\ ~u.show_items
           i == IF back THEN u.old_itempos ELSE u.itempos
           o == IF back THEN NoPos ELSE u.old_itempos
           v == Closed(u)
<1>1. /\ Typed(u) /\ IsUi(u) /\ u.screen # "feeds" /\ FeedsAtRest(u) /\ ItemsAtRest(u)
      /\ u.itempos \in Nat /\ u.old_itempos \in Nat \cup {NoPos}
  BY DEF Settled, Typed, Loose
<1>0. r = [u EXCEPT !.stale = TRUE, !.item_filter = filter] /\ (u.show_items => ~filter)
  BY DEF Redrawn
<1>2. v = [r EXCEPT !.screen = "items", !.article = NoArticle, !.replaced = FALSE,
                    !.itempos = i, !.old_itempos = o]
  <2>1. v = [r EXCEPT !.screen = "items", !.article = NoArticle, !.replaced = FALSE,
                      !.itempos = IF back THEN u.old_itempos ELSE @,
                      !.old_itempos = IF back THEN NoPos ELSE @]
    BY DEF Closed
  <2>2. IsUi(r) /\ r.itempos = u.itempos /\ r.old_itempos = u.old_itempos
    <3> HIDE DEF r, filter
    <3>. QED
      BY <1>0, <1>1 DEF IsUi, Fields
  <2> HIDE DEF v, back, r
  <2>. QED
    BY <1>1, <2>1, <2>2 DEF IsUi, Fields
<1>3. i \in Nat /\ o \in Nat \cup {NoPos} /\ (u.show_items => i = u.itempos)
  BY <1>1
<1> HIDE DEF v, i, o, r, filter
<1> SUFFICES /\ Typed(v) /\ Ready(v, ur) /\ v.screen = "items" /\ v.stale = TRUE /\ ~v.beyond /\ v.feed = u.feed
             /\ v.item_kept = NoPos
             /\ u.show_items => v.itempos = u.itempos /\ ~v.item_filter
  BY DEF v
<1>8. /\ IsUi(r) /\ r.beyond = u.beyond /\ r.stale = TRUE /\ r.show_items = u.show_items
      /\ r.feeds = u.feeds /\ r.feedpos = u.feedpos /\ r.named = u.named /\ r.items = u.items /\ r.feed = u.feed
      /\ r.feed_kept = u.feed_kept /\ r.zero_feedpos = u.zero_feedpos /\ r.item_kept = u.item_kept
      /\ r.item_filter = filter
  BY <1>0, <1>1 DEF IsUi, Fields
<1>4. /\ IsUi(v) /\ v.beyond = u.beyond /\ v.screen = "items" /\ v.stale = TRUE
      /\ v.show_items = u.show_items
      /\ v.feeds = u.feeds /\ v.feedpos = u.feedpos /\ v.named = u.named /\ v.old_itempos = o
      /\ v.items = u.items /\ v.itempos = i /\ v.feed = u.feed
      /\ v.feed_kept = u.feed_kept /\ v.zero_feedpos = u.zero_feedpos /\ v.item_kept = u.item_kept
      /\ v.item_filter = filter
  BY <1>2, <1>8 DEF IsUi, Fields
<1>5. Typed(v)
  BY <1>1, <1>3, <1>4 DEF Typed, Loose
<1>6. FeedsAtRest(v) /\ (v.show_items => ~v.item_filter) /\ v.item_kept = NoPos
  BY <1>0, <1>1, <1>4 DEF FeedsAtRest, ItemsAtRest
<1>7. Ready(v, ur)
  BY <1>4, <1>6 DEF Ready
<1>. QED
  BY <1>3, <1>4, <1>5, <1>6, <1>7

-----------------------------------------------------------------------------
(* The drawing.                                                              *)
LEMMA PositionIsLine ==
  ASSUME NEW E, NEW seq \in Seq(E), NEW x
  PROVE  LET i == PositionOf(x, seq) IN
         /\ i = NoPos \/ i \in Nat
         /\ (\E k \in 1 .. Len(seq) : seq[k] = x) => i \in 0 .. Len(seq) - 1 /\ seq[i + 1] = x
         /\ i # NoPos => i \in 0 .. Len(seq) - 1 /\ seq[i + 1] = x
<1> DEFINE n == Len(seq)
           H == {i \in 0 .. n - 1 : seq[i + 1] = x}
<1>1. n \in Nat
  OBVIOUS
<1>2. PositionOf(x, seq) = FirstOf(H)
  BY DEF PositionOf
<1>3. \A i \in 0 .. n - 1 : i \in Nat
  BY <1>1
<1>4. H \in SUBSET Nat
  BY <1>3
<1>5. ASSUME NEW k \in 1 .. n, seq[k] = x
      PROVE  H # {}
  <2>1. k - 1 \in 0 .. n - 1 /\ (k - 1) + 1 = k
    BY <1>1
  <2>. QED
    BY <1>5, <2>1
<1>6. (FirstOf(H) = NoPos \/ FirstOf(H) \in H) /\ (H # {} => FirstOf(H) \in H)
  <2> HIDE DEF H
  <2>. QED
    BY <1>4, FirstOfHits
<1>. QED
  BY <1>2, <1>3, <1>5, <1>6

LEMMA OnListIsLine ==
  ASSUME NEW E, NEW seq \in Seq(E), NEW pos \in Nat
  PROVE  /\ OnList(pos, seq) \in Nat
         /\ seq # <<>> => OnList(pos, seq) + 1 \in 1 .. Len(seq)
         /\ pos < Len(seq) => OnList(pos, seq) = pos
<1>1. Len(seq) \in Nat /\ (seq # <<>> => Len(seq) > 0)
  OBVIOUS
<1>2. OnList(pos, seq) = IF seq # <<>> /\ pos >= Len(seq) THEN Len(seq) - 1 ELSE pos
  BY DEF OnList
<1>. QED
  BY <1>1, <1>2

LEMMA VisibleFeedsTyped ==
  ASSUME NEW u, NEW ur
  PROVE  VisibleFeeds(u, ur) \in Seq(Feeds)
<1> DEFINE S == {f \in Feeds : (u.tag = "" \/ TagOf[f] = u.tag) /\ (u.feed_filter => HasUnread(f, ur))}
           all == [f \in Feeds |-> f]
<1>1. VisibleFeeds(u, ur) = Filtered(all, S)
  BY DEF VisibleFeeds
<1>2. all \in Seq(Feeds)
  BY FeedsAreNumbers
<1> HIDE DEF all, S
<1>3. Filtered(all, S) \in Seq(Feeds \cap S)
  BY <1>2, FilteredElements
<1>. QED
  BY <1>1, <1>3

LEMMA PlacedTyped ==
  ASSUME NEW u, Typed(u), NEW ur
  PROVE  LET v == Placed([u EXCEPT !.redraw = FALSE, !.feeds = VisibleFeeds(u, ur)]) IN
         /\ Typed(v) /\ v.feeds = VisibleFeeds(u, ur) /\ v.screen = u.screen /\ v.beyond = u.beyond
         /\ v.tag = u.tag /\ v.feed_filter = u.feed_filter
         /\ u.feed_kept = NoFeed \/ ~u.zero_feedpos => FeedsAtRest(v)
         /\ FeedsAtRest(u) => v.feedpos = u.feedpos
<1> DEFINE fs == VisibleFeeds(u, ur)
           w == [u EXCEPT !.redraw = FALSE, !.feeds = fs]
           i == PositionOf(w.feed_kept, w.feeds)
           p == CASE w.feed_kept # NoFeed -> (IF i = NoPos THEN 0 ELSE i)
                  [] w.feed_kept = NoFeed /\ w.zero_feedpos -> 0
                  [] OTHER -> w.feedpos
           z == w.zero_feedpos /\ w.feed_kept # NoFeed
           v == Placed(w)
<1>1. IsUi(u)
  BY DEF Typed, Loose
<1>2. fs \in Seq(Feeds)
  BY VisibleFeedsTyped
<1> HIDE DEF fs
<1>3. /\ IsUi(w) /\ w.feeds = fs /\ w.beyond = u.beyond /\ w.screen = u.screen
      /\ w.tag = u.tag /\ w.feed_filter = u.feed_filter /\ w.feedpos = u.feedpos
      /\ w.named = u.named /\ w.old_itempos = u.old_itempos
      /\ w.items = u.items /\ w.itempos = u.itempos /\ w.feed = u.feed
      /\ w.feed_kept = u.feed_kept /\ w.zero_feedpos = u.zero_feedpos
  BY <1>1 DEF IsUi, Fields
<1> HIDE DEF w
<1>4. v = [w EXCEPT !.feed_kept = NoFeed, !.zero_feedpos = z, !.feedpos = p]
  <2>1. v = [w EXCEPT !.feed_kept = NoFeed, !.zero_feedpos = @ /\ w.feed_kept # NoFeed,
                      !.feedpos = CASE w.feed_kept # NoFeed -> (IF i = NoPos THEN 0 ELSE i)
                                    [] w.feed_kept = NoFeed /\ w.zero_feedpos -> 0
                                    [] OTHER -> @]
    BY DEF Placed
  <2>2. [w EXCEPT !.feed_kept = NoFeed].zero_feedpos = w.zero_feedpos
        /\ [w EXCEPT !.feed_kept = NoFeed, !.zero_feedpos = z].feedpos = w.feedpos
    <3> HIDE DEF z
    <3>. QED
      BY <1>3 DEF IsUi, Fields
  <2>. QED
    BY <2>1, <2>2, Zenon
<1>5. i = NoPos \/ i \in Nat
  BY <1>2, <1>3, PositionIsLine
<1>6. p \in Nat
  <2>1. u.feedpos \in Nat
    BY DEF Typed, Loose
  <2>2. 0 \in Nat
    OBVIOUS
  <2> HIDE DEF i
  <2>3. p = IF w.feed_kept # NoFeed THEN (IF i = NoPos THEN 0 ELSE i) ELSE IF w.zero_feedpos THEN 0 ELSE w.feedpos
    BY Zenon
  <2> HIDE DEF p
  <2>. QED
    BY <1>3, <1>5, <2>1, <2>2, <2>3
<1>7. FeedsAtRest(u) => p = u.feedpos
  BY <1>3, Zenon DEF FeedsAtRest
<1>8. u.feed_kept = NoFeed \/ ~u.zero_feedpos => ~z
  BY <1>3
<1> HIDE DEF p, z, v, i
<1>9. /\ IsUi(v) /\ v.feeds = fs /\ v.beyond = u.beyond /\ v.screen = u.screen
      /\ v.tag = u.tag /\ v.feed_filter = u.feed_filter /\ v.feedpos = p
      /\ v.named = u.named /\ v.old_itempos = u.old_itempos
      /\ v.items = u.items /\ v.itempos = u.itempos /\ v.feed = u.feed
      /\ v.feed_kept = NoFeed /\ v.zero_feedpos = z
  BY <1>3, <1>4 DEF IsUi, Fields
<1>10. Typed(v)
  BY <1>2, <1>6, <1>9 DEF Typed, Loose
<1>11. u.feed_kept = NoFeed \/ ~u.zero_feedpos => FeedsAtRest(v)
  BY <1>8, <1>9 DEF FeedsAtRest
<1>. QED
  BY <1>7, <1>9, <1>10, <1>11 DEF v, w, fs

LEMMA ShownFeedsAtRest ==
  ASSUME NEW u, Typed(u), ~u.beyond, u.screen = "feeds", NEW ur, Ready(u, ur)
  PROVE  LET s == ShownFeeds(u, ur).ui IN
         /\ Typed(s) /\ FeedsAtRest(s) /\ s.screen = "feeds" /\ ~s.beyond
         /\ s.feeds = VisibleFeeds(s, ur) /\ s.feeds = VisibleFeeds(u, ur)
         /\ FeedsAtRest(u) /\ u.feedpos < Len(s.feeds) => s.named = s.feeds[u.feedpos + 1]
<1> DEFINE v == IF u.redraw THEN Placed([u EXCEPT !.redraw = FALSE, !.feeds = VisibleFeeds(u, ur)]) ELSE u
           p == OnList(v.feedpos, v.feeds)
           w == [v EXCEPT !.feedpos = p]
           n == IF w.feeds = <<>> THEN NoFeed ELSE w.feeds[w.feedpos + 1]
           s == ShownFeeds(u, ur).ui
<1>1. /\ Typed(v) /\ FeedsAtRest(v) /\ v.screen = "feeds" /\ v.beyond = u.beyond /\ v.feeds = VisibleFeeds(u, ur)
      /\ v.tag = u.tag /\ v.feed_filter = u.feed_filter
      /\ FeedsAtRest(u) => v.feedpos = u.feedpos
  <2>1. CASE u.redraw
    <3> DEFINE x == Placed([u EXCEPT !.redraw = FALSE, !.feeds = VisibleFeeds(u, ur)])
    <3>1. v = x
      BY <2>1
    <3>2. u.feed_kept = NoFeed \/ ~u.zero_feedpos
      BY <2>1 DEF Ready
    <3>3. /\ Typed(x) /\ x.feeds = VisibleFeeds(u, ur) /\ x.screen = u.screen /\ x.beyond = u.beyond
          /\ x.tag = u.tag /\ x.feed_filter = u.feed_filter
          /\ u.feed_kept = NoFeed \/ ~u.zero_feedpos => FeedsAtRest(x)
          /\ FeedsAtRest(u) => x.feedpos = u.feedpos
      BY PlacedTyped
    <3> HIDE DEF x
    <3>. QED
      BY <3>1, <3>2, <3>3
  <2>2. CASE ~u.redraw
    <3>1. v = u
      BY <2>2
    <3>2. FeedsAtRest(u) /\ Current(u, ur)
      BY <2>2 DEF Ready
    <3>. QED
      BY <3>1, <3>2 DEF Current
  <2>. QED
    BY <2>1, <2>2
<1>2. s = [w EXCEPT !.named = n]
  <2>1. ShownFeeds(u, ur) = [ui |-> [w EXCEPT !.named = n], unread |-> ur]
    BY DEF ShownFeeds
  <2> DEFINE x == [w EXCEPT !.named = n]
  <2> HIDE DEF x
  <2>. QED
    BY <2>1 DEF x
<1> HIDE DEF v
<1>3. IsUi(v) /\ v.feeds \in Seq(Feeds) /\ v.feedpos \in Nat
  BY <1>1 DEF Typed, Loose
<1>4. /\ p \in Nat /\ (v.feeds # <<>> => p + 1 \in 1 .. Len(v.feeds))
      /\ v.feedpos < Len(v.feeds) => p = v.feedpos
  BY <1>3, OnListIsLine
<1> HIDE DEF p
<1>5. /\ IsUi(w) /\ w.feeds = v.feeds /\ w.beyond = v.beyond /\ w.screen = v.screen
      /\ w.tag = v.tag /\ w.feed_filter = v.feed_filter /\ w.feedpos = p
      /\ w.named = v.named /\ w.old_itempos = v.old_itempos
      /\ w.items = v.items /\ w.itempos = v.itempos /\ w.feed = v.feed
      /\ w.feed_kept = v.feed_kept /\ w.zero_feedpos = v.zero_feedpos
  BY <1>3 DEF IsUi, Fields
<1>6. n = IF v.feeds = <<>> THEN NoFeed ELSE v.feeds[p + 1]
  <2> HIDE DEF w
  <2>. QED
    BY <1>5
<1> HIDE DEF w, n, s
<1>7. n \in Feeds \cup {NoFeed}
  BY <1>3, <1>4, <1>6
<1>8. /\ IsUi(s) /\ s.feeds = v.feeds /\ s.beyond = v.beyond /\ s.screen = v.screen
      /\ s.tag = v.tag /\ s.feed_filter = v.feed_filter /\ s.feedpos = p
      /\ s.named = n /\ s.old_itempos = v.old_itempos
      /\ s.items = v.items /\ s.itempos = v.itempos /\ s.feed = v.feed
      /\ s.feed_kept = v.feed_kept /\ s.zero_feedpos = v.zero_feedpos
  BY <1>2, <1>5 DEF IsUi, Fields
<1>9. Typed(s)
  BY <1>1, <1>4, <1>7, <1>8 DEF Typed, Loose
<1>10. FeedsAtRest(s)
  BY <1>1, <1>8 DEF FeedsAtRest
<1>11. VisibleFeeds(s, ur) = VisibleFeeds(u, ur)
  BY <1>1, <1>8 DEF VisibleFeeds
<1>12. ASSUME FeedsAtRest(u), u.feedpos < Len(s.feeds)
       PROVE  s.named = s.feeds[u.feedpos + 1]
  <2>1. p = u.feedpos
    BY <1>1, <1>4, <1>8, <1>12
  <2>2. v.feeds # <<>>
    <3>1. u.feedpos \in Nat /\ v.feeds \in Seq(Feeds) /\ u.feedpos < Len(v.feeds)
      BY <1>3, <1>8, <1>12 DEF Typed, Loose
    <3>. QED
      BY <3>1
  <2>. QED
    BY <1>6, <1>8, <2>1, <2>2
<1>. QED
  BY <1>1, <1>8, <1>9, <1>10, <1>11, <1>12 DEF s

LEMMA ShownItemsAtRest ==
  ASSUME CountsInv, NEW u, Typed(u), ~u.beyond, u.screen = "items", NEW ur, Ready(u, ur)
  PROVE  LET s == ShownItems(u, ur)
             x == IF u.stale THEN VisibleItems(u, ArticlesOf(u.feed), ur) ELSE u.items IN
         /\ Typed(s.ui) /\ AtRest(s.ui) /\ s.ui.screen = "items" /\ s.unread \subseteq ur
         /\ u.item_kept = NoPos /\ u.itempos < Len(x) => s.ui.itempos = u.itempos /\ s.ui.items = x
<1> DEFINE all == ArticlesOf(u.feed)
           seq == VisibleItems(u, all, ur)
           x == IF u.stale THEN seq ELSE u.items
           v == IF u.stale THEN [u EXCEPT !.items = seq] ELSE u
           hovered == IF cfg.hover THEN {v.items[v.itempos + 1]} ELSE {}
           i == PositionOf(all[u.item_kept + 1], v.items)
           kept == IF u.item_kept = NoPos THEN v.itempos ELSE IF i = NoPos THEN 0 ELSE i
           p == OnList(kept, v.items)
           w == [v EXCEPT !.stale = FALSE, !.item_kept = NoPos, !.itempos = p]
           s == ShownItems(u, ur)
<1>1. s = IF cfg.hover /\ v.itempos >= Len(v.items) THEN [ui |-> Beyond(v), unread |-> ur]
          ELSE [ui |-> w, unread |-> ur \ hovered]
  BY DEF ShownItems
<1>2. /\ IsUi(u) /\ u.feed \in Feeds /\ u.items \in Seq(Existing) /\ u.itempos \in Nat
      /\ FeedsAtRest(u) /\ (u.show_items => ~u.item_filter) /\ (~u.stale => ItemsAtRest(u))
  BY DEF Typed, Loose, Ready
<1>3. seq \in Seq(Existing) /\ (~u.item_filter => seq = all)
  BY <1>2, VisibleItemsTyped
<1> HIDE DEF seq, all
<1>4. x \in Seq(Existing) /\ (~u.item_filter => x = all)
  BY <1>2, <1>3 DEF ItemsAtRest, all
<1>5. /\ IsUi(v) /\ v.feeds = u.feeds /\ v.beyond = u.beyond /\ v.screen = u.screen
      /\ v.feedpos = u.feedpos /\ v.named = u.named /\ v.old_itempos = u.old_itempos
      /\ v.items = x /\ v.itempos = u.itempos /\ v.feed = u.feed
      /\ v.feed_kept = u.feed_kept /\ v.zero_feedpos = u.zero_feedpos
      /\ v.item_filter = u.item_filter /\ v.show_items = u.show_items
  <2>1. CASE u.stale
    <3>1. v = [u EXCEPT !.items = seq] /\ x = seq
      BY <2>1
    <3> HIDE DEF v, x
    <3>. QED
      BY <1>2, <3>1 DEF IsUi, Fields
  <2>2. CASE ~u.stale
    <3>1. v = u /\ x = u.items
      BY <2>2
    <3> HIDE DEF v, x
    <3>. QED
      BY <1>2, <3>1
  <2>. QED
    BY <2>1, <2>2
<1> HIDE DEF v, x
<1>6. Typed(v)
  BY <1>4, <1>5 DEF Typed, Loose
<1>7. i = NoPos \/ i \in Nat
  BY <1>4, <1>5, PositionIsLine
<1> HIDE DEF i
<1>8. kept \in Nat /\ (u.item_kept = NoPos => kept = u.itempos)
  BY <1>2, <1>5, <1>7
<1> HIDE DEF kept
<1>9. p \in Nat /\ (kept < Len(v.items) => p = kept)
  BY <1>4, <1>5, <1>8, OnListIsLine
<1> HIDE DEF p, hovered
<1>10. /\ IsUi(w) /\ w.feeds = v.feeds /\ w.beyond = v.beyond /\ w.screen = v.screen
       /\ w.feedpos = v.feedpos /\ w.named = v.named /\ w.old_itempos = v.old_itempos
       /\ w.items = v.items /\ w.itempos = p /\ w.feed = v.feed
       /\ w.feed_kept = v.feed_kept /\ w.zero_feedpos = v.zero_feedpos
       /\ w.item_filter = v.item_filter /\ w.show_items = v.show_items /\ w.item_kept = NoPos
  BY <1>5 DEF IsUi, Fields
<1> HIDE DEF w, s
<1>11. Typed(w)
  BY <1>6, <1>9, <1>10 DEF Typed, Loose
<1>12. AtRest(w)
  <2>1. FeedsAtRest(w)
    BY <1>2, <1>5, <1>10 DEF FeedsAtRest
  <2>2. ItemsAtRest(w)
    BY <1>2, <1>4, <1>5, <1>10 DEF ItemsAtRest, all
  <2>. QED
    BY <1>5, <1>10, <2>1, <2>2 DEF AtRest
<1>13. CASE cfg.hover /\ v.itempos >= Len(v.items)
  <2>1. s = [ui |-> Beyond(v), unread |-> ur]
    BY <1>1, <1>13
  <2>2. s.ui = Beyond(v) /\ s.unread = ur
    BY <2>1
  <2>3. Typed(s.ui) /\ s.ui.beyond = TRUE /\ s.ui.screen = "items"
    BY <1>5, <1>6, <2>2, BeyondIsUi
  <2>4. ~(u.itempos < Len(x))
    <3>1. Len(x) \in Nat /\ u.itempos \in Nat /\ u.itempos >= Len(x)
      BY <1>2, <1>4, <1>5, <1>13
    <3>. QED
      BY <3>1
  <2>. QED
    BY <2>2, <2>3, <2>4 DEF AtRest, s, x, seq, all
<1>14. CASE ~(cfg.hover /\ v.itempos >= Len(v.items))
  <2>1. s = [ui |-> w, unread |-> ur \ hovered]
    BY <1>1, <1>14
  <2>2. s.ui = w /\ s.unread = ur \ hovered
    BY <2>1
  <2>3. u.item_kept = NoPos /\ u.itempos < Len(x) => w.itempos = u.itempos /\ w.items = x
    BY <1>5, <1>8, <1>9, <1>10
  <2>. QED
    BY <1>5, <1>10, <1>11, <1>12, <2>2, <2>3 DEF s, x, seq, all
<1>. QED
  BY <1>13, <1>14

LEMMA ShownAtRest ==
  ASSUME CountsInv, NEW u, Typed(u), NEW ur, ur \subseteq Existing, Ready(u, ur)
  PROVE  LET s == Shown(u, ur) IN
         /\ Typed(s.ui) /\ AtRest(s.ui) /\ s.unread \subseteq ur /\ s.ui.screen = u.screen
         /\ Current(s.ui, s.unread)
<1> DEFINE s == Shown(u, ur)
<1>1. CASE u.beyond \/ u.screen = "article"
  <2>1. u.beyond \/ (~u.beyond /\ u.screen = "article" /\ u.screen # "feeds" /\ u.screen # "items")
    BY <1>1
  <2>2. s = [ui |-> u, unread |-> ur]
    BY <2>1, Zenon DEF Shown
  <2>3. s.ui = u /\ s.unread = ur
    BY <2>2
  <2>4. AtRest(u)
    BY <1>1 DEF AtRest, Ready
  <2>5. Current(u, ur)
    BY <1>1 DEF Current
  <2>. QED
    BY <2>3, <2>4, <2>5 DEF s
<1>2. CASE ~u.beyond /\ u.screen = "feeds"
  <2> DEFINE v == ShownFeeds(u, ur).ui
  <2>1. u.screen # "items" /\ u.screen # "article"
    BY <1>2
  <2>2. s = ShownFeeds(u, ur)
    BY <1>2, <2>1, Zenon DEF Shown
  <2>3. s.unread = ur /\ s.ui = v
    BY <2>2 DEF ShownFeeds
  <2>4. Typed(v) /\ FeedsAtRest(v) /\ v.screen = "feeds" /\ ~v.beyond /\ v.feeds = VisibleFeeds(v, ur)
    BY <1>2, ShownFeedsAtRest
  <2> HIDE DEF v
  <2>5. AtRest(v) /\ Current(v, ur)
    BY <2>4 DEF AtRest, Current
  <2>. QED
    BY <1>2, <2>3, <2>4, <2>5 DEF s
<1>3. CASE ~u.beyond /\ u.screen = "items"
  <2> DEFINE v == ShownItems(u, ur)
  <2>1. u.screen # "feeds" /\ u.screen # "article"
    BY <1>3
  <2>2. s = v
    BY <1>3, <2>1, Zenon DEF Shown
  <2>3. Typed(v.ui) /\ AtRest(v.ui) /\ v.ui.screen = "items" /\ v.unread \subseteq ur
    BY <1>3, ShownItemsAtRest
  <2> HIDE DEF v
  <2>4. Current(v.ui, v.unread)
    BY <2>3 DEF Current
  <2>. QED
    BY <1>3, <2>2, <2>3, <2>4 DEF s
<1>. QED
  BY <1>1, <1>2, <1>3 DEF Typed, Loose

-----------------------------------------------------------------------------
(* The steps.                                                                *)
LEMMA ShowKeepsInv ==
  ASSUME CountsInv, NEW u, Typed(u), NEW ur, ur \subseteq Existing, Ready(u, ur), Show(u, ur)
  PROVE  ListsInv'
<1> DEFINE s == Shown(u, ur)
<1>1. /\ Typed(s.ui) /\ AtRest(s.ui) /\ s.unread \subseteq ur /\ s.ui.screen = u.screen
      /\ Current(s.ui, s.unread)
  BY ShownAtRest
<1>2. ui' = s.ui /\ unread' = s.unread /\ cfg' = cfg /\ count' = count
  BY DEF Show
<1> HIDE DEF s
<1>3. CountsInv'
  BY <1>2 DEF CountsInv
<1>4. Existing' = Existing
  BY <1>2 DEF Existing
<1>5. Typed(ui)'
  <2>1. Typed(s.ui)
    BY <1>1
  <2>. QED
    BY <1>2, <1>4, <2>1 DEF Typed, Loose
<1>6. AtRest(ui)'
  <2>1. AtRest(s.ui)
    BY <1>1
  <2>. QED
    BY <1>2, <1>4, <2>1 DEF AtRest, FeedsAtRest, ItemsAtRest, ArticlesOf
<1>7. unread' \subseteq Existing'
  BY <1>1, <1>2, <1>4
<1>8. FeedsAreCurrent'
  <2>1. Current(s.ui, s.unread)
    BY <1>1
  <2>. QED
    BY <1>2, <2>1 DEF FeedsAreCurrent, Current, On, VisibleFeeds
<1>. QED
  BY <1>3, <1>5, <1>6, <1>7, <1>8 DEF ListsInv

LEMMA WithoutExists ==
  ASSUME unread \subseteq Existing, NEW fs
  PROVE  Without(fs) \subseteq Existing
BY DEF Without

\* A key of the feed list, after which the list is filled and drawn again.
LEMMA FeedListReady ==
  ASSUME ListsInv, On("feeds"), NEW v, IsUi(v), NEW ur,
         v.screen = "feeds", v.feeds = ui.feeds, v.named = ui.named, v.items = ui.items,
         v.itempos = ui.itempos, v.old_itempos = ui.old_itempos, v.feedpos \in Nat, v.redraw = TRUE,
         v.feed_kept = NoFeed \/ ~v.zero_feedpos
  PROVE  Typed(v) /\ Ready(v, ur)
BY DEF ListsInv, Typed, Loose, Ready

LEMMA FeedListFacts ==
  ASSUME ListsInv, On("feeds")
  PROVE  /\ IsUi(ui) /\ Typed(ui) /\ Loose(ui) /\ ui.screen = "feeds" /\ ~ui.beyond /\ FeedsAtRest(ui)
         /\ ui.feedpos \in Nat /\ ui.feeds \in Seq(Feeds) /\ ui.named \in Feeds \cup {NoFeed}
         /\ CountsInv /\ unread \subseteq Existing
         /\ Current(ui, unread)
BY DEF ListsInv, On, AtRest, Typed, Loose, FeedsAreCurrent, Current

LEMMA OpenFeedKeeps == ListsInv /\ OpenFeed => ListsInv'
<1> SUFFICES ASSUME ListsInv, OpenFeed PROVE ListsInv'
  OBVIOUS
<1> DEFINE w == [ui EXCEPT !.screen = "items", !.old_itempos = NoPos, !.item_kept = NoPos]
           v == Entered(w, ui.named, unread)
<1>1. On("feeds") /\ ui.named # NoFeed /\ Show(v, unread)
  BY DEF OpenFeed
<1>2. /\ IsUi(ui) /\ Loose(ui) /\ ~ui.beyond /\ FeedsAtRest(ui)
      /\ ui.named \in Feeds /\ CountsInv /\ unread \subseteq Existing
  BY <1>1, FeedListFacts
<1>3. /\ IsUi(w) /\ w.screen = "items" /\ w.old_itempos = NoPos /\ w.item_kept = NoPos /\ w.beyond = ui.beyond
      /\ w.feeds = ui.feeds /\ w.named = ui.named /\ w.items = ui.items
      /\ w.itempos = ui.itempos /\ w.feedpos = ui.feedpos
      /\ w.feed_kept = ui.feed_kept /\ w.zero_feedpos = ui.zero_feedpos
  BY <1>2 DEF IsUi, Fields
<1> HIDE DEF w
<1>4. Loose(w) /\ FeedsAtRest(w)
  BY <1>2, <1>3 DEF Loose, FeedsAtRest
<1>5. Settled(v) /\ SameForm(w, v)
  <2>1. w.screen \in {"items", "article"} /\ w.screen # "feeds"
    BY <1>3
  <2> HIDE DEF v
  <2>. QED
    BY <1>2, <1>3, <1>4, <2>1, EnteredSettled DEF v
<1> HIDE DEF v
<1>6. Typed(v) /\ Ready(v, unread)
  BY <1>3, <1>5 DEF Settled, SameForm, Ready, ItemsAtRest
<1>. QED
  BY <1>1, <1>2, <1>6, ShowKeepsInv

LEMMA MarkFeedReadKeeps == ListsInv /\ MarkFeedRead => ListsInv'
<1> SUFFICES ASSUME ListsInv, MarkFeedRead PROVE ListsInv'
  OBVIOUS
<1> DEFINE p == IF Len(ui.feeds) > ui.named /\ ~ui.feed_filter THEN ui.named ELSE ui.feedpos
           v == [ui EXCEPT !.redraw = TRUE, !.feedpos = p]
<1>1. On("feeds")
  BY DEF MarkFeedRead
<1>2. IsUi(ui) /\ ui.screen = "feeds" /\ FeedsAtRest(ui) /\ ui.feedpos \in Nat /\ ui.named \in Feeds \cup {NoFeed}
      /\ CountsInv /\ unread \subseteq Existing
  BY <1>1, FeedListFacts
<1>3. Show(v, Without({ui.named}))
  <2>1. Show([ui EXCEPT !.redraw = TRUE,
                     !.feedpos = IF Len(ui.feeds) > ui.named /\ ~ui.feed_filter THEN ui.named ELSE @],
             Without({ui.named}))
    BY DEF MarkFeedRead
  <2>2. [ui EXCEPT !.redraw = TRUE].feedpos = ui.feedpos
    BY <1>2 DEF IsUi, Fields
  <2>. QED
    BY <2>1, <2>2, Zenon
<1>4. p \in Nat
  BY <1>2, FeedsAreNumbers DEF NoFeed
<1> HIDE DEF p
<1>5. /\ IsUi(v) /\ v.screen = "feeds" /\ v.feeds = ui.feeds /\ v.named = ui.named /\ v.items = ui.items
      /\ v.itempos = ui.itempos /\ v.old_itempos = ui.old_itempos /\ v.feedpos = p /\ v.redraw = TRUE
      /\ v.feed_kept = ui.feed_kept
  BY <1>2 DEF IsUi, Fields
<1> HIDE DEF v
<1>6. Typed(v) /\ Ready(v, Without({ui.named}))
  BY <1>1, <1>2, <1>4, <1>5, FeedListReady DEF FeedsAtRest
<1>. QED
  BY <1>2, <1>3, <1>6, WithoutExists, ShowKeepsInv

LEMMA MarkAllFeedsReadKeeps == ListsInv /\ MarkAllFeedsRead => ListsInv'
<1> SUFFICES ASSUME ListsInv, MarkAllFeedsRead PROVE ListsInv'
  OBVIOUS
<1> DEFINE v == [ui EXCEPT !.redraw = TRUE]
           fs == IF ui.tag = "" THEN Feeds ELSE Range(ui.feeds)
<1>1. On("feeds") /\ Show(v, Without(fs))
  BY DEF MarkAllFeedsRead
<1>2. IsUi(ui) /\ ui.screen = "feeds" /\ FeedsAtRest(ui) /\ ui.feedpos \in Nat /\ CountsInv /\ unread \subseteq Existing
  BY <1>1, FeedListFacts
<1>3. /\ IsUi(v) /\ v.screen = "feeds" /\ v.feeds = ui.feeds /\ v.named = ui.named /\ v.items = ui.items
      /\ v.itempos = ui.itempos /\ v.old_itempos = ui.old_itempos /\ v.feedpos = ui.feedpos /\ v.redraw = TRUE
      /\ v.feed_kept = ui.feed_kept
  BY <1>2 DEF IsUi, Fields
<1> HIDE DEF v, fs
<1>4. Typed(v) /\ Ready(v, Without(fs))
  BY <1>1, <1>2, <1>3, FeedListReady DEF FeedsAtRest
<1>. QED
  BY <1>1, <1>2, <1>4, WithoutExists, ShowKeepsInv

LEMMA ToggleShowReadFeedsKeeps == ListsInv /\ ToggleShowReadFeeds => ListsInv'
<1> SUFFICES ASSUME ListsInv, ToggleShowReadFeeds PROVE ListsInv'
  OBVIOUS
<1> DEFINE shown == ~ui.show_feeds
           filter == ui.show_feeds
           w == [ui EXCEPT !.show_feeds = shown, !.feed_filter = filter, !.redraw = TRUE]
           v == KeepFeed(w)
<1>1. On("feeds") /\ Show(v, unread)
  BY DEF ToggleShowReadFeeds
<1> HIDE DEF shown, filter
<1>2. IsUi(ui) /\ ui.screen = "feeds" /\ FeedsAtRest(ui) /\ ui.feedpos \in Nat /\ CountsInv /\ unread \subseteq Existing
  BY <1>1, FeedListFacts
<1>3. /\ IsUi(w) /\ w.screen = "feeds" /\ w.feeds = ui.feeds /\ w.named = ui.named /\ w.items = ui.items
      /\ w.itempos = ui.itempos /\ w.old_itempos = ui.old_itempos /\ w.feedpos = ui.feedpos /\ w.redraw = TRUE
      /\ w.zero_feedpos = ui.zero_feedpos
  BY <1>2 DEF IsUi, Fields
<1> HIDE DEF w
<1>4. v = w \/ v = [w EXCEPT !.feed_kept = w.feeds[w.feedpos + 1]]
  BY DEF KeepFeed
<1> HIDE DEF v
<1>5. /\ IsUi(v) /\ v.screen = "feeds" /\ v.feeds = ui.feeds /\ v.named = ui.named /\ v.items = ui.items
      /\ v.itempos = ui.itempos /\ v.old_itempos = ui.old_itempos /\ v.feedpos = ui.feedpos /\ v.redraw = TRUE
      /\ v.zero_feedpos = ui.zero_feedpos
  <2>1. CASE v = w
    BY <1>3, <2>1
  <2>2. CASE v = [w EXCEPT !.feed_kept = w.feeds[w.feedpos + 1]]
    BY <1>3, <2>2 DEF IsUi, Fields
  <2>. QED
    BY <1>4, <2>1, <2>2
<1>6. Typed(v) /\ Ready(v, unread)
  BY <1>1, <1>2, <1>5, FeedListReady DEF FeedsAtRest
<1>. QED
  BY <1>1, <1>2, <1>6, ShowKeepsInv

LEMMA TagKeeps == ListsInv /\ (SetTag \/ ClearTag) => ListsInv'
<1> SUFFICES ASSUME ListsInv, SetTag \/ ClearTag PROVE ListsInv'
  OBVIOUS
<1>1. PICK t : On("feeds") /\ Show([ui EXCEPT !.tag = t, !.redraw = TRUE, !.zero_feedpos = TRUE], unread)
  BY DEF SetTag, ClearTag
<1> DEFINE v == [ui EXCEPT !.tag = t, !.redraw = TRUE, !.zero_feedpos = TRUE]
<1>2. IsUi(ui) /\ ui.screen = "feeds" /\ FeedsAtRest(ui) /\ ui.feedpos \in Nat /\ CountsInv /\ unread \subseteq Existing
  BY <1>1, FeedListFacts
<1>3. /\ IsUi(v) /\ v.screen = "feeds" /\ v.feeds = ui.feeds /\ v.named = ui.named /\ v.items = ui.items
      /\ v.itempos = ui.itempos /\ v.old_itempos = ui.old_itempos /\ v.feedpos = ui.feedpos /\ v.redraw = TRUE
      /\ v.feed_kept = ui.feed_kept
  BY <1>2 DEF IsUi, Fields
<1>4. Show(v, unread)
  BY <1>1
<1> HIDE DEF v
<1>5. Typed(v) /\ Ready(v, unread)
  BY <1>1, <1>2, <1>3, FeedListReady DEF FeedsAtRest
<1>. QED
  BY <1>2, <1>4, <1>5, ShowKeepsInv

\* Moving the cursor of the feed list to a line that was looked for.
LEMMA MoveToKeeps ==
  ASSUME ListsInv, On("feeds"), NEW hit, MoveTo(hit), ~hit.beyond /\ hit.to # NoPos => hit.to \in Nat
  PROVE  ListsInv'
<1>1. /\ IsUi(ui) /\ Typed(ui) /\ Loose(ui) /\ ui.screen = "feeds" /\ ~ui.beyond /\ FeedsAtRest(ui)
      /\ CountsInv /\ unread \subseteq Existing /\ Current(ui, unread)
  BY FeedListFacts
<1> DEFINE w == [ui EXCEPT !.feedpos = hit.to]
           v == IF hit.beyond THEN Beyond(ui) ELSE IF hit.to = NoPos THEN ui ELSE w
<1>2. Show(v, unread)
  BY DEF MoveTo
<1>3. Typed(v) /\ Ready(v, unread)
  <2>1. CASE hit.beyond
    <3>1. v = Beyond(ui)
      BY <2>1
    <3>2. Typed(v) /\ v.beyond = TRUE
      BY <1>1, <3>1, BeyondIsUi
    <3> HIDE DEF v
    <3>. QED
      BY <3>2 DEF Ready
  <2>2. CASE ~hit.beyond /\ hit.to = NoPos
    <3>1. v = ui
      BY <2>2
    <3>2. Ready(ui, unread)
      BY <1>1 DEF Ready, FeedsAtRest
    <3> HIDE DEF v
    <3>. QED
      BY <1>1, <3>1, <3>2
  <2>3. CASE ~hit.beyond /\ hit.to # NoPos
    <3>1. v = w /\ hit.to \in Nat
      BY <2>3
    <3>2. /\ IsUi(w) /\ w.screen = "feeds" /\ w.feeds = ui.feeds /\ w.named = ui.named /\ w.items = ui.items
          /\ w.itempos = ui.itempos /\ w.old_itempos = ui.old_itempos /\ w.feedpos = hit.to
          /\ w.feed_kept = ui.feed_kept /\ w.zero_feedpos = ui.zero_feedpos
          /\ w.tag = ui.tag /\ w.feed_filter = ui.feed_filter /\ w.beyond = ui.beyond
      BY <1>1 DEF IsUi, Fields
    <3> HIDE DEF w, v
    <3>3. Typed(w)
      BY <1>1, <3>1, <3>2 DEF Typed, Loose
    <3>4. FeedsAtRest(w) /\ Current(w, unread)
      BY <1>1, <3>2 DEF FeedsAtRest, Current, VisibleFeeds
    <3>5. Ready(w, unread)
      BY <1>1, <3>2, <3>4 DEF Ready, FeedsAtRest
    <3>. QED
      BY <3>1, <3>3, <3>5
  <2>. QED
    BY <2>1, <2>2, <2>3
<1> HIDE DEF v
<1>. QED
  BY <1>1, <1>2, <1>3, ShowKeepsInv

LEMMA MoveInFeedsKeeps == ListsInv /\ (MoveInFeeds \/ GotoFeedNumber) => ListsInv'
<1> SUFFICES ASSUME ListsInv, MoveInFeeds \/ GotoFeedNumber PROVE ListsInv'
  OBVIOUS
<1>1. On("feeds")
  BY DEF MoveInFeeds, GotoFeedNumber
<1>2. Typed(ui) /\ Len(ui.feeds) \in Nat /\ ui.feeds \in Seq(Feeds)
  BY <1>1, FeedListFacts
<1>3. \A i \in 0 .. Len(ui.feeds) - 1 : i \in Nat
  BY <1>2
<1>4. CASE \E way \in Ways : MoveTo(FindFeed(way, ui, unread))
  <2>1. PICK way \in Ways : MoveTo(FindFeed(way, ui, unread))
    BY <1>4
  <2> DEFINE hit == FindFeed(way, ui, unread)
  <2>2. ~hit.beyond /\ hit.to # NoPos => hit.to \in 0 .. Len(ui.feeds) - 1
    BY <1>2, FoundFeed
  <2>3. MoveTo(hit)
    BY <2>1
  <2> HIDE DEF hit
  <2>. QED
    BY <1>1, <1>3, <2>2, <2>3, MoveToKeeps
<1>5. CASE \E i \in FeedHits(ui, unread) : MoveTo([to |-> i, beyond |-> FALSE])
  <2>1. PICK i \in FeedHits(ui, unread) : MoveTo([to |-> i, beyond |-> FALSE])
    BY <1>5
  <2>2. i \in Nat
    BY <1>2, <1>3, HitsAreLines
  <2> DEFINE hit == [to |-> i, beyond |-> FALSE]
  <2>3. MoveTo(hit) /\ hit.to \in Nat
    BY <2>1, <2>2
  <2> HIDE DEF hit
  <2>. QED
    BY <1>1, <2>3, MoveToKeeps
<1>6. CASE GotoFeedNumber
  <2>1. PICK f \in Feeds : MoveTo([to |-> PositionOf(f, ui.feeds), beyond |-> ui.feeds = <<>>])
    BY <1>6 DEF GotoFeedNumber
  <2> DEFINE i == PositionOf(f, ui.feeds)
             hit == [to |-> i, beyond |-> ui.feeds = <<>>]
  <2>2. i = NoPos \/ i \in Nat
    BY <1>2, PositionIsLine
  <2>3. MoveTo(hit)
    BY <2>1
  <2> HIDE DEF i
  <2>4. hit.to = i
    OBVIOUS
  <2> HIDE DEF hit
  <2>. QED
    BY <1>1, <2>2, <2>3, <2>4, MoveToKeeps
<1>7. ASSUME MoveInFeeds
      PROVE  \/ \E way \in Ways : MoveTo(FindFeed(way, ui, unread))
             \/ \E i \in FeedHits(ui, unread) : MoveTo([to |-> i, beyond |-> FALSE])
  <2>1. /\ FindFeed("next unread", ui, unread) = NextUnreadFeed(ui, unread)
        /\ FindFeed("previous unread", ui, unread) = PreviousUnreadFeed(ui, unread)
        /\ FindFeed("next", ui, unread) = NextFeed(ui, unread)
        /\ FindFeed("previous", ui, unread) = PreviousFeed(ui, unread)
    <3>1. /\ "next unread" # "previous unread" /\ "next unread" # "next" /\ "next unread" # "previous"
          /\ "previous unread" # "next" /\ "previous unread" # "previous" /\ "next" # "previous"
      OBVIOUS
    <3>. QED
      BY <3>1, Zenon DEF FindFeed
  <2>. QED
    BY <1>7, <2>1 DEF MoveInFeeds, Ways
<1>. QED
  BY <1>4, <1>5, <1>6, <1>7

\* With the article list or an article on top.
LEMMA ListFacts ==
  ASSUME ListsInv, On("items") \/ On("article")
  PROVE  /\ Settled(ui) /\ Typed(ui) /\ IsUi(ui) /\ ~ui.beyond /\ FeedsAtRest(ui) /\ ItemsAtRest(ui)
         /\ ui.screen # "feeds" /\ CountsInv /\ unread \subseteq Existing
         /\ On("article") => AtRest(ui) /\ ui.article \in Existing
BY DEF ListsInv, On, AtRest, Typed, Loose, Settled

\* A settled record is ready if the form on top is the article list.
LEMMA SettledReady ==
  ASSUME NEW u, Settled(u), u.screen = "items", NEW ur
  PROVE  Typed(u) /\ Ready(u, ur)
BY DEF Settled, Ready, ItemsAtRest

LEMMA ItemsReady ==
  ASSUME ListsInv, On("items"), NEW v, IsUi(v), NEW ur,
         v.screen = "items", v.feeds = ui.feeds, v.feedpos = ui.feedpos, v.named = ui.named, v.items = ui.items,
         v.itempos = ui.itempos, v.old_itempos = ui.old_itempos, v.feed = ui.feed,
         v.feed_kept = ui.feed_kept, v.zero_feedpos = ui.zero_feedpos, v.stale = TRUE,
         v.show_items => ~v.item_filter
  PROVE  Typed(v) /\ Ready(v, ur)
<1>1. Typed(ui) /\ FeedsAtRest(ui) /\ ui.screen = "items"
  BY ListFacts DEF On
<1>2. Typed(v)
  BY <1>1 DEF Typed, Loose
<1>3. FeedsAtRest(v)
  BY <1>1 DEF FeedsAtRest
<1>. QED
  BY <1>2, <1>3 DEF Ready

LEMMA OpenItemKeeps == ListsInv /\ OpenItem => ListsInv'
<1> SUFFICES ASSUME ListsInv, OpenItem PROVE ListsInv'
  OBVIOUS
<1> DEFINE u == [ui EXCEPT !.old_itempos = ui.itempos]
<1>1. On("items") /\ Show(Opened(u), unread)
  BY DEF OpenItem
<1>2. Settled(ui) /\ Typed(ui) /\ IsUi(ui) /\ ~ui.beyond /\ CountsInv /\ unread \subseteq Existing
  BY <1>1, ListFacts
<1>3. /\ IsUi(u) /\ u.beyond = ui.beyond /\ u.screen = ui.screen /\ u.old_itempos = ui.itempos
      /\ u.feeds = ui.feeds /\ u.feedpos = ui.feedpos /\ u.named = ui.named
      /\ u.items = ui.items /\ u.itempos = ui.itempos /\ u.feed = ui.feed
      /\ u.feed_kept = ui.feed_kept /\ u.zero_feedpos = ui.zero_feedpos /\ u.item_kept = ui.item_kept
      /\ u.item_filter = ui.item_filter /\ u.show_items = ui.show_items
  BY <1>2 DEF IsUi, Fields
<1> HIDE DEF u
<1>4. Typed(u)
  BY <1>2, <1>3 DEF Typed, Loose
<1>5. Settled(u)
  BY <1>2, <1>3, <1>4 DEF Settled, FeedsAtRest, ItemsAtRest
<1>6. Typed(Opened(u)) /\ Ready(Opened(u), unread)
  BY <1>2, <1>3, <1>5, OpenedReady
<1>. QED
  BY <1>1, <1>2, <1>6, ShowKeepsInv

LEMMA MoveInItemsKeeps == ListsInv /\ (MoveInItems \/ MoveToFeed) => ListsInv'
<1> SUFFICES ASSUME ListsInv, MoveInItems \/ MoveToFeed PROVE ListsInv'
  OBVIOUS
<1>1. On("items")
  BY DEF MoveInItems, MoveToFeed
<1>2. Settled(ui) /\ ~ui.beyond /\ CountsInv /\ unread \subseteq Existing /\ ui.screen = "items"
  BY <1>1, ListFacts DEF On
<1>3. \E v : Settled(v) /\ SameForm(ui, v) /\ Show(v, unread)
  <2>1. CASE MoveInItems
    <3>1. PICK way \in Ways : Show(Goto(ui, unread, way).ui, unread)
      BY <2>1 DEF MoveInItems
    <3>2. Settled(Goto(ui, unread, way).ui) /\ SameForm(ui, Goto(ui, unread, way).ui)
      BY <1>2, GotoSettled
    <3>. QED
      BY <3>1, <3>2
  <2>2. CASE MoveToFeed
    <3>1. PICK way \in Ways : Show(GotoFeed(ui, unread, way), unread)
      BY <2>2 DEF MoveToFeed
    <3>2. Settled(GotoFeed(ui, unread, way)) /\ SameForm(ui, GotoFeed(ui, unread, way))
      BY <1>2, GotoFeedSettled
    <3>. QED
      BY <3>1, <3>2
  <2>. QED
    BY <2>1, <2>2
<1>4. PICK v : Settled(v) /\ SameForm(ui, v) /\ Show(v, unread)
  BY <1>3
<1>5. v.screen = "items"
  BY <1>2, <1>4 DEF SameForm
<1>. QED
  BY <1>2, <1>4, <1>5, SettledReady, ShowKeepsInv

LEMMA RandomItemKeeps == ListsInv /\ RandomItem => ListsInv'
<1> SUFFICES ASSUME ListsInv, RandomItem PROVE ListsInv'
  OBVIOUS
<1>1. On("items")
  BY DEF RandomItem
<1>2. Settled(ui) /\ Typed(ui) /\ ~ui.beyond /\ CountsInv /\ unread \subseteq Existing /\ ui.screen = "items"
  BY <1>1, ListFacts DEF On
<1>3. \E v : Settled(v) /\ SameForm(ui, v) /\ Show(v, unread)
  <2>1. CASE \E i \in ItemHits(ui, unread) : Show([ui EXCEPT !.itempos = i], unread)
    <3>1. PICK i \in ItemHits(ui, unread) : Show([ui EXCEPT !.itempos = i], unread)
      BY <2>1
    <3>2. i \in Nat
      BY <1>2, HitsAreLines
    <3> DEFINE v == [ui EXCEPT !.itempos = i]
    <3>3. Settled(v) /\ SameForm(ui, v)
      BY <1>2, <3>2, Moved
    <3>4. Show(v, unread)
      BY <3>1
    <3> HIDE DEF v
    <3>. QED
      BY <3>3, <3>4
  <2>2. CASE \E i \in FeedHits(ui, unread) : LET u == RandomFeed(ui, unread, i) IN
               \E k \in ItemHits(u, unread) : Show([u EXCEPT !.itempos = k], unread)
    <3>1. PICK i \in FeedHits(ui, unread) : LET u == RandomFeed(ui, unread, i) IN
               \E k \in ItemHits(u, unread) : Show([u EXCEPT !.itempos = k], unread)
      BY <2>2
    <3> DEFINE u == RandomFeed(ui, unread, i)
    <3>2. PICK k \in ItemHits(u, unread) : Show([u EXCEPT !.itempos = k], unread)
      BY <3>1
    <3>3. i \in 0 .. Len(ui.feeds) - 1
      BY <1>2, HitsAreLines
    <3>4. Settled(u) /\ SameForm(ui, u)
      BY <1>2, <3>3, EnteredFromLine DEF RandomFeed
    <3> HIDE DEF u
    <3>5. k \in Nat
      BY <3>4, HitsAreLines DEF Settled
    <3> DEFINE v == [u EXCEPT !.itempos = k]
    <3>6. Settled(v) /\ SameForm(u, v)
      BY <3>4, <3>5, Moved
    <3>7. Show(v, unread)
      BY <3>2
    <3> HIDE DEF v
    <3>8. SameForm(ui, v)
      BY <3>4, <3>6 DEF SameForm
    <3>. QED
      BY <3>6, <3>7, <3>8
  <2>. QED
    BY <2>1, <2>2 DEF RandomItem
<1>4. PICK v : Settled(v) /\ SameForm(ui, v) /\ Show(v, unread)
  BY <1>3
<1>5. v.screen = "items"
  BY <1>2, <1>4 DEF SameForm
<1>. QED
  BY <1>2, <1>4, <1>5, SettledReady, ShowKeepsInv

LEMMA MarkListReadKeeps == ListsInv /\ MarkListRead => ListsInv'
<1> SUFFICES ASSUME ListsInv, MarkListRead PROVE ListsInv'
  OBVIOUS
<1> DEFINE ur == Without({ui.feed})
           u == IF cfg.jump THEN Goto(ui, ur, "next unread").ui ELSE ui
           v == [u EXCEPT !.stale = TRUE]
<1>1. On("items") /\ Show(v, ur)
  BY DEF MarkListRead
<1>2. Settled(ui) /\ ~ui.beyond /\ CountsInv /\ unread \subseteq Existing /\ ui.screen = "items"
  BY <1>1, ListFacts DEF On
<1>3. ur \subseteq Existing
  BY <1>2, WithoutExists
<1> HIDE DEF ur
<1>4. Settled(u) /\ u.screen = "items"
  <2> DEFINE w == Goto(ui, ur, "next unread").ui
  <2>1. Settled(w) /\ SameForm(ui, w)
    BY <1>2, GotoSettled DEF Ways
  <2> HIDE DEF w
  <2>2. u = w \/ u = ui
    BY DEF w
  <2> HIDE DEF u
  <2>. QED
    BY <1>2, <2>1, <2>2 DEF SameForm
<1> HIDE DEF u
<1>5. IsUi(u) /\ Typed(u)
  BY <1>4 DEF Settled, Typed, Loose
<1>6. /\ IsUi(v) /\ v.beyond = u.beyond /\ v.screen = u.screen /\ v.stale = TRUE
      /\ v.feeds = u.feeds /\ v.feedpos = u.feedpos /\ v.named = u.named /\ v.old_itempos = u.old_itempos
      /\ v.items = u.items /\ v.itempos = u.itempos /\ v.feed = u.feed
      /\ v.feed_kept = u.feed_kept /\ v.zero_feedpos = u.zero_feedpos /\ v.item_kept = u.item_kept
      /\ v.item_filter = u.item_filter /\ v.show_items = u.show_items
  BY <1>5 DEF IsUi, Fields
<1> HIDE DEF v
<1>7. Typed(v)
  BY <1>5, <1>6 DEF Typed, Loose
<1>8. Settled(v)
  BY <1>4, <1>6, <1>7 DEF Settled, FeedsAtRest, ItemsAtRest
<1>9. Typed(v) /\ Ready(v, ur)
  BY <1>4, <1>6, <1>8, SettledReady
<1>. QED
  BY <1>1, <1>2, <1>3, <1>9, ShowKeepsInv

LEMMA KeptItem ==
  ASSUME NEW w, IsUi(w)
  PROVE  LET v == KeepItem(w) IN
         /\ IsUi(v) /\ v.screen = w.screen /\ v.feeds = w.feeds /\ v.feedpos = w.feedpos /\ v.named = w.named
         /\ v.items = w.items /\ v.itempos = w.itempos /\ v.old_itempos = w.old_itempos /\ v.feed = w.feed
         /\ v.feed_kept = w.feed_kept /\ v.zero_feedpos = w.zero_feedpos /\ v.stale = w.stale
         /\ v.show_items = w.show_items /\ v.item_filter = w.item_filter
<1> DEFINE v == KeepItem(w)
           p == PositionOf(w.items[w.itempos + 1], ArticlesOf(w.feed))
<1>1. v = w \/ v = [w EXCEPT !.item_kept = p]
  BY DEF KeepItem
<1> HIDE DEF v, p
<1>2. CASE v = w
  BY <1>2 DEF v
<1>3. CASE v = [w EXCEPT !.item_kept = p]
  BY <1>3 DEF IsUi, Fields, v
<1>. QED
  BY <1>1, <1>2, <1>3

LEMMA FilterItemsKeeps == ListsInv /\ (ToggleShowReadItems \/ ClearFilter) => ListsInv'
<1> SUFFICES ASSUME ListsInv, ToggleShowReadItems \/ ClearFilter PROVE ListsInv'
  OBVIOUS
<1>1. On("items")
  BY DEF ToggleShowReadItems, ClearFilter
<1>2. Settled(ui) /\ IsUi(ui) /\ ~ui.beyond /\ CountsInv /\ unread \subseteq Existing /\ ui.screen = "items"
      /\ ItemsAtRest(ui)
  BY <1>1, ListFacts DEF On
<1>3. PICK w : /\ Show(KeepItem(w), unread)
               /\ IsUi(w) /\ w.screen = "items" /\ w.feeds = ui.feeds /\ w.feedpos = ui.feedpos /\ w.named = ui.named
               /\ w.items = ui.items /\ w.itempos = ui.itempos /\ w.old_itempos = ui.old_itempos /\ w.feed = ui.feed
               /\ w.feed_kept = ui.feed_kept /\ w.zero_feedpos = ui.zero_feedpos /\ w.stale = TRUE
               /\ w.show_items => ~w.item_filter
  <2>1. CASE ToggleShowReadItems
    <3> DEFINE x == [ui EXCEPT !.show_items = ~@, !.item_filter = ui.show_items, !.stale = TRUE]
    <3>1. Show(KeepItem(x), unread)
      BY <2>1 DEF ToggleShowReadItems
    <3>2. x = [ui EXCEPT !.show_items = ~ui.show_items, !.item_filter = ui.show_items, !.stale = TRUE]
      OBVIOUS
    <3>3. x.show_items = (~ui.show_items) /\ x.item_filter = ui.show_items
      BY <1>2 DEF IsUi, Fields
    <3>4. x.show_items => ~x.item_filter
      <4> HIDE DEF x
      <4>. QED
        BY <3>3
    <3>5. /\ IsUi(x) /\ x.screen = "items" /\ x.feeds = ui.feeds /\ x.feedpos = ui.feedpos /\ x.named = ui.named
          /\ x.items = ui.items /\ x.itempos = ui.itempos /\ x.old_itempos = ui.old_itempos /\ x.feed = ui.feed
          /\ x.feed_kept = ui.feed_kept /\ x.zero_feedpos = ui.zero_feedpos /\ x.stale = TRUE
      BY <1>2 DEF IsUi, Fields
    <3> HIDE DEF x
    <3>. QED
      BY <3>1, <3>4, <3>5
  <2>2. CASE ClearFilter
    <3> DEFINE x == [ui EXCEPT !.item_filter = FALSE, !.stale = TRUE]
    <3>1. Show(KeepItem(x), unread)
      BY <2>2 DEF ClearFilter
    <3>2. /\ IsUi(x) /\ x.screen = "items" /\ x.feeds = ui.feeds /\ x.feedpos = ui.feedpos /\ x.named = ui.named
          /\ x.items = ui.items /\ x.itempos = ui.itempos /\ x.old_itempos = ui.old_itempos /\ x.feed = ui.feed
          /\ x.feed_kept = ui.feed_kept /\ x.zero_feedpos = ui.zero_feedpos /\ x.stale = TRUE
          /\ x.item_filter = FALSE
      BY <1>2 DEF IsUi, Fields
    <3> HIDE DEF x
    <3>. QED
      BY <3>1, <3>2
  <2>. QED
    BY <2>1, <2>2
<1> DEFINE v == KeepItem(w)
<1>4. /\ IsUi(v) /\ v.screen = w.screen /\ v.feeds = w.feeds /\ v.feedpos = w.feedpos /\ v.named = w.named
      /\ v.items = w.items /\ v.itempos = w.itempos /\ v.old_itempos = w.old_itempos /\ v.feed = w.feed
      /\ v.feed_kept = w.feed_kept /\ v.zero_feedpos = w.zero_feedpos /\ v.stale = w.stale
      /\ v.show_items = w.show_items /\ v.item_filter = w.item_filter
  BY <1>3, KeptItem
<1>5. Show(v, unread)
  BY <1>3
<1> HIDE DEF v
<1>6. Typed(v) /\ Ready(v, unread)
  BY <1>1, <1>3, <1>4, ItemsReady
<1>. QED
  BY <1>2, <1>5, <1>6, ShowKeepsInv

LEMMA MarkedFeedTyped ==
  ASSUME ListsInv, On("items")
  PROVE  LET v == MarkedFeed(ui) IN
         /\ Typed(v) /\ v.tag = ui.tag /\ v.feed_filter = ui.feed_filter /\ v.feed_kept = ui.feed_kept
         /\ v.zero_feedpos = ui.zero_feedpos /\ v.feeds = VisibleFeeds(ui, unread)
         /\ (\E k \in 1 .. Len(v.feeds) : v.feeds[k] = ui.feed) =>
              v.feedpos \in 0 .. Len(v.feeds) - 1 /\ v.feeds[v.feedpos + 1] = ui.feed
<1> DEFINE fs == VisibleFeeds(ui, unread)
           w == [ui EXCEPT !.feeds = fs]
           here == PositionOf(ui.feed, w.feeds)
           after == {f \in ui.feed + 1 .. NFeeds : HasUnread(f, unread)}
           next == IF after = {} THEN NoPos ELSE PositionOf(Min(after), w.feeds)
           v == MarkedFeed(ui)
<1>1. Typed(ui) /\ IsUi(ui)
  BY ListFacts
<1>2. fs \in Seq(Feeds)
  BY VisibleFeedsTyped
<1>3. v = IF here # NoPos THEN [w EXCEPT !.feedpos = here] ELSE IF next # NoPos THEN [w EXCEPT !.feedpos = next] ELSE w
  BY DEF MarkedFeed
<1> HIDE DEF fs
<1>4. /\ IsUi(w) /\ w.feeds = fs /\ w.screen = ui.screen /\ w.tag = ui.tag /\ w.feed_filter = ui.feed_filter
      /\ w.feedpos = ui.feedpos /\ w.named = ui.named /\ w.old_itempos = ui.old_itempos
      /\ w.items = ui.items /\ w.itempos = ui.itempos /\ w.feed = ui.feed
      /\ w.feed_kept = ui.feed_kept /\ w.zero_feedpos = ui.zero_feedpos
  BY <1>1 DEF IsUi, Fields
<1> HIDE DEF w, after
<1>5. /\ here = NoPos \/ here \in Nat
      /\ (\E k \in 1 .. Len(fs) : fs[k] = ui.feed) => here \in 0 .. Len(fs) - 1 /\ fs[here + 1] = ui.feed
  BY <1>2, <1>4, PositionIsLine
<1>6. next = NoPos \/ next \in Nat
  <2>1. PositionOf(Min(after), w.feeds) = NoPos \/ PositionOf(Min(after), w.feeds) \in Nat
    BY <1>2, <1>4, PositionIsLine
  <2>. QED
    BY <2>1
<1> HIDE DEF here, next, v
<1>7. Len(fs) \in Nat /\ \A i \in 0 .. Len(fs) - 1 : i # NoPos
  BY <1>2 DEF NoPos
<1>8. PICK p : /\ p = ui.feedpos \/ p \in Nat
               /\ (v = w /\ p = w.feedpos) \/ v = [w EXCEPT !.feedpos = p]
               /\ here # NoPos => p = here
  BY <1>3, <1>4, <1>5, <1>6
<1>9. p \in Nat
  BY <1>1, <1>8 DEF Typed, Loose
<1>10. /\ IsUi(v) /\ v.feeds = fs /\ v.screen = ui.screen /\ v.tag = ui.tag /\ v.feed_filter = ui.feed_filter
       /\ v.feedpos = p /\ v.named = ui.named /\ v.old_itempos = ui.old_itempos
       /\ v.items = ui.items /\ v.itempos = ui.itempos /\ v.feed = ui.feed
       /\ v.feed_kept = ui.feed_kept /\ v.zero_feedpos = ui.zero_feedpos
  <2>1. CASE v = w /\ p = w.feedpos
    BY <1>4, <2>1
  <2>2. CASE v = [w EXCEPT !.feedpos = p]
    BY <1>4, <2>2 DEF IsUi, Fields
  <2>. QED
    BY <1>8, <2>1, <2>2
<1>11. Typed(v)
  BY <1>1, <1>2, <1>9, <1>10 DEF Typed, Loose
<1>. QED
  BY <1>5, <1>7, <1>8, <1>10, <1>11 DEF v, fs

\* Back to the feed list, with the cursor on the feed that was left.
LEMMA QuitItemsReady ==
  ASSUME ListsInv, On("items")
  PROVE  LET v == [MarkedFeed(ui) EXCEPT !.screen = "feeds", !.redraw = TRUE, !.feed = NoFeed,
                                         !.items = <<>>, !.itempos = 0] IN
         /\ Typed(v) /\ Ready(v, unread) /\ v.screen = "feeds" /\ FeedsAtRest(v) /\ v.redraw = TRUE
         /\ v.tag = ui.tag /\ v.feed_filter = ui.feed_filter
         /\ (\E k \in 1 .. Len(VisibleFeeds(ui, unread)) : VisibleFeeds(ui, unread)[k] = ui.feed) =>
              v.feedpos \in 0 .. Len(VisibleFeeds(ui, unread)) - 1 /\ VisibleFeeds(ui, unread)[v.feedpos + 1] = ui.feed
<1> DEFINE w == MarkedFeed(ui)
           v == [w EXCEPT !.screen = "feeds", !.redraw = TRUE, !.feed = NoFeed, !.items = <<>>, !.itempos = 0]
<1>1. /\ Typed(w) /\ w.tag = ui.tag /\ w.feed_filter = ui.feed_filter /\ w.feed_kept = ui.feed_kept
      /\ w.zero_feedpos = ui.zero_feedpos /\ w.feeds = VisibleFeeds(ui, unread)
      /\ (\E k \in 1 .. Len(w.feeds) : w.feeds[k] = ui.feed) =>
           w.feedpos \in 0 .. Len(w.feeds) - 1 /\ w.feeds[w.feedpos + 1] = ui.feed
  BY MarkedFeedTyped
<1> HIDE DEF w
<1>2. FeedsAtRest(ui)
  BY ListFacts
<1>3. IsUi(w)
  BY <1>1 DEF Typed, Loose
<1>4. /\ IsUi(v) /\ v.screen = "feeds" /\ v.redraw = TRUE /\ v.items = <<>> /\ v.itempos = 0
      /\ v.feeds = w.feeds /\ v.tag = w.tag /\ v.feed_filter = w.feed_filter
      /\ v.feedpos = w.feedpos /\ v.named = w.named /\ v.old_itempos = w.old_itempos
      /\ v.feed_kept = w.feed_kept /\ v.zero_feedpos = w.zero_feedpos
  BY <1>3 DEF IsUi, Fields
<1> HIDE DEF v
<1>5. Typed(v)
  <2>1. <<>> \in Seq(Existing) /\ 0 \in Nat
    OBVIOUS
  <2>. QED
    BY <1>1, <1>4, <2>1 DEF Typed, Loose
<1>6. FeedsAtRest(v)
  BY <1>1, <1>2, <1>4 DEF FeedsAtRest
<1>7. Ready(v, unread)
  BY <1>4, <1>6 DEF Ready, FeedsAtRest
<1>. QED
  BY <1>1, <1>4, <1>5, <1>6, <1>7 DEF v, w

LEMMA QuitItemsKeeps == ListsInv /\ QuitItems => ListsInv'
<1> SUFFICES ASSUME ListsInv, QuitItems PROVE ListsInv'
  OBVIOUS
<1> DEFINE v == [MarkedFeed(ui) EXCEPT !.screen = "feeds", !.redraw = TRUE, !.feed = NoFeed, !.items = <<>>, !.itempos = 0]
<1>1. On("items") /\ Show(v, unread)
  BY DEF QuitItems
<1>2. CountsInv /\ unread \subseteq Existing
  BY <1>1, ListFacts
<1>3. Typed(v) /\ Ready(v, unread)
  BY <1>1, QuitItemsReady
<1> HIDE DEF v
<1>. QED
  BY <1>1, <1>2, <1>3, ShowKeepsInv

LEMMA ReadExists ==
  ASSUME unread \subseteq Existing
  PROVE  Read \subseteq Existing
BY DEF Read

LEMMA LeftKeeps ==
  ASSUME ListsInv, On("article"), NEW way \in Ways, Left(Goto(ui, Read, way))
  PROVE  ListsInv'
<1> DEFINE r == Goto(ui, Read, way)
           v == IF r.ui.beyond THEN r.ui ELSE IF r.found THEN Opened(r.ui) ELSE Closed(r.ui)
<1>1. Settled(ui) /\ ~ui.beyond /\ CountsInv /\ Read \subseteq Existing
  BY ListFacts, ReadExists
<1>2. Settled(r.ui)
  BY <1>1, GotoSettled
<1>3. Show(v, Read)
  BY DEF Left
<1> HIDE DEF r
<1>4. Typed(v) /\ Ready(v, Read)
  <2>1. CASE r.ui.beyond
    BY <1>2, <2>1 DEF Settled, Ready
  <2>2. CASE ~r.ui.beyond /\ r.found
    <3>1. Typed(Opened(r.ui)) /\ Ready(Opened(r.ui), Read)
      BY <1>2, <2>2, OpenedReady
    <3>. QED
      BY <2>2, <3>1
  <2>3. CASE ~r.ui.beyond /\ ~r.found
    <3>1. Typed(Closed(r.ui)) /\ Ready(Closed(r.ui), Read)
      BY <1>2, <2>3, ClosedReady
    <3>. QED
      BY <2>3, <3>1
  <2>. QED
    BY <2>1, <2>2, <2>3
<1> HIDE DEF v
<1>. QED
  BY <1>1, <1>3, <1>4, ShowKeepsInv

LEMMA ArticleKeysKeep == ListsInv /\ (NextUnread \/ PreviousUnread \/ Next_ \/ Previous) => ListsInv'
BY LeftKeeps DEF NextUnread, PreviousUnread, Next_, Previous, Ways

LEMMA ClosedKeeps == ListsInv /\ (ToggleItemRead \/ QuitArticle) => ListsInv'
<1> SUFFICES ASSUME ListsInv, ToggleItemRead \/ QuitArticle PROVE ListsInv'
  OBVIOUS
<1>1. On("article")
  BY DEF ToggleItemRead, QuitArticle
<1>2. Settled(ui) /\ ~ui.beyond /\ CountsInv /\ unread \subseteq Existing /\ Read \subseteq Existing
      /\ ui.article \in Existing
  BY <1>1, ListFacts, ReadExists
<1>3. PICK ur : ur \subseteq Existing /\ Show(Closed(ui), ur)
  BY <1>2 DEF ToggleItemRead, QuitArticle
<1>4. Typed(Closed(ui)) /\ Ready(Closed(ui), ur)
  BY <1>2, ClosedReady
<1>. QED
  BY <1>2, <1>3, <1>4, ShowKeepsInv

LEMMA RandomUnreadKeeps == ListsInv /\ RandomUnread => ListsInv'
<1> SUFFICES ASSUME ListsInv, RandomUnread PROVE ListsInv'
  OBVIOUS
<1>1. On("article")
  BY DEF RandomUnread
<1>2. Settled(ui) /\ Typed(ui) /\ ~ui.beyond /\ CountsInv /\ Read \subseteq Existing
  BY <1>1, ListFacts, ReadExists
<1>3. CASE Show(Closed(ui), Read)
  <2>1. Typed(Closed(ui)) /\ Ready(Closed(ui), Read)
    BY <1>2, ClosedReady
  <2>. QED
    BY <1>2, <1>3, <2>1, ShowKeepsInv
<1>4. CASE \E i \in FeedHits(ui, Read) : LET u == RandomFeed(ui, Read, i) IN
             \E k \in ItemHits(u, Read) : Show(Opened([u EXCEPT !.itempos = k]), Read)
  <2>1. PICK i \in FeedHits(ui, Read) : LET u == RandomFeed(ui, Read, i) IN
             \E k \in ItemHits(u, Read) : Show(Opened([u EXCEPT !.itempos = k]), Read)
    BY <1>4
  <2> DEFINE u == RandomFeed(ui, Read, i)
  <2>2. PICK k \in ItemHits(u, Read) : Show(Opened([u EXCEPT !.itempos = k]), Read)
    BY <2>1
  <2>3. i \in 0 .. Len(ui.feeds) - 1
    BY <1>2, HitsAreLines
  <2>4. Settled(u) /\ ~u.beyond
    BY <1>2, <2>3, EnteredFromLine DEF RandomFeed
  <2> HIDE DEF u
  <2>5. k \in Nat
    BY <2>4, HitsAreLines DEF Settled
  <2> DEFINE v == [u EXCEPT !.itempos = k]
  <2>6. Settled(v) /\ v.beyond = u.beyond
    BY <2>4, <2>5, Moved
  <2>7. Show(Opened(v), Read)
    BY <2>2
  <2> HIDE DEF v
  <2>8. Typed(Opened(v)) /\ Ready(Opened(v), Read)
    BY <2>4, <2>6, OpenedReady
  <2>. QED
    BY <1>2, <2>7, <2>8, ShowKeepsInv
<1>. QED
  BY <1>3, <1>4 DEF RandomUnread

LEMMA TimeoutKeeps == ListsInv /\ Timeout => ListsInv'
<1> SUFFICES ASSUME ListsInv, Timeout PROVE ListsInv'
  OBVIOUS
<1>1. Typed(ui) /\ CountsInv /\ unread \subseteq Existing /\ AtRest(ui) /\ Current(ui, unread) /\ Show(ui, unread)
      /\ ~ui.beyond
  BY DEF ListsInv, Timeout, FeedsAreCurrent, Current, On
<1>2. Ready(ui, unread)
  BY <1>1 DEF Ready, AtRest, FeedsAtRest, ItemsAtRest
<1>. QED
  BY <1>1, <1>2, ShowKeepsInv

\* An article arrives: nothing is drawn, but the lists are filled.
LEMMA ArriveKeeps == ListsInv /\ Arrive => ListsInv'
<1> SUFFICES ASSUME ListsInv, Arrive PROVE ListsInv'
  OBVIOUS
<1> DEFINE fs == VisibleFeeds(ui, unread')
           all(f) == [k \in 1 .. count'[f] |-> <<f, count'[f] + 1 - k>>]
<1>1. /\ IsUi(ui) /\ Typed(ui) /\ AtRest(ui) /\ Counts(count) /\ unread \subseteq Existing
      /\ ui.items \in Seq(Existing) /\ ~ui.beyond
  BY DEF ListsInv, Typed, Loose, CountsInv, Arrive
<1> DEFINE u == [ui EXCEPT !.feeds = fs]
           r == Redrawn(u)
           repl == ui.replaced \/ ui.screen = "article"
           filter == ~u.show_items
           v == [r EXCEPT !.replaced = repl]
<1>19. u.show_items = ui.show_items /\ (ui.show_items => ~filter)
  <2>1. \A x : [ui EXCEPT !.feeds = x].show_items = ui.show_items
    BY <1>1 DEF IsUi, Fields
  <2>. QED
    BY <2>1
<1>20. r = [u EXCEPT !.stale = TRUE, !.item_filter = filter]
  BY DEF Redrawn
<1>21. u.replaced = ui.replaced /\ r.replaced = ui.replaced
  <2> HIDE DEF fs
  <2>1. u.replaced = ui.replaced /\ IsUi(u)
    BY <1>1 DEF IsUi, Fields
  <2> HIDE DEF u, filter, r
  <2>2. r.replaced = u.replaced
    BY <1>20, <2>1 DEF IsUi, Fields
  <2>. QED
    BY <2>1, <2>2
<1>2. PICK f \in Feeds :
        /\ count[f] < MaxArticles[f] /\ count' = [count EXCEPT ![f] = @ + 1]
        /\ unread' = unread \cup {<<f, count[f] + 1>>}
        /\ ui' = IF ui.feed # f THEN u
                 ELSE LET x == [r EXCEPT !.replaced = @ \/ ui.screen = "article"]
                      IN  [x EXCEPT !.items = VisibleItems(x, all(f), unread')]
  BY DEF Arrive
<1> DEFINE seq == VisibleItems(v, all(f), unread')
<1>3. ui' = IF ui.feed # f THEN u ELSE [v EXCEPT !.items = seq]
  <2> DEFINE x == [r EXCEPT !.replaced = @ \/ ui.screen = "article"]
  <2>1. x = v
    BY <1>21, Zenon
  <2>2. ui' = IF ui.feed # f THEN u ELSE [x EXCEPT !.items = VisibleItems(x, all(f), unread')]
    BY <1>2
  <2> HIDE DEF x
  <2>. QED
    BY <2>1, <2>2
<1>4. fs \in Seq(Feeds)
  BY VisibleFeedsTyped
<1>5. count[f] \in Nat /\ MaxArticles[f] \in Nat
  BY <1>1, ListsAssumption DEF Counts
<1>6. count'[f] = count[f] + 1 /\ \A g \in Feeds : g # f => count'[g] = count[g]
  BY <1>1, <1>2 DEF Counts
<1>7. Counts(count')
  <2>1. count' \in [Feeds -> Nat]
    BY <1>1, <1>2, <1>5 DEF Counts
  <2>2. ASSUME NEW g \in Feeds PROVE count'[g] <= MaxArticles[g]
    <3>1. CASE g = f
      <4>1. count[f] + 1 <= MaxArticles[f]
        BY <1>2, <1>5
      <4>. QED
        BY <1>6, <3>1, <4>1
    <3>2. CASE g # f
      BY <1>1, <1>6, <3>2 DEF Counts
    <3>. QED
      BY <3>1, <3>2
  <2>. QED
    BY <2>1, <2>2 DEF Counts
<1>8. Existing' = ExistingIn(count')
  BY DEF Existing
<1>9. Existing \subseteq Existing'
  <2> SUFFICES ASSUME NEW a \in Existing PROVE a \in Existing'
    OBVIOUS
  <2>1. a \in Articles /\ a[2] <= count[a[1]]
    BY DEF Existing, ExistingIn
  <2>2. PICK g \in Feeds : a \in {g} \X (1 .. MaxArticles[g])
    BY <2>1 DEF Articles
  <2>3. a[1] = g /\ a[2] \in 1 .. MaxArticles[g] /\ MaxArticles[g] \in Nat
    BY <2>2, ListsAssumption
  <2>4. a[2] \in Int /\ count[g] \in Nat /\ a[2] <= count[g]
    BY <1>1, <2>1, <2>3 DEF Counts
  <2>5. a[2] <= count'[g]
    <3>1. count'[g] = count[g] \/ count'[g] = count[g] + 1
      BY <1>6
    <3>. QED
      BY <2>4, <3>1
  <2>. QED
    BY <1>8, <2>1, <2>3, <2>5 DEF ExistingIn
<1>10. <<f, count[f] + 1>> \in Existing'
  <2>1. count[f] + 1 \in 1 .. MaxArticles[f]
    BY <1>2, <1>5
  <2>2. <<f, count[f] + 1>> \in Articles
    BY <2>1 DEF Articles
  <2>3. count[f] + 1 <= count'[f]
    BY <1>5, <1>6
  <2>. QED
    BY <1>8, <2>2, <2>3 DEF ExistingIn
<1>11. unread' \subseteq Existing'
  BY <1>1, <1>2, <1>9, <1>10
<1>12. all(f) = ArticlesIn(count', f)
  BY DEF ArticlesIn
<1> HIDE DEF fs, all
<1> DEFINE Same(x) == /\ IsUi(x) /\ x.beyond = ui.beyond /\ x.screen = ui.screen
                      /\ x.feeds = fs /\ x.feedpos = ui.feedpos /\ x.named = ui.named /\ x.old_itempos = ui.old_itempos
                      /\ x.itempos = ui.itempos /\ x.feed = ui.feed /\ x.article = ui.article
                      /\ x.feed_kept = ui.feed_kept /\ x.zero_feedpos = ui.zero_feedpos /\ x.item_kept = ui.item_kept
                      /\ x.show_items = ui.show_items /\ x.tag = ui.tag /\ x.feed_filter = ui.feed_filter
<1>13. Same(u) /\ u.items = ui.items /\ u.replaced = ui.replaced /\ u.item_filter = ui.item_filter
  BY <1>1 DEF IsUi, Fields
<1> HIDE DEF u, filter, repl
<1>22. Same(r) /\ r.item_filter = filter
  BY <1>13, <1>20 DEF IsUi, Fields
<1> HIDE DEF r
<1>23. Same(v) /\ v.replaced = repl /\ v.item_filter = filter
  BY <1>22 DEF IsUi, Fields
<1>14. seq \in Seq(Existing') /\ (~v.item_filter => seq = all(f))
  <2> HIDE DEF v
  <2>1. all(f) \in Seq(Existing')
    BY <1>7, <1>8, <1>12, ArticlesInAll
  <2>2. Filtered(all(f), unread') \in Seq(Existing' \cap unread')
    BY <2>1, FilteredElements
  <2>3. Filtered(all(f), unread') \in Seq(Existing')
    BY <2>2
  <2>. QED
    BY <2>1, <2>3 DEF VisibleItems
<1> HIDE DEF v, seq
<1>15. ui.feed # f => ui' = u
  BY <1>3
<1>16. ui.feed = f => Same(ui') /\ ui'.replaced = repl /\ ui'.item_filter = filter /\ ui'.items = seq
  <2> SUFFICES ASSUME ui.feed = f PROVE Same(ui') /\ ui'.replaced = repl /\ ui'.item_filter = filter /\ ui'.items = seq
    OBVIOUS
  <2>1. ui' = [v EXCEPT !.items = seq]
    BY <1>3
  <2>. QED
    BY <1>23, <2>1 DEF IsUi, Fields
<1>24. Same(ui')
  BY <1>13, <1>15, <1>16
<1>25. ui'.items \in Seq(Existing') /\ (ui.feed # f => ui'.items = ui.items /\ ui'.item_filter = ui.item_filter /\ ui'.replaced = ui.replaced)
  <2>1. ui.items \in Seq(Existing')
    BY <1>1, <1>9
  <2>. QED
    BY <1>13, <1>14, <1>15, <1>16, <2>1
<1>26. ui.feed = f /\ ~ui'.item_filter => ui'.items = all(f)
  BY <1>14, <1>16, <1>23
<1>17. Typed(ui)'
  BY <1>1, <1>4, <1>24, <1>25 DEF Typed, Loose
<1>18. AtRest(ui)'
  <2>1. FeedsAtRest(ui) /\ (ui.screen # "feeds" => ItemsAtRest(ui))
        /\ (ui.screen = "article" => ui.article \in Existing
              /\ (~ui.replaced => ui.itempos < Len(ui.items) /\ ui.items[ui.itempos + 1] = ui.article))
    BY <1>1 DEF AtRest
  <2>2. FeedsAtRest(ui)'
    BY <1>24, <2>1 DEF FeedsAtRest
  <2>3. ASSUME ui'.screen # "feeds"
        PROVE  ItemsAtRest(ui)'
    <3>1. ItemsAtRest(ui) /\ ui.feed \in Feeds
      BY <1>1, <1>24, <2>1, <2>3 DEF Typed
    <3>2. ui'.item_kept = NoPos /\ (ui'.show_items => ~ui'.item_filter)
      <4>1. CASE ui.feed = f
        BY <1>16, <1>19, <1>24, <3>1, <4>1 DEF ItemsAtRest
      <4>2. CASE ui.feed # f
        BY <1>24, <1>25, <3>1, <4>2 DEF ItemsAtRest
      <4>. QED
        BY <4>1, <4>2
    <3>3. ASSUME ~ui'.item_filter
          PROVE  ui'.items = ArticlesIn(count', ui'.feed)
      <4>1. CASE ui.feed = f
        BY <1>12, <1>24, <1>26, <3>3, <4>1
      <4>2. CASE ui.feed # f
        <5>1. ui'.items = ArticlesOf(ui.feed) /\ count'[ui.feed] = count[ui.feed]
          BY <1>6, <1>25, <3>1, <3>3, <4>2 DEF ItemsAtRest
        <5>. QED
          BY <1>24, <5>1 DEF ArticlesOf, ArticlesIn
      <4>. QED
        BY <4>1, <4>2
    <3>4. ArticlesOf(ui.feed)' = ArticlesIn(count', ui'.feed)
      BY DEF ArticlesOf, ArticlesIn
    <3>5. ~ui'.item_filter => ui'.items = ArticlesOf(ui.feed)'
      BY <3>3, <3>4
    <3>. QED
      BY <3>2, <3>5 DEF ItemsAtRest
  <2>4. ASSUME ui'.screen = "article"
        PROVE  /\ ui'.article \in Existing'
               /\ ~ui'.replaced => ui'.itempos < Len(ui'.items) /\ ui'.items[ui'.itempos + 1] = ui'.article
    <3>1. ui.screen = "article" /\ ui.article \in Existing
          /\ (~ui.replaced => ui.itempos < Len(ui.items) /\ ui.items[ui.itempos + 1] = ui.article)
      BY <1>24, <2>1, <2>4
    <3>2. ASSUME ~ui'.replaced PROVE ~ui.replaced /\ ui.feed # f
      <4>1. repl
        BY <3>1 DEF repl
      <4>2. ui.feed # f
        BY <1>16, <3>2, <4>1
      <4>. QED
        BY <1>25, <3>2, <4>2
    <3>3. ~ui'.replaced => ui'.items = ui.items
      BY <1>25, <3>2
    <3>. QED
      BY <1>9, <1>24, <3>1, <3>2, <3>3
  <2>. QED
    BY <2>2, <2>3, <2>4 DEF AtRest
<1>27. FeedsAreCurrent'
  BY <1>24 DEF FeedsAreCurrent, VisibleFeeds, fs
<1>. QED
  BY <1>7, <1>11, <1>17, <1>18, <1>27 DEF ListsInv, CountsInv

LEMMA InitListsInv == Init => ListsInv
<1> SUFFICES ASSUME Init PROVE ListsInv
  OBVIOUS
<1>1. count = Initially /\ unread \in SUBSET {a \in Articles : a[2] <= Initially[a[1]]}
  BY DEF Init
<1>2. CountsInv /\ unread \subseteq Existing
  BY <1>1, ListsAssumption DEF CountsInv, Counts, Existing, ExistingIn
<1>3. PICK f \in BOOLEAN, i \in BOOLEAN :
        LET u == [FirstUi EXCEPT !.show_feeds = f, !.show_items = i, !.feed_filter = ~f]
        IN  ui = ShownFeeds(u, unread).ui
  BY DEF Init
<1> DEFINE u == [FirstUi EXCEPT !.show_feeds = f, !.show_items = i, !.feed_filter = ~f]
           s == ShownFeeds(u, unread).ui
<1>4. ui = s
  BY <1>3
<1>5. /\ IsUi(FirstUi) /\ FirstUi.screen = "feeds" /\ FirstUi.beyond = FALSE /\ FirstUi.feeds = <<>>
      /\ FirstUi.feedpos = 0 /\ FirstUi.named = NoFeed /\ FirstUi.redraw = TRUE /\ FirstUi.zero_feedpos = FALSE
      /\ FirstUi.feed_kept = NoFeed /\ FirstUi.items = <<>> /\ FirstUi.itempos = 0 /\ FirstUi.old_itempos = NoPos
  BY DEF FirstUi, IsUi, Fields
<1>6. /\ IsUi(u) /\ u.screen = "feeds" /\ u.beyond = FALSE /\ u.feeds = <<>>
      /\ u.feedpos = 0 /\ u.named = NoFeed /\ u.redraw = TRUE /\ u.zero_feedpos = FALSE
      /\ u.feed_kept = NoFeed /\ u.items = <<>> /\ u.itempos = 0 /\ u.old_itempos = NoPos
  BY <1>5 DEF IsUi, Fields
<1> HIDE DEF u
<1>7. Typed(u)
  <2>1. <<>> \in Seq(Existing) /\ <<>> \in Seq(Feeds) /\ 0 \in Nat
    OBVIOUS
  <2>. QED
    BY <1>6, <2>1 DEF Typed, Loose
<1>8. Ready(u, unread)
  BY <1>6 DEF Ready
<1>9. Typed(s) /\ FeedsAtRest(s) /\ s.screen = "feeds" /\ ~s.beyond /\ s.feeds = VisibleFeeds(s, unread)
  BY <1>6, <1>7, <1>8, ShownFeedsAtRest
<1> HIDE DEF s
<1>10. AtRest(s)
  BY <1>9 DEF AtRest
<1>11. FeedsAreCurrent
  BY <1>4, <1>9 DEF FeedsAreCurrent
<1>. QED
  BY <1>2, <1>4, <1>9, <1>10, <1>11 DEF ListsInv

LEMMA NextListsInv == ListsInv /\ [Next]_vars => ListsInv'
<1> SUFFICES ASSUME ListsInv, [Next]_vars PROVE ListsInv'
  OBVIOUS
<1>1. CASE Keys
  BY <1>1, OpenFeedKeeps, MarkFeedReadKeeps, MarkAllFeedsReadKeeps, ToggleShowReadFeedsKeeps, TagKeeps,
     MoveInFeedsKeeps, OpenItemKeeps, MoveInItemsKeeps, RandomItemKeeps, MarkListReadKeeps, FilterItemsKeeps,
     QuitItemsKeeps, ArticleKeysKeep, RandomUnreadKeeps, ClosedKeeps DEF Keys
<1>2. CASE Arrive \/ Timeout
  BY <1>2, ArriveKeeps, TimeoutKeeps
<1>3. CASE UNCHANGED vars
  <2>1. cfg' = cfg /\ count' = count /\ unread' = unread /\ ui' = ui
    BY <1>3 DEF vars
  <2>2. Existing' = Existing /\ CountsInv'
    BY <2>1 DEF Existing, CountsInv, ListsInv
  <2>3. Typed(ui)'
    <3>1. Typed(ui)
      BY DEF ListsInv
    <3>. QED
      BY <2>1, <2>2, <3>1 DEF Typed, Loose
  <2>4. AtRest(ui)'
    <3>1. AtRest(ui)
      BY DEF ListsInv
    <3>. QED
      BY <2>1, <2>2, <3>1 DEF AtRest, FeedsAtRest, ItemsAtRest, ArticlesOf
  <2>5. FeedsAreCurrent'
    <3>1. FeedsAreCurrent
      BY DEF ListsInv
    <3>. QED
      BY <2>1, <3>1 DEF FeedsAreCurrent, On
  <2>6. unread' \subseteq Existing'
    BY <2>1, <2>2 DEF ListsInv
  <2>. QED
    BY <2>2, <2>3, <2>4, <2>5, <2>6 DEF ListsInv
<1>. QED
  BY <1>1, <1>2, <1>3 DEF Next

(* In every state of any instance the fields have their types, the cursors   *)
(* are on lines, the article list has what its filter lets through, an       *)
(* article that is shown is where the list's cursor is unless a reload has   *)
(* replaced the list, and the feed list is current (feedlist_formaction,     *)
(* itemlist_formaction, itemview_formaction).                                *)
THEOREM ListsInvariant == Spec => []ListsInv
BY InitListsInv, NextListsInv, PTL DEF Spec

-----------------------------------------------------------------------------
(* While the feed list is on the screen it has the feeds that the tag and    *)
(* the filter let through, for any feeds and configurations (do_redraw of    *)
(* feedlist_formaction, controller::update_feedlist).                        *)
THEOREM FeedListIsCurrent == Spec => []FeedsAreCurrent
<1>1. ListsInv => FeedsAreCurrent
  BY DEF ListsInv
<1>. QED
  BY <1>1, ListsInvariant, PTL

LEMMA QuitArticleGoesBack ==
  ASSUME ListsInv, On("article"), ui.show_items, ~ui.replaced, QuitArticle
  PROVE  ui'.itempos < Len(ui'.items) /\ ui'.items[ui'.itempos + 1] = ui.article
<1> DEFINE v == Closed(ui)
           s == ShownItems(v, Read)
           x == IF v.stale THEN VisibleItems(v, ArticlesOf(v.feed), Read) ELSE v.items
<1>1. Settled(ui) /\ ~ui.beyond /\ ItemsAtRest(ui) /\ CountsInv /\ AtRest(ui) /\ ui.screen = "article"
  BY ListFacts DEF On
<1>2. /\ Typed(v) /\ Ready(v, Read) /\ v.screen = "items" /\ v.stale = TRUE /\ ~v.beyond /\ v.feed = ui.feed
      /\ v.item_kept = NoPos /\ ~v.item_filter /\ v.itempos = ui.itempos
  BY <1>1, ClosedReady
<1>3. Show(v, Read)
  BY DEF QuitArticle
<1> HIDE DEF v
<1>4. ~ui.item_filter /\ ui.items = ArticlesOf(ui.feed)
  BY <1>1 DEF ItemsAtRest
<1>5. x = ui.items
  BY <1>2, <1>4 DEF VisibleItems
<1>6. ui.itempos < Len(ui.items) /\ ui.items[ui.itempos + 1] = ui.article
  BY <1>1 DEF AtRest
<1>7. v.item_kept = NoPos /\ v.itempos < Len(x) => s.ui.itempos = v.itempos /\ s.ui.items = x
  BY <1>1, <1>2, ShownItemsAtRest
<1>8. Shown(v, Read) = s
  <2>1. v.screen # "feeds" /\ v.screen # "article"
    BY <1>2
  <2>. QED
    BY <1>2, <2>1, Zenon DEF Shown
<1>9. ui' = s.ui
  BY <1>3, <1>8 DEF Show
<1> HIDE DEF x, s
<1>. QED
  BY <1>2, <1>5, <1>6, <1>7, <1>9

LEMMA QuitItemsGoesBack ==
  ASSUME ListsInv, On("items"), QuitItems, ui.feed \in Range(ui'.feeds)
  PROVE  ui'.named = ui.feed
<1> DEFINE v == [MarkedFeed(ui) EXCEPT !.screen = "feeds", !.redraw = TRUE, !.feed = NoFeed, !.items = <<>>, !.itempos = 0]
           s == ShownFeeds(v, unread).ui
           fs == VisibleFeeds(ui, unread)
<1>1. Show(v, unread)
  BY DEF QuitItems
<1>2. /\ Typed(v) /\ Ready(v, unread) /\ v.screen = "feeds" /\ FeedsAtRest(v)
      /\ v.tag = ui.tag /\ v.feed_filter = ui.feed_filter
      /\ (\E k \in 1 .. Len(fs) : fs[k] = ui.feed) =>
           v.feedpos \in 0 .. Len(fs) - 1 /\ fs[v.feedpos + 1] = ui.feed
  BY QuitItemsReady
<1>3. fs \in Seq(Feeds)
  BY VisibleFeedsTyped
<1>4. VisibleFeeds(v, unread) = fs
  BY <1>2 DEF VisibleFeeds
<1>5. ~v.beyond
  <2>1. IsUi(MarkedFeed(ui)) /\ MarkedFeed(ui).beyond = ui.beyond
    <3> DEFINE w == [ui EXCEPT !.feeds = fs]
    <3>1. IsUi(ui)
      BY ListFacts
    <3>2. MarkedFeed(ui) = w \/ \E p : MarkedFeed(ui) = [w EXCEPT !.feedpos = p]
      BY DEF MarkedFeed
    <3> HIDE DEF fs
    <3>3. IsUi(w) /\ w.beyond = ui.beyond
      BY <3>1 DEF IsUi, Fields
    <3> HIDE DEF w
    <3>4. \A p : IsUi([w EXCEPT !.feedpos = p]) /\ [w EXCEPT !.feedpos = p].beyond = w.beyond
      BY <3>3 DEF IsUi, Fields
    <3>. QED
      BY <3>2, <3>3, <3>4
  <2> DEFINE m == MarkedFeed(ui)
  <2> HIDE DEF m
  <2>2. IsUi(m) => [m EXCEPT !.screen = "feeds", !.redraw = TRUE, !.feed = NoFeed, !.items = <<>>, !.itempos = 0].beyond = m.beyond
    BY DEF IsUi, Fields
  <2>3. v.beyond = ui.beyond
    BY <2>1, <2>2 DEF m
  <2>. QED
    BY <2>3 DEF On
<1> HIDE DEF v, fs
<1>6. /\ s.feeds = VisibleFeeds(v, unread)
      /\ FeedsAtRest(v) /\ v.feedpos < Len(s.feeds) => s.named = s.feeds[v.feedpos + 1]
  BY <1>2, <1>5, ShownFeedsAtRest
<1>7. Shown(v, unread) = ShownFeeds(v, unread)
  <2>1. v.screen # "items" /\ v.screen # "article"
    BY <1>2
  <2>. QED
    BY <1>2, <1>5, <2>1, Zenon DEF Shown
<1>8. ui' = s
  BY <1>1, <1>7 DEF Show
<1>9. \E k \in 1 .. Len(fs) : fs[k] = ui.feed
  <2>1. ui'.feeds = fs
    BY <1>4, <1>6, <1>8
  <2>. QED
    BY <1>3, <2>1 DEF Range
<1>10. v.feedpos < Len(fs) /\ fs[v.feedpos + 1] = ui.feed
  <2>1. v.feedpos \in 0 .. Len(fs) - 1 /\ Len(fs) \in Nat
    BY <1>2, <1>3, <1>9
  <2>2. v.feedpos < Len(fs)
    BY <2>1
  <2>. QED
    BY <1>2, <1>9, <2>2
<1>. QED
  BY <1>2, <1>4, <1>6, <1>8, <1>10

(* Leaving an article goes back to its line in the list, and leaving the     *)
(* list to the feed that was left, for any feeds and configurations          *)
(* (itemlist_formaction::recalculate_form,                                   *)
(* feedlist_formaction::mark_pos_if_visible).                                *)
THEOREM LeavingGoesBack == Spec => GoesBack
<1> DEFINE Step ==
      /\ On("article") /\ ui.show_items /\ ~ui.replaced /\ QuitArticle
           => ui'.itempos < Len(ui'.items) /\ ui'.items[ui'.itempos + 1] = ui.article
      /\ On("items") /\ QuitItems /\ ui.feed \in Range(ui'.feeds) => ui'.named = ui.feed
<1>1. ListsInv => Step
  BY QuitArticleGoesBack, QuitItemsGoesBack
<1> HIDE DEF Step
<1>2. ListsInv /\ [Next]_vars => [Step]_vars
  BY <1>1
<1>3. Spec => [][Step]_vars
  BY <1>2, ListsInvariant, PTL DEF Spec
<1>. QED
  BY <1>3 DEF GoesBack, Step

LEMMA NextUnreadFinds ==
  ASSUME ListsInv, On("article"), cfg.next_feed, NextUnread, FeedHits(ui, unread') # {}
  PROVE  On("article")' /\ ui'.article \in unread'
<1> DEFINE r == Goto(ui, Read, "next unread")
           v == Opened(r.ui)
<1>1. Settled(ui) /\ ~ui.beyond /\ CountsInv /\ Read \subseteq Existing
  BY ListFacts, ReadExists
<1>2. Show(IF r.ui.beyond THEN r.ui ELSE IF r.found THEN v ELSE Closed(r.ui), Read)
  BY DEF NextUnread, Left
<1>3. /\ Settled(r.ui)
      /\ cfg.next_feed /\ Read \subseteq Existing /\ FeedHits(ui, Read) # {} =>
           r.found /\ ~r.ui.beyond /\ r.ui.itempos \in ItemHits(r.ui, Read)
  BY <1>1, GotoSettled DEF Ways
<1> HIDE DEF r
<1>4. unread' \subseteq Read
  <2> DEFINE w == IF r.ui.beyond THEN r.ui ELSE IF r.found THEN v ELSE Closed(r.ui)
  <2>1. Typed(w) /\ Ready(w, Read)
    <3>1. CASE r.ui.beyond
      BY <1>3, <3>1 DEF Settled, Ready
    <3>2. CASE ~r.ui.beyond /\ r.found
      <4>1. Typed(v) /\ Ready(v, Read)
        BY <1>3, <3>2, OpenedReady
      <4>. QED
        BY <3>2, <4>1
    <3>3. CASE ~r.ui.beyond /\ ~r.found
      <4>1. Typed(Closed(r.ui)) /\ Ready(Closed(r.ui), Read)
        BY <1>3, <3>3, ClosedReady
      <4>. QED
        BY <3>3, <4>1
    <3>. QED
      BY <3>1, <3>2, <3>3
  <2> HIDE DEF w
  <2>2. Shown(w, Read).unread \subseteq Read
    BY <1>1, <2>1, ShownAtRest
  <2>. QED
    BY <1>2, <2>2 DEF Show, w
<1>5. FeedHits(ui, Read) # {}
  <2>1. FeedHits(ui, unread') \subseteq FeedHits(ui, Read)
    BY <1>4 DEF FeedHits, HasUnread
  <2>. QED
    BY <2>1
<1>6. r.found /\ ~r.ui.beyond /\ r.ui.itempos \in ItemHits(r.ui, Read)
  BY <1>1, <1>3, <1>5
<1>7. ~v.beyond /\ v.screen = "article" /\ v.article \in Read
  BY <1>3, <1>6, OpenedReady
<1> HIDE DEF v
<1>8. Show(v, Read)
  BY <1>2, <1>6
<1>9. Shown(v, Read) = [ui |-> v, unread |-> Read]
  <2>1. v.screen # "feeds" /\ v.screen # "items"
    BY <1>7
  <2>. QED
    BY <1>7, <2>1, Zenon DEF Shown
<1>10. ui' = v /\ unread' = Read
  BY <1>8, <1>9 DEF Show
<1>. QED
  BY <1>7, <1>10 DEF On

(* next-unread of the article view gets to an unread article, with           *)
(* goto-next-feed, as long as one of the feeds in the feed list has one, for *)
(* any feeds (view::get_next_unread).                                        *)
THEOREM NextUnreadGetsToOne == Spec => NextUnreadFindsOne
<1> DEFINE Step == On("article") /\ cfg.next_feed /\ NextUnread /\ FeedHits(ui, unread') # {}
                     => On("article")' /\ ui'.article \in unread'
<1>1. ListsInv => Step
  BY NextUnreadFinds
<1> HIDE DEF Step
<1>2. ListsInv /\ [Next]_vars => [Step]_vars
  BY <1>1
<1>3. Spec => [][Step]_vars
  BY <1>2, ListsInvariant, PTL DEF Spec
<1>. QED
  BY <1>3 DEF NextUnreadFindsOne, Step
-----------------------------------------------------------------------------
(* Questions. The inductive invariant: what a form has asked and been        *)
(* answered is the beginning of its prompts, one answer for each; and no     *)
(* history has an empty line, so that none is skipped when it is read again. *)
Words == Texts \cup {"macro"}
Asked == {":", "phrase", "flags", "url", "title", "desc", "feed"}
Replies == [no : Nat, prompt : Asked, text : Words]
Line == [asks : BOOLEAN, prompts : Seq(Asked), responses : Seq(Replies), finish : DOMAIN Prompts \cup {"none"}, no : Nat]
HistoryOf == [lines : Seq(Words \ {""}), idx : Nat]
Begun(l) == l.finish \in DOMAIN Prompts /\ Len(l.prompts) < Len(Prompts[l.finish])
InOrder(l) ==
  /\ Len(l.responses) + 1 + Len(l.prompts) = Len(Prompts[l.finish])
  /\ \A i \in 1 .. Len(l.responses) :
       l.responses[i].no = l.no /\ l.responses[i].prompt = Prompts[l.finish][i]
QuestionsInv ==
  /\ line \in [AskingForms -> Line] /\ history \in [Histories -> HistoryOf] /\ asked \in Nat
  /\ \A f \in AskingForms : line[f].asks => Begun(line[f])
  /\ \A f \in AskingForms : line[f].asks /\ f \notin mixed => InOrder(line[f])

LEMMA PromptsAre ==
  /\ DOMAIN Prompts = {"cmdline", "search", "flags", "bookmark"}
  /\ \A op \in DOMAIN Prompts : Prompts[op] \in Seq(Asked) /\ Len(Prompts[op]) \in Nat \ {0} /\ Prompts[op] # <<>>
                                /\ DOMAIN Prompts[op] = 1 .. Len(Prompts[op])
<1>1. DOMAIN Prompts = {"cmdline", "search", "flags", "bookmark"}
  BY DEF Prompts
<1>2. \A p \in Asked : <<p>> \in Seq(Asked)
  OBVIOUS
<1>9. \A p, q, r, t \in Asked : <<p, q, r, t>> \in Seq(Asked)
  OBVIOUS
<1>10. <<":">> \in Seq(Asked) /\ <<"phrase">> \in Seq(Asked) /\ <<"flags">> \in Seq(Asked)
       /\ <<"url", "title", "desc", "feed">> \in Seq(Asked)
  BY <1>2, <1>9 DEF Asked
<1>3. /\ Prompts["cmdline"] = <<":">> /\ Prompts["search"] = <<"phrase">> /\ Prompts["flags"] = <<"flags">>
      /\ Prompts["bookmark"] = <<"url", "title", "desc", "feed">>
  BY DEF Prompts
<1>4. Len(<<":">>) = 1 /\ Len(<<"phrase">>) = 1 /\ Len(<<"flags">>) = 1 /\ Len(<<"url", "title", "desc", "feed">>) = 4
  OBVIOUS
<1>5. \A op \in DOMAIN Prompts : Prompts[op] \in Seq(Asked) /\ Len(Prompts[op]) # 0
  <2>1. \A op : op \in DOMAIN Prompts =>
           op = "cmdline" \/ op = "search" \/ op = "flags" \/ op = "bookmark"
    BY <1>1
  <2>2. Len(Prompts["cmdline"]) # 0 /\ Len(Prompts["search"]) # 0 /\ Len(Prompts["flags"]) # 0 /\ Len(Prompts["bookmark"]) # 0
    BY <1>3, <1>4
  <2>3. /\ Prompts["cmdline"] \in Seq(Asked) /\ Prompts["search"] \in Seq(Asked) /\ Prompts["flags"] \in Seq(Asked)
        /\ Prompts["bookmark"] \in Seq(Asked)
    BY <1>3, <1>10
  <2>. QED
    BY <2>1, <2>2, <2>3, Zenon
<1>6. \A s \in Seq(Asked) : Len(s) # 0 => Len(s) \in Nat \ {0} /\ s # <<>> /\ DOMAIN s = 1 .. Len(s)
  OBVIOUS
<1>. QED
  BY <1>1, <1>5, <1>6

\* A line of the history is added, or none.
LEMMA AddedIsHistory ==
  ASSUME NEW h \in HistoryOf, NEW text \in Words
  PROVE  Added(h, text) \in HistoryOf
<1> DEFINE S == Words \ {""}
<1>1. text # "" => text \in S
  OBVIOUS
<1>2. h.lines \in Seq(S)
  BY DEF HistoryOf
<1> HIDE DEF S
<1>3. text # "" => <<text>> \o h.lines \in Seq(S)
  <2>0. \A t \in S : <<t>> \in Seq(S)
    OBVIOUS
  <2>1. text # "" => <<text>> \in Seq(S)
    BY <1>1, <2>0
  <2>. QED
    BY <2>1, <1>2, ConcatProperties
<1>4. (IF text = "" THEN h.lines ELSE <<text>> \o h.lines) \in Seq(S)
  BY <1>2, <1>3
<1>. QED
  BY <1>4 DEF Added, HistoryOf, S

LEMMA FinishKeeps ==
  ASSUME QuestionsInv, NEW f \in AskingForms, NEW l \in Line, NEW op \in DOMAIN Prompts, l.responses # <<>>, Finish(f, l, op)
  PROVE  /\ history' \in [Histories -> HistoryOf] /\ line' = [line EXCEPT ![f] = l]
         /\ finished' = [no |-> l.no, op |-> op, responses |-> l.responses]
<1>1. l.responses[1].text \in Words
  <2>1. l.responses \in Seq(Replies)
    BY DEF Line
  <2>2. l.responses[1] \in Replies
    BY <2>1
  <2>. QED
    BY <2>2 DEF Replies
<1>2. \A h \in Histories : history[h] \in HistoryOf /\ Added(history[h], l.responses[1].text) \in HistoryOf
  BY <1>1, AddedIsHistory DEF QuestionsInv
<1>. QED
  BY <1>2 DEF Finish

\* The assertion.
LEMMA FinishStops ==
  ASSUME NEW f, NEW l, NEW op, Finish(f, l, op), aborted'
  PROVE  op = "bookmark" /\ (Len(l.responses) # 4 \/ l.prompts # <<>>)
<1> DEFINE stops == op = "bookmark" /\ (Len(l.responses) # 4 \/ l.prompts # <<>>)
<1>1. aborted' = stops
  BY DEF Finish
<1> HIDE DEF stops
<1>2. stops
  BY <1>1
<1>. QED
  BY <1>2 DEF stops

\* A bookmark has four prompts, and only a bookmark has more than one.
LEMMA PromptsCount ==
  Len(Prompts["bookmark"]) = 4 /\ \A op \in DOMAIN Prompts : op # "bookmark" => Len(Prompts[op]) = 1
BY DEF Prompts

\* One form's line changes, in order.
LEMMA LineChanges ==
  ASSUME QuestionsInv, NEW f \in AskingForms, NEW l \in Line, line' = [line EXCEPT ![f] = l],
         history' \in [Histories -> HistoryOf], asked' \in Nat, mixed \ {f} \subseteq mixed',
         l.asks => Begun(l), l.asks /\ f \notin mixed' => InOrder(l)
  PROVE  QuestionsInv'
<1>1. line' \in [AskingForms -> Line]
  BY DEF QuestionsInv
<1>2. line'[f] = l /\ \A g \in AskingForms : g # f => line'[g] = line[g]
  BY DEF QuestionsInv
<1>3. \A g \in AskingForms : g # f /\ g \notin mixed' => g \notin mixed
  OBVIOUS
<1>4. \A g \in AskingForms : line'[g].asks => Begun(line'[g])
  BY <1>2 DEF QuestionsInv
<1>5. \A g \in AskingForms : line'[g].asks /\ g \notin mixed' => InOrder(line'[g])
  BY <1>2, <1>3 DEF QuestionsInv
<1>. QED
  BY <1>1, <1>4, <1>5 DEF QuestionsInv, Begun, InOrder

\* The first prompt is shown.
LEMMA StartAsks ==
  ASSUME QuestionsInv, NEW f \in AskingForms, NEW op \in DOMAIN Prompts, Start(f, op)
  PROVE  QuestionsInv' /\ finished' = finished /\ history' = history
<1> DEFINE l == [asks |-> FALSE, prompts |-> Prompts[op], responses |-> <<>>, finish |-> op, no |-> asked + 1]
           m == [l EXCEPT !.asks = TRUE, !.prompts = Tail(@)]
<1>1. Prompts[op] \in Seq(Asked) /\ Prompts[op] # <<>> /\ Len(Prompts[op]) \in Nat \ {0}
  BY PromptsAre
<1>2. l.prompts # <<>> /\ NextQuestion(f, l)
  BY <1>1 DEF Start
<1>3. line' = [line EXCEPT ![f] = m] /\ finished' = finished /\ history' = history
  BY <1>2 DEF NextQuestion
<1>5. Tail(Prompts[op]) \in Seq(Asked) /\ Len(Tail(Prompts[op])) = Len(Prompts[op]) - 1
  BY <1>1
<1>6. asked \in Nat /\ asked' = asked + 1 /\ mixed' = mixed \ {f}
  BY DEF Start, QuestionsInv
<1>7. <<>> \in Seq(Replies) /\ Len(<<>>) = 0
  BY EmptySeq
<1>4. /\ l \in Line /\ l.prompts = Prompts[op] /\ l.finish = op /\ l.no = asked + 1 /\ l.responses = <<>>
  BY <1>1, <1>6, <1>7 DEF Line
<1> HIDE DEF l
<1>8. m \in Line /\ m.finish = op /\ m.no = asked + 1 /\ m.prompts = Tail(Prompts[op]) /\ m.responses = <<>>
  BY <1>4, <1>5 DEF Line
<1> HIDE DEF m
<1>9. Begun(m) /\ InOrder(m)
  BY <1>1, <1>5, <1>7, <1>8 DEF Begun, InOrder
<1>10. asked' \in Nat /\ mixed \ {f} \subseteq mixed' /\ history' \in [Histories -> HistoryOf]
  BY <1>3, <1>6 DEF QuestionsInv
<1>. QED
  BY <1>3, <1>8, <1>9, <1>10, LineChanges

\* With one more answer, a line is a line.
LEMMA EndedLine ==
  ASSUME QuestionsInv, NEW f \in AskingForms, NEW text \in Texts, EndQuestion(f, text)
  PROVE  LET all == Prompts[line[f].finish]
         IN  [line[f] EXCEPT !.responses = Append(@, Reply(line[f].no, all[Len(all) - Len(line[f].prompts)], text))] \in Line
<1> DEFINE o == line[f]
           all == Prompts[o.finish]
           answer0 == Reply(o.no, all[Len(all) - Len(o.prompts)], text)
<1>1. o \in Line /\ Begun(o)
  BY DEF QuestionsInv, EndQuestion
<1>2. /\ o.prompts \in Seq(Asked) /\ o.responses \in Seq(Replies) /\ o.no \in Nat
      /\ all \in Seq(Asked) /\ Len(o.prompts) \in Nat /\ Len(o.prompts) < Len(all) /\ Len(all) \in Nat
  BY SMTT(20), <1>1, PromptsAre DEF Line, Begun
<1>3. answer0 \in Replies
  <2>0. \A a, p \in Nat : p < a => a - p \in 1 .. a
    OBVIOUS
  <2>1. Len(all) - Len(o.prompts) \in 1 .. Len(all)
    <3> HIDE DEF all, o
    <3>. QED
      BY <1>2, <2>0
  <2>2. all[Len(all) - Len(o.prompts)] \in Asked
    BY <1>2, <2>1, ElementOfSeq
  <2>. QED
    BY <1>2, <2>2 DEF Reply, Replies, Words
<1>4. Append(o.responses, answer0) \in Seq(Replies)
  BY <1>2, <1>3, AppendProperties
<1> HIDE DEF answer0, all
<1>5. [o EXCEPT !.responses = Append(@, answer0)] \in Line
  BY <1>1, <1>4 DEF Line
<1>. QED
  BY <1>5 DEF o, all, answer0

\* The answer to the prompt that is shown: the next one is, or the question is finished.
LEMMA EndQuestionAnswers ==
  ASSUME QuestionsInv, NEW f \in AskingForms, NEW text \in Texts, EndQuestion(f, text)
  PROVE  /\ QuestionsInv'
         /\ finished' # finished => AfterMacro(f) \/ f \notin mixed
         /\ finished' # finished /\ f \notin mixed =>
              /\ ~aborted' /\ finished'.op \in DOMAIN Prompts
              /\ finished'.responses \in Seq(Replies) /\ Len(finished'.responses) = Len(Prompts[finished'.op])
              /\ \A i \in 1 .. Len(finished'.responses) :
                   finished'.responses[i].no = finished'.no /\ finished'.responses[i].prompt = Prompts[finished'.op][i]
<1> DEFINE o == line[f]
           all == Prompts[o.finish]
           answer0 == Reply(o.no, all[Len(all) - Len(o.prompts)], text)
           l == [o EXCEPT !.responses = Append(@, answer0)]
<1>1. o \in Line /\ o.asks /\ Begun(o) /\ (f \notin mixed => InOrder(o))
  BY DEF QuestionsInv, EndQuestion
<1>2. NextQuestion(f, l) /\ asked' = asked /\ mixed' = mixed
  BY DEF EndQuestion
<1>3. /\ o.prompts \in Seq(Asked) /\ o.responses \in Seq(Replies) /\ o.no \in Nat /\ o.finish \in DOMAIN Prompts
      /\ all \in Seq(Asked) /\ Len(o.prompts) \in Nat /\ Len(o.prompts) < Len(all) /\ Len(all) \in Nat
  BY SMTT(20), <1>1, PromptsAre DEF Line, Begun
<1>4. answer0 \in Replies /\ answer0.no = o.no /\ answer0.prompt = all[Len(all) - Len(o.prompts)]
  <2>0. \A a, p \in Nat : p < a => a - p \in 1 .. a
    OBVIOUS
  <2>1. Len(all) - Len(o.prompts) \in 1 .. Len(all)
    <3> HIDE DEF all, o
    <3>. QED
      BY <1>3, <2>0
  <2>2. all[Len(all) - Len(o.prompts)] \in Asked
    BY <1>3, <2>1, ElementOfSeq
  <2>. QED
    BY <1>3, <2>2 DEF Reply, Replies, Words
<1> DEFINE rs == Append(o.responses, answer0)
<1>5. rs \in Seq(Replies) /\ Len(rs) = Len(o.responses) + 1 /\ rs # <<>>
      /\ (\A i \in 1 .. Len(o.responses) : rs[i] = o.responses[i]) /\ rs[Len(rs)] = answer0 /\ Len(o.responses) \in Nat
  <2> DEFINE old == o.responses
  <2>1. old \in Seq(Replies) /\ answer0 \in Replies /\ rs = Append(old, answer0)
    BY <1>3, <1>4
  <2> HIDE DEF old, answer0, rs
  <2>2. /\ rs \in Seq(Replies) /\ rs # <<>> /\ Len(rs) = Len(old) + 1 /\ Len(old) \in Nat
        /\ \A i \in 1 .. Len(old) : rs[i] = old[i]
        /\ rs[Len(old) + 1] = answer0
    BY <2>1, AppendProperties, LenProperties
  <2>. QED
    BY <2>2 DEF old
<1>6. f \notin mixed => \A i \in 1 .. Len(rs) : rs[i].no = o.no /\ rs[i].prompt = all[i]
  <2>. SUFFICES ASSUME f \notin mixed, NEW i \in 1 .. Len(rs) PROVE rs[i].no = o.no /\ rs[i].prompt = all[i]
    OBVIOUS
  <2>1. Len(o.responses) + 1 + Len(o.prompts) = Len(all)
        /\ \A j \in 1 .. Len(o.responses) : o.responses[j].no = o.no /\ o.responses[j].prompt = all[j]
    BY <1>1 DEF InOrder
  <2>2. i \in 1 .. Len(o.responses) \/ i = Len(rs)
    BY <1>5
  <2>0. \A a, b, p, r \in Nat : b + 1 + p = a /\ r = b + 1 => r = a - p
    OBVIOUS
  <2>3. Len(rs) = Len(all) - Len(o.prompts)
    <3> HIDE DEF all, o, rs
    <3>1. Len(rs) \in Nat /\ Len(o.responses) \in Nat /\ Len(o.prompts) \in Nat /\ Len(all) \in Nat
      BY <1>3, <1>5
    <3>2. Len(o.responses) + 1 + Len(o.prompts) = Len(all) /\ Len(rs) = Len(o.responses) + 1
      BY <2>1, <1>5
    <3>. QED
      BY <2>0, <3>1, <3>2
  <2> HIDE DEF rs, answer0, all, o
  <2>. QED
    BY <2>1, <2>2, <2>3, <1>4, <1>5
<1>7. l \in Line /\ l.asks /\ l.prompts = o.prompts /\ l.responses = rs /\ l.finish = o.finish /\ l.no = o.no
  <2> HIDE DEF answer0
  <2>. QED
    BY <1>1, <1>5 DEF Line
<1>8. CASE l.prompts # <<>>
  <2> DEFINE m == [l EXCEPT !.asks = TRUE, !.prompts = Tail(@)]
  <2>1. line' = [line EXCEPT ![f] = m] /\ finished' = finished /\ history' = history
    BY <1>2, <1>8 DEF NextQuestion
  <2>2. Tail(o.prompts) \in Seq(Asked) /\ Len(Tail(o.prompts)) = Len(o.prompts) - 1 /\ Len(o.prompts) # 0
    BY <1>3, <1>7, <1>8
  <2> HIDE DEF l, rs, all, answer0
  <2>3. m \in Line /\ m.prompts = Tail(o.prompts) /\ m.responses = rs /\ m.finish = o.finish /\ m.no = o.no
    BY <1>7, <2>2 DEF Line
  <2> HIDE DEF m
  <2>4. Begun(m)
    BY <1>3, <2>2, <2>3 DEF Begun, all
  <2>5. f \notin mixed => InOrder(m)
    <3>1. f \notin mixed => Len(o.responses) + 1 + Len(o.prompts) = Len(all)
      BY <1>1 DEF InOrder, all
    <3>2. f \notin mixed => Len(rs) + 1 + Len(Tail(o.prompts)) = Len(all)
      <4> DEFINE t == Tail(o.prompts)
      <4>1. Len(rs) = Len(o.responses) + 1 /\ Len(o.responses) \in Nat
        BY <1>5
      <4>2. Len(t) = Len(o.prompts) - 1 /\ Len(o.prompts) \in Nat
        BY <1>3, <2>2
      <4> HIDE DEF t, o
      <4>3. f \notin mixed => Len(rs) + 1 + Len(t) = Len(all)
        <5> SUFFICES ASSUME f \notin mixed PROVE Len(rs) + 1 + Len(t) = Len(all)
          OBVIOUS
        <5> DEFINE a == Len(o.responses)
                   b == Len(o.prompts)
                   c == Len(all)
                   r == Len(rs)
                   w == Len(t)
        <5>1. a + 1 + b = c /\ r = a + 1 /\ a \in Nat /\ w = b - 1 /\ b \in Nat
          BY <3>1, <4>1, <4>2
        <5> HIDE DEF a, b, c, r, w
        <5>2. r + 1 + w = c
          BY <5>1
        <5>. QED
          BY <5>2 DEF c, r, w
      <4>. QED
        BY <4>3 DEF t
    <3>. QED
      BY <1>6, <2>3, <3>2 DEF InOrder, all
  <2>6. asked' \in Nat /\ mixed \ {f} \subseteq mixed' /\ history' \in [Histories -> HistoryOf]
    BY <1>2, <2>1 DEF QuestionsInv
  <2>. QED
    BY <1>2, <2>1, <2>3, <2>4, <2>5, <2>6, LineChanges
<1>9. CASE l.prompts = <<>>
  <2> DEFINE m == [l EXCEPT !.asks = FALSE]
  <2>1. Finish(f, m, l.finish)
    BY <1>2, <1>9 DEF NextQuestion
  <2> HIDE DEF l, rs, all, answer0
  <2>2. m \in Line /\ ~m.asks /\ m.responses = rs /\ m.no = o.no /\ m.prompts = <<>>
    BY <1>7, <1>9 DEF Line
  <2> HIDE DEF m
  <2>3. history' \in [Histories -> HistoryOf] /\ line' = [line EXCEPT ![f] = m]
        /\ finished' = [no |-> m.no, op |-> l.finish, responses |-> m.responses]
    BY <1>3, <1>5, <1>7, <2>1, <2>2, FinishKeeps
  <2>4. asked' \in Nat /\ mixed \ {f} \subseteq mixed'
    BY <1>2 DEF QuestionsInv
  <2>5. QuestionsInv'
    BY <2>2, <2>3, <2>4, LineChanges
  <2>6. finished'.no = o.no /\ finished'.op = o.finish /\ finished'.responses = rs
    BY <1>7, <2>2, <2>3
  <2>7. f \notin mixed => Len(rs) = Len(all)
    <3>1. f \notin mixed => Len(o.responses) + 1 + Len(o.prompts) = Len(all)
      BY <1>1 DEF InOrder, all
    <3>2. Len(o.prompts) = 0
      BY <1>7, <1>9
    <3>3. Len(o.responses) \in Nat /\ Len(rs) = Len(o.responses) + 1
      BY <1>5
    <3> HIDE DEF o
    <3>. QED
      BY <3>1, <3>2, <3>3
  <2>8. f \notin mixed => ~aborted'
    <3>. SUFFICES ASSUME aborted', f \notin mixed
                  PROVE  FALSE
      OBVIOUS
    <3>1. l.finish = "bookmark" /\ (Len(m.responses) # 4 \/ m.prompts # <<>>)
      BY <2>1, FinishStops
    <3>2. o.finish = "bookmark" => Len(all) = 4
      BY PromptsCount DEF all
    <3>. QED
      BY <1>7, <2>2, <2>7, <3>1, <3>2
  <2>9. f \in mixed => AfterMacro(f)
    <3>1. line'[f] = m
      BY <2>3 DEF QuestionsInv
    <3>. QED
      BY <1>1, <2>2, <3>1 DEF AfterMacro
  <2>. QED
    BY <1>3, <1>5, <1>6, <2>5, <2>6, <2>7, <2>8, <2>9 DEF all
<1>. QED
  BY <1>8, <1>9

\* A macro answers all prompts of its operation.
LEMMA MacroAnswers ==
  ASSUME QuestionsInv, NEW f \in AskingForms, NEW op \in DOMAIN Prompts, Macro(f, op)
  PROVE  /\ QuestionsInv'
         /\ finished'.op = op
         /\ finished'.responses \in Seq(Replies) /\ Len(finished'.responses) = Len(Prompts[finished'.op])
         /\ \A i \in 1 .. Len(finished'.responses) :
              finished'.responses[i].no = finished'.no /\ finished'.responses[i].prompt = Prompts[finished'.op][i]
         /\ aborted' => op = "bookmark" /\ line[f].prompts # <<>>
         /\ line'[f].prompts = line[f].prompts
<1> DEFINE o == line[f]
           all == Prompts[op]
           R(i) == Reply(asked + 1, all[i], "macro")
           rs == [i \in DOMAIN all |-> R(i)]
           l == [o EXCEPT !.responses = rs]
           m == [l EXCEPT !.no = asked + 1]
<1>1. o \in Line /\ asked \in Nat /\ (o.asks => Begun(o))
  BY DEF QuestionsInv
<1>2. all \in Seq(Asked) /\ Len(all) \in Nat \ {0} /\ DOMAIN all = 1 .. Len(all)
  BY PromptsAre
<1>3. Finish(f, m, op) /\ asked' = asked + 1 /\ mixed' = IF o.asks THEN mixed \cup {f} ELSE mixed
  BY DEF Macro
<1>4. \A i \in 1 .. Len(all) : R(i) \in Replies /\ R(i).no = asked + 1 /\ R(i).prompt = all[i]
  <2>1. \A i \in 1 .. Len(all) : all[i] \in Asked
    BY <1>2, ElementOfSeq
  <2>2. asked + 1 \in Nat /\ "macro" \in Words
    BY <1>1 DEF Words
  <2>. QED
    BY <2>1, <2>2 DEF Reply, Replies
<1> HIDE DEF R, all
<1>5. rs \in Seq(Replies) /\ Len(rs) = Len(all) /\ rs # <<>> /\ \A i \in 1 .. Len(all) : rs[i] = R(i)
  <2>1. rs \in [1 .. Len(all) -> Replies]
    BY <1>2, <1>4
  <2>2. \A i \in 1 .. Len(all) : rs[i] = R(i)
    BY <1>2
  <2> HIDE DEF rs
  <2>. QED
    BY <1>2, <2>1, <2>2
<1> HIDE DEF rs
<1>6. m \in Line /\ m.responses = rs /\ m.no = asked + 1 /\ m.asks = o.asks /\ m.finish = o.finish /\ m.prompts = o.prompts
  <2> HIDE DEF o
  <2>1. l \in Line /\ l.responses = rs /\ l.asks = o.asks /\ l.finish = o.finish /\ l.prompts = o.prompts
    BY <1>1, <1>5 DEF Line
  <2>2. asked + 1 \in Nat
    BY <1>1
  <2> HIDE DEF l
  <2>. QED
    BY <2>1, <2>2 DEF Line
<1> HIDE DEF m, l, o
<1>7. history' \in [Histories -> HistoryOf] /\ line' = [line EXCEPT ![f] = m]
      /\ finished' = [no |-> m.no, op |-> op, responses |-> m.responses]
  BY <1>3, <1>5, <1>6, FinishKeeps
<1>8. asked' \in Nat /\ mixed \ {f} \subseteq mixed' /\ (m.asks => f \in mixed') /\ (m.asks => Begun(m))
  BY <1>1, <1>3, <1>6 DEF Begun
<1>9. QuestionsInv'
  BY <1>6, <1>7, <1>8, LineChanges
<1>10. ASSUME aborted'
       PROVE  op = "bookmark" /\ o.prompts # <<>>
  <2>1. op = "bookmark" /\ (Len(m.responses) # 4 \/ m.prompts # <<>>)
    BY <1>3, <1>10, FinishStops
  <2>2. op = "bookmark" => Len(rs) = 4
    BY <1>5, PromptsCount DEF all
  <2>. QED
    BY <1>6, <2>1, <2>2
<1>11. line'[f].prompts = o.prompts
  BY <1>6, <1>7 DEF QuestionsInv
<1>. QED
  BY <1>4, <1>5, <1>6, <1>7, <1>9, <1>10, <1>11 DEF all, o

-----------------------------------------------------------------------------
\* Reading a history's file adds its lines one after the other.
LEMMA LoadedSteps ==
  ASSUME NEW lines, NEW n \in Nat, DOMAIN lines = 1 .. n
  PROVE  \E h : /\ h[0] = [lines |-> <<>>, idx |-> 0]
                /\ \A k \in 1 .. n : h[k] = Added(h[k - 1], lines[k])
                /\ Loaded(lines) = h[n]
<1> DEFINE start == [lines |-> <<>>, idx |-> 0]
           result == Lines!Folded(start, lines, n, 0, 0)
<1>1. Loaded(lines) = result
  BY DEF Loaded, FoldLeft, MapThenFoldSet, Lines!Folded, Lines!IsFold, Lines!Value, Lines!Highest, AddedIn, Max
<1> HIDE DEF start
<1>2. \E h : /\ h[0] = start
             /\ \A k \in 1 .. n : h[k] = AddedIn(h[k - 1], lines[k], 0, 0)
             /\ result = h[n]
  BY Lines!FoldSteps
<1> HIDE DEF result
<1>. QED
  BY <1>1, <1>2 DEF AddedIn, start

NoneEmpty(S) == "" \notin S
\* What is read again is the newest lines in their order: after j lines of the
\* file the history has the j oldest of them.
LEMMA BackwardsIsLoaded ==
  ASSUME NEW all, NEW n \in Nat, NEW k \in Nat, k <= n, n = Len(all), NEW S, all \in Seq(S), NoneEmpty(S),
         NEW oldest, DOMAIN oldest = 1 .. k, \A i \in 1 .. k : oldest[i] = all[(k - i) + 1]
  PROVE  Loaded(oldest) = [lines |-> SubSeq(all, 1, k), idx |-> 0]
<1> DEFINE After(j) == [lines |-> SubSeq(all, (k - j) + 1, k), idx |-> 0]
<1>1. PICK g : /\ g[0] = [lines |-> <<>>, idx |-> 0]
               /\ \A i \in 1 .. k : g[i] = Added(g[i - 1], oldest[i])
               /\ Loaded(oldest) = g[k]
  BY LoadedSteps
<1> DEFINE T == {j \in Nat : j <= k => g[j] = After(j)}
<1>2. 0 \in T
  <2>1. (k - 0) + 1 \in Int /\ k \in Int /\ (k - 0) + 1 > k
    OBVIOUS
  <2>2. SubSeq(all, (k - 0) + 1, k) = <<>>
    BY <2>1, SubSeqEmpty
  <2>. QED
    BY <1>1, <2>2
<1>3. ASSUME NEW j \in Nat, j \in T PROVE j + 1 \in T
  <2> SUFFICES ASSUME j + 1 <= k PROVE g[j + 1] = After(j + 1)
    OBVIOUS
  <2>1. j + 1 \in 1 .. k /\ (j + 1) - 1 = j /\ j <= k
    OBVIOUS
  <2>2. g[j] = After(j)
    BY <1>3, <2>1
  <2> DEFINE p == (k - (j + 1)) + 1
  <2>3. p \in 1 .. n /\ p \in 1 .. k /\ k \in p .. n /\ p + 1 = (k - j) + 1
    BY <2>1
  <2>4. g[j + 1] = Added(After(j), all[p])
    BY <1>1, <2>1, <2>2
  <2> HIDE DEF p
  <2>5. SubSeq(all, p, k) = <<all[p]>> \o SubSeq(all, p + 1, k)
    BY <2>3, SubSeqRecursiveFirst
  <2>6. all[p] # ""
    <3>1. all[p] \in S
      BY <2>3, ElementOfSeq
    <3>. QED
      BY <3>1 DEF NoneEmpty
  <2>7. Added(After(j), all[p]) = [lines |-> <<all[p]>> \o SubSeq(all, (k - j) + 1, k), idx |-> 0]
    BY <2>6 DEF Added
  <2>8. Added(After(j), all[p]) = [lines |-> SubSeq(all, p, k), idx |-> 0]
    BY <2>3, <2>5, <2>7
  <2>. QED
    BY <2>4, <2>8 DEF p
<1>4. k \in T
  <2> HIDE DEF T
  <2>. QED
    BY <1>2, <1>3, Lines!Induction
<1>5. g[k] = After(k)
  BY <1>4
<1>6. (k - k) + 1 = 1
  OBVIOUS
<1>. QED
  BY <1>1, <1>5, <1>6

\* The lines that are saved are the newest, the oldest of them first.
LEMMA SavedLinesAre ==
  ASSUME NEW h, NEW S, h.lines \in Seq(S), NEW limit \in Nat, NEW n \in Nat, n = Len(h.lines), NoneEmpty(S)
  PROVE  \E k \in Nat : /\ k = (IF n < limit THEN n ELSE limit) /\ k <= n
                        /\ Loaded(SavedLines(h, limit)) = [lines |-> SubSeq(h.lines, 1, k), idx |-> 0]
                        /\ SubSeq(h.lines, 1, k) \in Seq(S) /\ Len(SubSeq(h.lines, 1, k)) = k
<1> DEFINE k == IF limit > n THEN n ELSE limit
           all == h.lines
           kept == SubSeq(all, 1, k)
           saved == SavedLines(h, limit)
<1>1. k \in Nat /\ k <= n /\ k = (IF n < limit THEN n ELSE limit) /\ \A i \in 1 .. k : i \in 1 .. n
  OBVIOUS
<1>2. saved = Reverse(kept)
  BY DEF SavedLines
<1> HIDE DEF k, saved
<1>3. all \in Seq(S) /\ Len(all) = n
  OBVIOUS
<1> HIDE DEF all
<1>4. \A i \in 1 .. k : all[i] \in S
  BY <1>1, <1>3, ElementOfSeq
<1>5. (IF 1 <= k THEN k - 1 + 1 ELSE 0) = k /\ k - 1 + 1 = k /\ (\A i \in 1 .. k : 1 + i - 1 = i) /\ 1 \in Nat /\ 1 <= k + 1
  BY <1>1
<1>6. /\ SubSeq(all, 1, k) \in Seq(S) /\ Len(SubSeq(all, 1, k)) = IF 1 <= k THEN k - 1 + 1 ELSE 0
      /\ \A i \in 1 .. k - 1 + 1 : SubSeq(all, 1, k)[i] = all[1 + i - 1]
  BY <1>1, <1>4, <1>5, SubSeqProperties
<1>7. kept \in Seq(S) /\ Len(kept) = k /\ \A i \in 1 .. k : kept[i] = all[i]
  BY <1>5, <1>6
<1> HIDE DEF kept
<1>8. saved = [i \in 1 .. k |-> kept[(k - i) + 1]]
  BY <1>2, <1>7 DEF Reverse
<1>9. \A i \in 1 .. k : (k - i) + 1 \in 1 .. k
  BY <1>1
<1>10. DOMAIN saved = 1 .. k /\ \A i \in 1 .. k : saved[i] = all[(k - i) + 1]
  BY <1>7, <1>8, <1>9
<1>11. Loaded(saved) = [lines |-> SubSeq(all, 1, k), idx |-> 0]
  BY <1>1, <1>3, <1>10, BackwardsIsLoaded
<1>. QED
  BY <1>1, <1>7, <1>11 DEF saved, all, kept

\* The history that a session begins with.
LEMMA RestartKeepsHistory ==
  ASSUME QuestionsInv, RestartSession, NEW h \in Histories
  PROVE  /\ history'[h] \in HistoryOf
         /\ history'[h].idx = 0 /\ IsPrefix(history'[h].lines, history[h].lines)
         /\ Len(history'[h].lines) = IF Len(history[h].lines) < Limit THEN Len(history[h].lines) ELSE Limit
<1> DEFINE S == Words \ {""}
           all == history[h].lines
           n == Len(all)
<1>1. history[h] \in HistoryOf
  BY DEF QuestionsInv
<1>2. all \in Seq(S) /\ NoneEmpty(S)
  BY <1>1 DEF HistoryOf, NoneEmpty
<1>3. n \in Nat /\ Limit \in Nat
  <2> HIDE DEF S, all
  <2>. QED
    BY <1>2, QuestionsAssumption, LenProperties
<1>4. history'[h] = Loaded(SavedLines(history[h], Limit))
  BY DEF RestartSession, Histories
<1> HIDE DEF n, S
<1>5. n = Len(history[h].lines)
  BY DEF n
<1>6. PICK k \in Nat : /\ k = (IF n < Limit THEN n ELSE Limit) /\ k <= n
                       /\ Loaded(SavedLines(history[h], Limit)) = [lines |-> SubSeq(history[h].lines, 1, k), idx |-> 0]
                       /\ SubSeq(history[h].lines, 1, k) \in Seq(S) /\ Len(SubSeq(history[h].lines, 1, k)) = k
  BY <1>2, <1>3, <1>5, SavedLinesAre
<1> DEFINE kept == SubSeq(all, 1, k)
<1>7. history'[h] = [lines |-> kept, idx |-> 0]
  BY <1>4, <1>6
<1>8. kept \in Seq(S) /\ Len(kept) = k
  BY <1>6
<1> HIDE DEF all
<1>9. IsPrefix(kept, all)
  BY <1>6, <1>8 DEF IsPrefix, n
<1> HIDE DEF kept
<1>10. history'[h].idx = 0 /\ history'[h].lines = kept /\ 0 \in Nat
  BY <1>7
<1>11. history'[h] \in [lines : Seq(S), idx : Nat]
  BY <1>7, <1>8
<1>. QED
  BY <1>6, <1>8, <1>9, <1>10, <1>11 DEF HistoryOf, S, all, n

LEMMA BrowseKeeps ==
  ASSUME QuestionsInv, NEW f \in AskingForms, BrowseHistory(f)
  PROVE  history' \in [Histories -> HistoryOf] /\ UNCHANGED <<line, asked, finished, mixed>>
<1> DEFINE h == line[f].finish
           old == history[h]
<1>1. h \in Histories /\ UNCHANGED <<line, asked, finished, mixed>>
  BY DEF BrowseHistory
<1>2. old \in HistoryOf
  BY <1>1 DEF QuestionsInv
<1>3. old.idx \in Nat
  BY <1>2 DEF HistoryOf
<1>4. Prev(old).idx \in Nat /\ NextLine(old).idx \in Nat
  BY <1>3 DEF Prev, NextLine
<1>5. \E i \in Nat : history' = [history EXCEPT ![h].idx = i]
  BY <1>4 DEF BrowseHistory
<1>6. PICK i \in Nat : history' = [history EXCEPT ![h].idx = i]
  BY <1>5
<1>7. [old EXCEPT !.idx = i] \in HistoryOf
  <2> HIDE DEF old
  <2>. QED
    BY <1>2 DEF HistoryOf
<1> HIDE DEF h
<1>8. history' = [history EXCEPT ![h] = [old EXCEPT !.idx = i]]
  BY <1>6 DEF QuestionsInv
<1>. QED
  BY <1>1, <1>7, <1>8 DEF QuestionsInv

\* What a form asked and was answered is the beginning of its prompts, and the
\* histories have no empty lines.
THEOREM QuestionsInvariant == QuestionsSpec => []QuestionsInv
<1>1. QuestionsInit => QuestionsInv
  <2> SUFFICES ASSUME QuestionsInit PROVE QuestionsInv
    OBVIOUS
  <2>1. <<>> \in Seq(Asked) /\ <<>> \in Seq(Replies) /\ <<>> \in Seq(Words \ {""})
    BY EmptySeq
  <2>2. Idle \in Line /\ ~Idle.asks /\ [lines |-> <<>>, idx |-> 0] \in HistoryOf
    BY <2>1 DEF Idle, Line, HistoryOf
  <2>3. line \in [AskingForms -> Line] /\ \A f \in AskingForms : ~line[f].asks
    BY <2>2 DEF QuestionsInit
  <2>4. history \in [Histories -> HistoryOf] /\ asked \in Nat
    BY <2>2 DEF QuestionsInit
  <2>. QED
    BY <2>3, <2>4 DEF QuestionsInv
<1>2. QuestionsInv /\ [QuestionsNext]_questionVars => QuestionsInv'
  <2> SUFFICES ASSUME QuestionsInv, [QuestionsNext]_questionVars PROVE QuestionsInv'
    OBVIOUS
  <2>1. ASSUME NEW f \in AskingForms, NEW op \in DOMAIN Prompts, Start(f, op) PROVE QuestionsInv'
    BY <2>1, StartAsks
  <2>2. ASSUME NEW f \in AskingForms, NEW op \in DOMAIN Prompts, Macro(f, op) PROVE QuestionsInv'
    BY <2>2, MacroAnswers
  <2>3. ASSUME NEW f \in AskingForms, NEW t \in Texts, EndQuestion(f, t) PROVE QuestionsInv'
    BY <2>3, EndQuestionAnswers
  <2>4. ASSUME NEW f \in AskingForms, Cancel(f) PROVE QuestionsInv'
    <3> DEFINE m == [line[f] EXCEPT !.asks = FALSE]
    <3>1. line[f] \in Line
      BY DEF QuestionsInv
    <3>2. m \in Line /\ ~m.asks
      BY <3>1 DEF Line
    <3>3. line' = [line EXCEPT ![f] = m]
      BY <2>4 DEF Cancel, QuestionsInv
    <3>4. history' \in [Histories -> HistoryOf] /\ asked' \in Nat /\ mixed \ {f} \subseteq mixed'
      BY <2>4 DEF Cancel, QuestionsInv
    <3> HIDE DEF m
    <3>. QED
      BY <3>2, <3>3, <3>4, LineChanges
  <2>5. ASSUME NEW f \in AskingForms, BrowseHistory(f) PROVE QuestionsInv'
    BY <2>5, BrowseKeeps DEF QuestionsInv
  <2>6. CASE SwitchForm
    BY <2>6 DEF SwitchForm, QuestionsInv
  <2>7. CASE RestartSession
    <3>1. <<>> \in Seq(Asked) /\ <<>> \in Seq(Replies)
      BY EmptySeq
    <3>2. Idle \in Line /\ ~Idle.asks
      BY <3>1 DEF Idle, Line
    <3>3. line' \in [AskingForms -> Line] /\ (\A f \in AskingForms : ~line'[f].asks) /\ asked' = asked
      BY <2>7, <3>2 DEF RestartSession
    <3>4. \A h \in Histories : history'[h] \in HistoryOf
      BY <2>7, RestartKeepsHistory
    <3>5. history' = [h \in Histories |-> Loaded(files'[h])]
      BY <2>7 DEF RestartSession
    <3>6. history' \in [Histories -> HistoryOf]
      BY <3>4, <3>5
    <3>. QED
      BY <3>3, <3>6 DEF QuestionsInv
  <2>8. CASE UNCHANGED questionVars
    BY <2>8 DEF questionVars, QuestionsInv
  <2>9. \A f \in AskingForms : AnswersTo(f) \subseteq Texts
    BY DEF AnswersTo
  <2>. QED
    BY <2>1, <2>2, <2>3, <2>4, <2>5, <2>6, <2>7, <2>8, <2>9 DEF QuestionsNext
<1>. QED
  BY <1>1, <1>2, PTL DEF QuestionsSpec

\* Prompts are left only in a form whose last question, for a bookmark, is not finished:
\* no other operation has more than one prompt.
PromptsInv == \A f \in AskingForms : line[f].prompts # <<>> => f \in unfinished

LEMMA PromptsStep ==
  ASSUME QuestionsInv, PromptsInv, [QuestionsNext]_questionVars
  PROVE  PromptsInv'
<1>1. ASSUME NEW f \in AskingForms, UNCHANGED unfinished, \A g \in AskingForms : line'[g].prompts = line[g].prompts
      PROVE  PromptsInv'
  BY <1>1 DEF PromptsInv
<1>2. ASSUME NEW f \in AskingForms, NEW l, line' = [line EXCEPT ![f] = l], unfinished \ {f} \subseteq unfinished',
             l.prompts # <<>> => f \in unfinished'
      PROVE  PromptsInv'
  <2>1. line'[f] = l /\ \A g \in AskingForms : g # f => line'[g] = line[g]
    BY <1>2 DEF QuestionsInv
  <2>. QED
    BY <1>2, <2>1 DEF PromptsInv
<1>3. ASSUME NEW f \in AskingForms, NEW op \in DOMAIN Prompts, Start(f, op)
      PROVE  PromptsInv'
  <2> DEFINE l == [asks |-> FALSE, prompts |-> Prompts[op], responses |-> <<>>, finish |-> op, no |-> asked + 1]
             m == [l EXCEPT !.asks = TRUE, !.prompts = Tail(@)]
  <2>1. Prompts[op] # <<>> /\ Prompts[op] \in Seq(Asked) /\ Len(Prompts[op]) \in Nat \ {0}
    BY PromptsAre
  <2>2. l.prompts # <<>> /\ NextQuestion(f, l)
    BY <1>3, <2>1 DEF Start
  <2>3. line' = [line EXCEPT ![f] = m] /\ m.prompts = Tail(Prompts[op])
    BY <2>2 DEF NextQuestion
  <2>4. unfinished' = IF op = "bookmark" THEN unfinished \cup {f} ELSE unfinished \ {f}
    BY <1>3 DEF Start
  <2>5. op # "bookmark" => Tail(Prompts[op]) = <<>>
    <3> DEFINE all == Prompts[op]
    <3>1. op # "bookmark" => Len(all) = 1
      BY PromptsCount
    <3>2. all \in Seq(Asked) /\ all # <<>> /\ Len(all) \in Nat \ {0}
      BY <2>1
    <3>4. Tail(all) \in Seq(Asked) /\ Len(Tail(all)) = Len(all) - 1
      BY <3>2
    <3> HIDE DEF all
    <3>3. Len(all) = 1 => Tail(all) = <<>>
      <4> SUFFICES ASSUME Len(all) = 1 PROVE Tail(all) = <<>>
        OBVIOUS
      <4>1. Tail(all) \in Seq(Asked) /\ Len(Tail(all)) = 0
        BY <3>4
      <4> DEFINE rest == Tail(all)
      <4>2. rest \in Seq(Asked) /\ Len(rest) = 0
        BY <4>1
      <4> HIDE DEF rest
      <4>3. rest = <<>>
        BY <4>2
      <4>. QED
        BY <4>3 DEF rest
    <3>. QED
      BY <3>1, <3>3 DEF all
  <2> HIDE DEF m, l
  <2>6. m.prompts # <<>> => f \in unfinished'
    BY <2>3, <2>4, <2>5
  <2>7. unfinished \ {f} \subseteq unfinished'
    BY <2>4
  <2>. QED
    BY <1>2, <2>3, <2>6, <2>7
<1>4. ASSUME NEW f \in AskingForms, NEW op \in DOMAIN Prompts, Macro(f, op)
      PROVE  PromptsInv'
  <2>1. PICK l : line' = [line EXCEPT ![f] = l]
    BY <1>4 DEF Macro, Finish
  <2>2. line'[f] = l /\ line'[f].prompts = line[f].prompts
    BY <1>4, <2>1, MacroAnswers DEF QuestionsInv
  <2>3. UNCHANGED unfinished
    BY <1>4 DEF Macro
  <2>. QED
    BY <1>2, <2>1, <2>2, <2>3 DEF PromptsInv
<1>5. ASSUME NEW f \in AskingForms, NEW text \in Texts, EndQuestion(f, text)
      PROVE  PromptsInv'
  <2> DEFINE answer0 == Reply(line[f].no, Prompts[line[f].finish][Len(Prompts[line[f].finish]) - Len(line[f].prompts)], text)
             l == [line[f] EXCEPT !.responses = Append(@, answer0)]
  <2>1. /\ NextQuestion(f, l)
        /\ unfinished' = IF l.prompts = <<>> THEN unfinished \ {f} ELSE unfinished
    BY <1>5 DEF EndQuestion
  <2>2. l.prompts = line[f].prompts
    BY DEF QuestionsInv, Line
  <2> HIDE DEF l
  <2>3. CASE l.prompts # <<>>
    <3>1. PICK m : line' = [line EXCEPT ![f] = m]
      BY <2>1, <2>3 DEF NextQuestion
    <3>2. f \in unfinished /\ unfinished' = unfinished
      BY <2>1, <2>2, <2>3 DEF PromptsInv
    <3>. QED
      BY <1>2, <3>1, <3>2
  <2>4. CASE l.prompts = <<>>
    <3> DEFINE m == [l EXCEPT !.asks = FALSE]
    <3>1. line' = [line EXCEPT ![f] = m]
      BY <2>1, <2>4 DEF NextQuestion, Finish
    <3>2. m.prompts = <<>>
      <4>1. l \in Line
        BY <1>5, EndedLine DEF l
      <4>. QED
        BY <2>4, <4>1 DEF Line
    <3> HIDE DEF m
    <3>3. unfinished \ {f} \subseteq unfinished'
      BY <2>1
    <3>. QED
      BY <1>2, <3>1, <3>2, <3>3
  <2>. QED
    BY <2>3, <2>4
<1>6. ASSUME NEW f \in AskingForms, Cancel(f)
      PROVE  PromptsInv'
  <2> DEFINE m == [line[f] EXCEPT !.asks = FALSE]
  <2>1. line' = [line EXCEPT ![f] = m] /\ UNCHANGED unfinished
    BY <1>6 DEF Cancel, QuestionsInv
  <2>2. m.prompts = line[f].prompts
    BY DEF QuestionsInv, Line
  <2> HIDE DEF m
  <2>. QED
    BY <1>2, <2>1, <2>2 DEF PromptsInv
<1>7. ASSUME NEW f \in AskingForms, BrowseHistory(f)
      PROVE  PromptsInv'
  BY <1>7 DEF BrowseHistory, PromptsInv
<1>8. CASE SwitchForm
  BY <1>8 DEF SwitchForm, PromptsInv
<1>9. CASE RestartSession
  <2>1. \A f \in AskingForms : line'[f].prompts = <<>>
    BY <1>9 DEF RestartSession, Idle
  <2>. QED
    BY <2>1 DEF PromptsInv
<1>10. CASE UNCHANGED questionVars
  BY <1>10 DEF questionVars, PromptsInv
<1>11. \A f \in AskingForms : AnswersTo(f) \subseteq Texts
  BY DEF AnswersTo
<1>. QED
  BY <1>3, <1>4, <1>5, <1>6, <1>7, <1>8, <1>9, <1>10, <1>11 DEF QuestionsNext

\* What is done with the answers was asked for, but after a macro that answered during
\* the question; and the assertion of formaction.cpp:283, that everything is answered,
\* fails only there, or at a macro in a form whose bookmark was not finished.
THEOREM FinishedIsAnswered == QuestionsSpec => AnswersBelongToQuestion
<1> DEFINE Answered == \A f \in AskingForms : finished' # finished /\ finished' # Nothing /\ top = f /\ ~AfterMacro(f) =>
       /\ OwnAnswers(finished')
       /\ aborted' => finished'.op = "bookmark" /\ Macro(f, "bookmark") /\ f \in unfinished
<1>1. QuestionsInv /\ PromptsInv /\ [QuestionsNext]_questionVars => [Answered]_questionVars
  <2> SUFFICES ASSUME QuestionsInv, PromptsInv, [QuestionsNext]_questionVars,
                      NEW f \in AskingForms, finished' # finished, finished' # Nothing, top = f, ~AfterMacro(f)
               PROVE  /\ OwnAnswers(finished')
                      /\ aborted' => finished'.op = "bookmark" /\ Macro(f, "bookmark") /\ f \in unfinished
    OBVIOUS
  <2> DEFINE InTurn == /\ finished'.responses \in Seq(Replies) /\ Len(finished'.responses) = Len(Prompts[finished'.op])
                       /\ \A i \in 1 .. Len(finished'.responses) :
                            finished'.responses[i].no = finished'.no /\ finished'.responses[i].prompt = Prompts[finished'.op][i]
             Own == /\ InTurn
                    /\ aborted' => finished'.op = "bookmark" /\ Macro(f, "bookmark") /\ f \in unfinished
  <2>1. ASSUME NEW g \in AskingForms, NEW op \in DOMAIN Prompts, Start(g, op) PROVE Own
    BY <2>1, StartAsks
  <2>2. ASSUME NEW g \in AskingForms, NEW op \in DOMAIN Prompts, Macro(g, op) PROVE Own
    <3>1. g = f
      BY <2>2 DEF Macro, OnScreen
    <3>2. InTurn /\ finished'.op = op /\ (aborted' => op = "bookmark" /\ line[f].prompts # <<>>)
      BY <2>2, <3>1, MacroAnswers
    <3> HIDE DEF InTurn
    <3>. QED
      BY <2>2, <3>1, <3>2 DEF PromptsInv
  <2>3. ASSUME NEW g \in AskingForms, NEW t \in Texts, EndQuestion(g, t) PROVE Own
    <3>1. g = f
      BY <2>3 DEF EndQuestion, OnScreen
    <3>. QED
      BY <2>3, <3>1, EndQuestionAnswers
  <2>4. ASSUME NEW g \in AskingForms, Cancel(g) PROVE Own
    BY <2>4 DEF Cancel
  <2>5. ASSUME NEW g \in AskingForms, BrowseHistory(g) PROVE Own
    BY <2>5 DEF BrowseHistory
  <2>6. ASSUME SwitchForm PROVE Own
    BY <2>6 DEF SwitchForm
  <2>7. ASSUME RestartSession PROVE Own
    BY <2>7 DEF RestartSession
  <2>8. ASSUME UNCHANGED questionVars PROVE Own
    BY <2>8 DEF questionVars
  <2> HIDE DEF Own
  <2>9. \A g \in AskingForms : AnswersTo(g) \subseteq Texts
    BY DEF AnswersTo
  <2>10. Own
    BY <2>1, <2>2, <2>3, <2>4, <2>5, <2>6, <2>7, <2>8, <2>9 DEF QuestionsNext
  <2>11. \A s \in Seq(Replies) : DOMAIN s = 1 .. Len(s)
    OBVIOUS
  <2>12. OwnAnswers(finished')
    BY <2>10, <2>11 DEF Own, OwnAnswers
  <2>. QED
    BY <2>10, <2>12 DEF Own
<1>2. QuestionsInit => PromptsInv
  BY DEF QuestionsInit, PromptsInv, Idle
<1>3. QuestionsInv /\ PromptsInv /\ [QuestionsNext]_questionVars => PromptsInv'
  BY PromptsStep
<1> HIDE DEF Answered
<1>4. QuestionsSpec => [][Answered]_questionVars
  BY <1>1, <1>2, <1>3, QuestionsInvariant, PTL DEF QuestionsSpec
<1>. QED
  BY <1>4 DEF AnswersBelongToQuestion, Answered

\* A session begins with the newest lines of the one before.
THEOREM RestartFindsHistory == QuestionsSpec => HistoryIsKept
<1> DEFINE Newest == RestartSession => \A h \in Histories :
       /\ history'[h].idx = 0 /\ IsPrefix(history'[h].lines, history[h].lines)
       /\ Len(history'[h].lines) = (IF Len(history[h].lines) < Limit THEN Len(history[h].lines) ELSE Limit)
<1>1. QuestionsInv => Newest
  BY RestartKeepsHistory
<1> HIDE DEF Newest
<1>2. QuestionsSpec => [][Newest]_questionVars
  BY <1>1, QuestionsInvariant, PTL DEF QuestionsSpec
<1>. QED
  BY <1>2 DEF HistoryIsKept, Newest

-----------------------------------------------------------------------------
(* Documents. What a step makes of an item is stated field by field; of two  *)
(* elements that are not from one kind, either may come first.               *)
IsItem(it) ==
  it = [title |-> it.title, title_type |-> it.title_type, link |-> it.link,
        description |-> it.description, author |-> it.author, pubDate |-> it.pubDate,
        guid |-> it.guid, permalink |-> it.permalink, enclosure |-> it.enclosure,
        encoded |-> it.encoded, summary |-> it.summary, base |-> it.base, labels |-> it.labels,
        creator |-> it.creator, dc_date |-> it.dc_date, atom_summary |-> it.atom_summary,
        updated |-> it.updated]
IsChannel(f) ==
  f = [title |-> f.title, title_type |-> f.title_type, link |-> f.link,
        description |-> f.description, language |-> f.language, editor |-> f.editor,
        creator |-> f.creator, pubDate |-> f.pubDate]

\* The folds: the elements of an item, by version, and those of the feed.
RssIn(it, e, ns, base) == RssStep(it, e, ns, base)
RssElements == INSTANCE Folding WITH Op <- RssIn, Is <- IsItem
RdfIn(it, e, c, d) == RdfStep(it, e)
RdfElements == INSTANCE Folding WITH Op <- RdfIn, Is <- IsItem
AtomIn(it, e, ns, base) == AtomStep(it, e, ns, base)
AtomElements == INSTANCE Folding WITH Op <- AtomIn, Is <- IsItem
AboutIn(f, e, root, base) ==
  IF IsAtom(VersionOf(root)) THEN AtomFeedStep(f, e, NsOf(root), base) ELSE RssFeedStep(f, e, NsOf(root), base)
About == INSTANCE Folding WITH Op <- AboutIn, Is <- IsChannel

\* What RssStep makes of the fields.
Permanent(e) == Attr(e, "isPermaLink") # <<"false">>
IsRssEnclosure(e, ns) == NodeIs(e, "enclosure", ns) \/ NodeIs(e, "content", "media") \/ NodeIs(e, "group", "media")
RssEnclosure(e, old) == IF NodeIs(e, "group", "media") THEN OrElse(InGroup(e), old) ELSE Attr(e, "url")
MayBeMany(e) == e.name \in {"enclosure", "group", "category"} \/ e.ns = "media"
\* Two elements that are not from one kind.
RssApart(e, x, ns) ==
  /\ ns # "media" /\ ~(IsRssEnclosure(e, ns) /\ IsRssEnclosure(x, ns))
  /\ e.name = x.name /\ e.ns = x.ns => MayBeMany(e)

\* The fields of an item after an element of RSS.
RssFields(r, it, e, ns, base) ==
  /\ IsItem(r)
  /\ r.title = IF NodeIs(e, "title", ns) THEN e.text ELSE it.title
  /\ r.title_type = IF NodeIs(e, "title", ns) THEN <<"text">> ELSE it.title_type
  /\ r.link = IF NodeIs(e, "link", ns) THEN AbsoluteUrl(base, e.text) ELSE it.link
  /\ r.description = IF NodeIs(e, "description", ns) THEN e.text ELSE it.description
  /\ r.author = IF NodeIs(e, "author", ns) THEN RssAuthor(e.text) ELSE it.author
  /\ r.pubDate = IF NodeIs(e, "pubDate", ns) THEN e.text ELSE it.pubDate
  /\ r.guid =
       IF NodeIs(e, "guid", ns) THEN (IF Permanent(e) THEN AbsoluteUrl(base, e.text) ELSE e.text) ELSE it.guid
  /\ r.permalink = IF NodeIs(e, "guid", ns) THEN Permanent(e) ELSE it.permalink
  /\ r.enclosure = IF IsRssEnclosure(e, ns) THEN RssEnclosure(e, it.enclosure) ELSE it.enclosure
  /\ r.encoded = IF NodeIs(e, "encoded", "content") THEN e.text ELSE it.encoded
  /\ r.summary = IF NodeIs(e, "summary", "itunes") THEN e.text ELSE it.summary
  /\ r.base = IF NodeIs(e, "description", ns) THEN OrElse(Attr(e, "base"), base) ELSE it.base
  /\ r.creator = IF NodeIs(e, "creator", "dc") THEN e.text ELSE it.creator
  /\ r.dc_date = IF NodeIs(e, "date", "dc") THEN Rfc822(e.text) ELSE it.dc_date
  /\ r.labels = it.labels /\ r.atom_summary = it.atom_summary /\ r.updated = it.updated

LEMMA RssStepIs ==
  ASSUME NEW it, IsItem(it), NEW e, NEW ns, NEW base
  PROVE  RssFields(RssStep(it, e, ns, base), it, e, ns, base)
<1> USE DEF RssStep, RssFields, IsItem, NodeIs, IsRssEnclosure, RssEnclosure, Permanent, Creator
<1>1. CASE NodeIs(e, "title", ns)
  BY <1>1
<1>2. CASE NodeIs(e, "link", ns)
  BY <1>2
<1>3. CASE NodeIs(e, "description", ns)
  BY <1>3
<1>4. CASE NodeIs(e, "encoded", "content")
  BY <1>4
<1>5. CASE NodeIs(e, "summary", "itunes")
  BY <1>5
<1>6. CASE NodeIs(e, "guid", ns)
  BY <1>6
<1>7. CASE NodeIs(e, "pubDate", ns)
  BY <1>7
<1>8. CASE NodeIs(e, "date", "dc")
  BY SMTT(20), <1>8
<1>9. CASE NodeIs(e, "author", ns)
  BY SMTT(20), <1>9
<1>10. CASE NodeIs(e, "creator", "dc")
  BY SMTT(20), <1>10
<1>11. CASE NodeIs(e, "enclosure", ns)
  BY SMTT(20), <1>11
<1>12. CASE NodeIs(e, "content", "media")
  BY SMTT(20), <1>12
<1>13. CASE NodeIs(e, "group", "media")
  BY SMTT(20), <1>13
<1>14. CASE /\ ~NodeIs(e, "title", ns) /\ ~NodeIs(e, "link", ns)
            /\ ~NodeIs(e, "description", ns) /\ ~NodeIs(e, "encoded", "content")
            /\ ~NodeIs(e, "summary", "itunes") /\ ~NodeIs(e, "guid", ns)
            /\ ~NodeIs(e, "pubDate", ns) /\ ~NodeIs(e, "date", "dc")
            /\ ~NodeIs(e, "author", ns) /\ ~NodeIs(e, "creator", "dc")
            /\ ~NodeIs(e, "enclosure", ns) /\ ~NodeIs(e, "content", "media")
            /\ ~NodeIs(e, "group", "media")
  BY <1>14
<1> HIDE DEF RssStep, RssFields, IsItem, NodeIs, IsRssEnclosure, RssEnclosure, Permanent, Creator
<1>. QED
  BY <1>1, <1>2, <1>3, <1>4, <1>5, <1>6, <1>7, <1>8, <1>9, <1>10, <1>11, <1>12, <1>13, <1>14

LEMMA RssStepsMeet ==
  ASSUME NEW it, NEW e, NEW x, NEW ns, NEW base, RssApart(e, x, ns),
         NEW p, RssFields(p, it, e, ns, base), NEW a, RssFields(a, p, x, ns, base),
         NEW q, RssFields(q, it, x, ns, base), NEW b, RssFields(b, q, e, ns, base)
  PROVE  a = b
<1> USE DEF RssFields, RssApart, NodeIs, MayBeMany, IsRssEnclosure, RssEnclosure
<1>1. a.title = b.title
  OBVIOUS
<1>2. a.title_type = b.title_type
  OBVIOUS
<1>3. a.link = b.link
  OBVIOUS
<1>4. a.description = b.description
  OBVIOUS
<1>5. a.base = b.base
  OBVIOUS
<1>6. a.author = b.author
  OBVIOUS
<1>7. a.pubDate = b.pubDate
  OBVIOUS
<1>8. a.guid = b.guid
  OBVIOUS
<1>9. a.permalink = b.permalink
  OBVIOUS
<1>10. a.enclosure = b.enclosure
  OBVIOUS
<1>11. a.encoded = b.encoded
  OBVIOUS
<1>12. a.summary = b.summary
  OBVIOUS
<1>13. a.creator = b.creator
  OBVIOUS
<1>14. a.dc_date = b.dc_date
  OBVIOUS
<1>15. a.labels = b.labels /\ a.atom_summary = b.atom_summary /\ a.updated = b.updated
  OBVIOUS
<1>16. IsItem(a) /\ IsItem(b)
  OBVIOUS
<1> HIDE DEF RssFields, RssApart, NodeIs, MayBeMany, IsRssEnclosure, RssEnclosure
<1>. QED
  BY <1>1, <1>2, <1>3, <1>4, <1>5, <1>6, <1>7, <1>8, <1>9, <1>10, <1>11, <1>12, <1>13, <1>14, <1>15, <1>16 DEF IsItem

\* RDF.
RdfApart(e, x) == e.name = x.name /\ e.ns = x.ns => MayBeMany(e)

\* The fields of an item after an element of RDF.
RdfFields(r, it, e) ==
  /\ IsItem(r)
  /\ r.title = IF NodeIs(e, "title", "rss10") THEN e.text ELSE it.title
  /\ r.title_type = IF NodeIs(e, "title", "rss10") THEN <<"text">> ELSE it.title_type
  /\ r.link = IF NodeIs(e, "link", "rss10") THEN e.text ELSE it.link
  /\ r.description = IF NodeIs(e, "description", "rss10") THEN e.text ELSE it.description
  /\ r.author = IF NodeIs(e, "creator", "dc") THEN e.text ELSE it.author
  /\ r.pubDate = IF NodeIs(e, "date", "dc") THEN Rfc822(e.text) ELSE it.pubDate
  /\ r.encoded = IF NodeIs(e, "encoded", "content") THEN e.text ELSE it.encoded
  /\ r.summary = IF NodeIs(e, "summary", "itunes") THEN e.text ELSE it.summary
  /\ r.guid = it.guid /\ r.permalink = it.permalink /\ r.enclosure = it.enclosure
  /\ r.base = it.base /\ r.labels = it.labels /\ r.creator = it.creator
  /\ r.dc_date = it.dc_date /\ r.atom_summary = it.atom_summary /\ r.updated = it.updated

LEMMA RdfStepIs ==
  ASSUME NEW it, IsItem(it), NEW e
  PROVE  RdfFields(RdfStep(it, e), it, e)
<1> USE DEF RdfStep, RdfFields, IsItem, NodeIs
<1>1. CASE NodeIs(e, "title", "rss10")
  BY <1>1
<1>2. CASE NodeIs(e, "link", "rss10")
  BY <1>2
<1>3. CASE NodeIs(e, "description", "rss10")
  BY <1>3
<1>4. CASE NodeIs(e, "date", "dc")
  BY <1>4
<1>5. CASE NodeIs(e, "encoded", "content")
  BY <1>5
<1>6. CASE NodeIs(e, "summary", "itunes")
  BY <1>6
<1>7. CASE NodeIs(e, "creator", "dc")
  BY <1>7
<1>8. CASE /\ ~NodeIs(e, "title", "rss10") /\ ~NodeIs(e, "link", "rss10")
            /\ ~NodeIs(e, "description", "rss10") /\ ~NodeIs(e, "date", "dc")
            /\ ~NodeIs(e, "encoded", "content") /\ ~NodeIs(e, "summary", "itunes")
            /\ ~NodeIs(e, "creator", "dc")
  BY <1>8
<1> HIDE DEF RdfStep, RdfFields, IsItem, NodeIs
<1>. QED
  BY <1>1, <1>2, <1>3, <1>4, <1>5, <1>6, <1>7, <1>8

LEMMA RdfStepsMeet ==
  ASSUME NEW it, NEW e, NEW x, RdfApart(e, x),
         NEW p, RdfFields(p, it, e), NEW a, RdfFields(a, p, x),
         NEW q, RdfFields(q, it, x), NEW b, RdfFields(b, q, e)
  PROVE  a = b
<1> USE DEF RdfFields, RdfApart, NodeIs, MayBeMany
<1>1. a.title = b.title
  OBVIOUS
<1>2. a.title_type = b.title_type
  OBVIOUS
<1>3. a.link = b.link
  OBVIOUS
<1>4. a.description = b.description
  OBVIOUS
<1>5. a.pubDate = b.pubDate
  OBVIOUS
<1>6. a.encoded = b.encoded
  OBVIOUS
<1>7. a.summary = b.summary
  OBVIOUS
<1>8. a.author = b.author
  OBVIOUS
<1>9. /\ a.guid = b.guid /\ a.permalink = b.permalink /\ a.enclosure = b.enclosure
      /\ a.base = b.base /\ a.labels = b.labels /\ a.creator = b.creator
      /\ a.dc_date = b.dc_date /\ a.atom_summary = b.atom_summary /\ a.updated = b.updated
  OBVIOUS
<1>10. IsItem(a) /\ IsItem(b)
  OBVIOUS
<1> HIDE DEF RdfFields, RdfApart, NodeIs, MayBeMany
<1>. QED
  BY <1>1, <1>2, <1>3, <1>4, <1>5, <1>6, <1>7, <1>8, <1>9, <1>10 DEF IsItem

\* Atom.
IsAlternate(e) == Attr(e, "rel") \in {None, <<"alternate">>}
IsRelEnclosure(e) == Attr(e, "rel") = <<"enclosure">>
IsLabel(e) == Attr(e, "scheme") = <<"google">>
AtomApart(e, x, ns) ==
  /\ ns # "media" /\ ~(IsRelEnclosure(e) /\ IsRelEnclosure(x))
  /\ e.name = x.name /\ e.ns = x.ns => MayBeMany(e) \/ (e.name = "link" /\ ~(IsAlternate(e) /\ IsAlternate(x)))

\* The fields of an item after an element of Atom.
AtomFields(r, it, e, ns, base) ==
  /\ IsItem(r)
  /\ r.title = IF NodeIs(e, "title", ns) THEN e.text ELSE it.title
  /\ r.title_type = IF NodeIs(e, "title", ns) THEN OrElse(Attr(e, "type"), <<"text">>) ELSE it.title_type
  /\ r.link =
       IF NodeIs(e, "link", ns) /\ IsAlternate(e) THEN AbsoluteUrl(base, Attr(e, "href")) ELSE it.link
  /\ r.description = IF NodeIs(e, "content", ns) THEN AtomText(e, it.description) ELSE it.description
  /\ r.author = IF NodeIs(e, "author", ns) THEN OrElse(AtomAuthor(e), it.author) ELSE it.author
  /\ r.pubDate = IF NodeIs(e, "published", ns) THEN Rfc822(e.text) ELSE it.pubDate
  /\ r.guid = IF NodeIs(e, "id", ns) THEN e.text ELSE it.guid
  /\ r.enclosure = IF NodeIs(e, "link", ns) /\ IsRelEnclosure(e) THEN Attr(e, "href") ELSE it.enclosure
  /\ r.base = IF NodeIs(e, "content", ns) THEN OrElse(Attr(e, "base"), base) ELSE it.base
  /\ r.labels =
       IF NodeIs(e, "category", ns) /\ IsLabel(e) THEN it.labels \cup {Attr(e, "label")} ELSE it.labels
  /\ r.atom_summary = IF NodeIs(e, "summary", ns) THEN AtomText(e, it.atom_summary) ELSE it.atom_summary
  /\ r.updated = IF NodeIs(e, "updated", ns) THEN Rfc822(e.text) ELSE it.updated
  /\ r.permalink = it.permalink /\ r.encoded = it.encoded /\ r.summary = it.summary
  /\ r.creator = it.creator /\ r.dc_date = it.dc_date

LEMMA Rels == <<"enclosure">> # None /\ <<"enclosure">> # <<"alternate">> /\ <<"alternate">> # None
BY DEF None

LEMMA AtomStepIs ==
  ASSUME NEW it, IsItem(it), NEW e, NEW ns, NEW base
  PROVE  AtomFields(AtomStep(it, e, ns, base), it, e, ns, base)
<1> USE DEF AtomStep, AtomFields, IsItem, NodeIs, IsAlternate, IsRelEnclosure, IsLabel
<1>1. CASE NodeIs(e, "author", ns)
  BY <1>1
<1>2. CASE NodeIs(e, "title", ns)
  BY <1>2
<1>3. CASE NodeIs(e, "content", ns)
  BY <1>3
<1>4. CASE NodeIs(e, "id", ns)
  BY <1>4
<1>5. CASE NodeIs(e, "published", ns)
  BY <1>5
<1>6. CASE NodeIs(e, "updated", ns)
  BY SMTT(20), <1>6
<1>7. CASE NodeIs(e, "link", ns) /\ IsAlternate(e)
  BY SMTT(20), <1>7, Rels
<1>8. CASE NodeIs(e, "link", ns) /\ IsRelEnclosure(e)
  BY SMTT(20), <1>8, Rels
<1>9. CASE NodeIs(e, "link", ns) /\ ~IsAlternate(e) /\ ~IsRelEnclosure(e)
  BY SMTT(20), <1>9
<1>10. CASE NodeIs(e, "summary", ns)
  BY SMTT(20), <1>10
<1>11. CASE NodeIs(e, "category", ns) /\ IsLabel(e)
  BY SMTT(20), <1>11
<1>12. CASE /\ ~NodeIs(e, "author", ns) /\ ~NodeIs(e, "title", ns) /\ ~NodeIs(e, "content", ns)
            /\ ~NodeIs(e, "id", ns) /\ ~NodeIs(e, "published", ns) /\ ~NodeIs(e, "updated", ns)
            /\ ~(NodeIs(e, "link", ns) /\ IsAlternate(e))
            /\ ~(NodeIs(e, "link", ns) /\ IsRelEnclosure(e))
            /\ ~(NodeIs(e, "link", ns) /\ ~IsAlternate(e) /\ ~IsRelEnclosure(e))
            /\ ~NodeIs(e, "summary", ns) /\ ~(NodeIs(e, "category", ns) /\ IsLabel(e))
  BY <1>12
<1> HIDE DEF AtomStep, AtomFields, IsItem, NodeIs, IsAlternate, IsRelEnclosure, IsLabel
<1>. QED
  BY <1>1, <1>2, <1>3, <1>4, <1>5, <1>6, <1>7, <1>8, <1>9, <1>10, <1>11, <1>12

LEMMA AtomStepsMeet ==
  ASSUME NEW it, NEW e, NEW x, NEW ns, NEW base, AtomApart(e, x, ns),
         NEW p, AtomFields(p, it, e, ns, base), NEW a, AtomFields(a, p, x, ns, base),
         NEW q, AtomFields(q, it, x, ns, base), NEW b, AtomFields(b, q, e, ns, base)
  PROVE  a = b
<1> USE DEF AtomFields, AtomApart, NodeIs, MayBeMany
<1>1. a.title = b.title
  OBVIOUS
<1>2. a.title_type = b.title_type
  OBVIOUS
<1>3. a.link = b.link
  OBVIOUS
<1>4. a.description = b.description
  OBVIOUS
<1>5. a.base = b.base
  OBVIOUS
<1>6. a.author = b.author
  OBVIOUS
<1>7. a.pubDate = b.pubDate
  OBVIOUS
<1>8. a.guid = b.guid
  OBVIOUS
<1>9. a.enclosure = b.enclosure
  OBVIOUS
<1>10. a.labels = b.labels
  OBVIOUS
<1>11. a.atom_summary = b.atom_summary
  OBVIOUS
<1>12. a.updated = b.updated
  OBVIOUS
<1>13. /\ a.permalink = b.permalink /\ a.encoded = b.encoded /\ a.summary = b.summary
       /\ a.creator = b.creator /\ a.dc_date = b.dc_date
  OBVIOUS
<1>14. IsItem(a) /\ IsItem(b)
  OBVIOUS
<1> HIDE DEF AtomFields, AtomApart, NodeIs, MayBeMany
<1>. QED
  BY <1>1, <1>2, <1>3, <1>4, <1>5, <1>6, <1>7, <1>8, <1>9, <1>10, <1>11, <1>12, <1>13, <1>14 DEF IsItem

RssFeedApart(e, x, ns) ==
  ns # "media" /\ (e.name = x.name /\ e.ns = x.ns => MayBeMany(e))
AtomFeedApart(e, x, ns) ==
  /\ ns # "media"
  /\ e.name = x.name /\ e.ns = x.ns => MayBeMany(e) \/ (e.name = "link" /\ Rel(e) # Rel(x))

\* The feed itself.

\* The fields of a feed after an element of RSS or RDF.
RssFeedFields(r, f, e, ns, base) ==
  /\ IsChannel(r)
  /\ r.title = IF NodeIs(e, "title", ns) THEN e.text ELSE f.title
  /\ r.title_type = IF NodeIs(e, "title", ns) THEN <<"text">> ELSE f.title_type
  /\ r.link =
       IF NodeIs(e, "link", ns) THEN (IF ns = "rss10" THEN e.text ELSE AbsoluteUrl(base, e.text)) ELSE f.link
  /\ r.description = IF NodeIs(e, "description", ns) THEN e.text ELSE f.description
  /\ r.language = IF NodeIs(e, "language", ns) /\ ns # "rss10" THEN e.text ELSE f.language
  /\ r.editor = IF NodeIs(e, "managingEditor", ns) /\ ns # "rss10" THEN e.text ELSE f.editor
  /\ r.creator = IF NodeIs(e, "creator", "dc") /\ ns = "rss10" THEN e.text ELSE f.creator
  /\ r.pubDate = IF NodeIs(e, "date", "dc") /\ ns = "rss10" THEN Rfc822(e.text) ELSE f.pubDate

LEMMA RssFeedStepIs ==
  ASSUME NEW f, IsChannel(f), NEW e, NEW ns, NEW base
  PROVE  RssFeedFields(RssFeedStep(f, e, ns, base), f, e, ns, base)
<1> USE DEF RssFeedStep, RssFeedFields, IsChannel, NodeIs
<1>1. CASE NodeIs(e, "title", ns)
  BY <1>1
<1>2. CASE NodeIs(e, "link", ns)
  BY <1>2
<1>3. CASE NodeIs(e, "description", ns)
  BY <1>3
<1>4. CASE NodeIs(e, "language", ns) /\ ns # "rss10"
  BY <1>4
<1>5. CASE NodeIs(e, "managingEditor", ns) /\ ns # "rss10"
  BY <1>5
<1>6. CASE NodeIs(e, "date", "dc") /\ ns = "rss10"
  BY <1>6
<1>7. CASE NodeIs(e, "creator", "dc") /\ ns = "rss10"
  BY <1>7
<1>8. CASE /\ ~NodeIs(e, "title", ns) /\ ~NodeIs(e, "link", ns)
            /\ ~NodeIs(e, "description", ns) /\ ~(NodeIs(e, "language", ns) /\ ns # "rss10")
            /\ ~(NodeIs(e, "managingEditor", ns) /\ ns # "rss10")
            /\ ~(NodeIs(e, "date", "dc") /\ ns = "rss10")
            /\ ~(NodeIs(e, "creator", "dc") /\ ns = "rss10")
  BY <1>8
<1> HIDE DEF RssFeedStep, RssFeedFields, IsChannel, NodeIs
<1>. QED
  BY <1>1, <1>2, <1>3, <1>4, <1>5, <1>6, <1>7, <1>8

LEMMA RssFeedStepsMeet ==
  ASSUME NEW f, NEW e, NEW x, NEW ns, NEW base, RssFeedApart(e, x, ns),
         NEW p, RssFeedFields(p, f, e, ns, base), NEW a, RssFeedFields(a, p, x, ns, base),
         NEW q, RssFeedFields(q, f, x, ns, base), NEW b, RssFeedFields(b, q, e, ns, base)
  PROVE  a = b
<1> USE DEF RssFeedFields, RssFeedApart, NodeIs, MayBeMany
<1>1. a.title = b.title
  OBVIOUS
<1>2. a.title_type = b.title_type
  OBVIOUS
<1>3. a.link = b.link
  OBVIOUS
<1>4. a.description = b.description
  OBVIOUS
<1>5. a.language = b.language
  OBVIOUS
<1>6. a.editor = b.editor
  OBVIOUS
<1>7. a.creator = b.creator
  OBVIOUS
<1>8. a.pubDate = b.pubDate
  OBVIOUS
<1>9. IsChannel(a) /\ IsChannel(b)
  OBVIOUS
<1> HIDE DEF RssFeedFields, RssFeedApart, NodeIs, MayBeMany
<1>. QED
  BY <1>1, <1>2, <1>3, <1>4, <1>5, <1>6, <1>7, <1>8, <1>9 DEF IsChannel

\* The fields of a feed after an element of Atom.
AtomFeedFields(r, f, e, ns, base) ==
  /\ IsChannel(r)
  /\ r.title = IF NodeIs(e, "title", ns) THEN e.text ELSE f.title
  /\ r.title_type = IF NodeIs(e, "title", ns) THEN OrElse(Attr(e, "type"), <<"text">>) ELSE f.title_type
  /\ r.link =
       IF NodeIs(e, "link", ns) /\ Attr(e, "rel") = <<"alternate">> THEN AbsoluteUrl(base, Attr(e, "href")) ELSE f.link
  /\ r.description = IF NodeIs(e, "subtitle", ns) THEN e.text ELSE f.description
  /\ r.pubDate = IF NodeIs(e, "updated", ns) THEN Rfc822(e.text) ELSE f.pubDate
  /\ r.language = f.language /\ r.editor = f.editor /\ r.creator = f.creator

LEMMA AtomFeedStepIs ==
  ASSUME NEW f, IsChannel(f), NEW e, NEW ns, NEW base
  PROVE  AtomFeedFields(AtomFeedStep(f, e, ns, base), f, e, ns, base)
<1> USE DEF AtomFeedStep, AtomFeedFields, IsChannel, NodeIs
<1>1. CASE NodeIs(e, "title", ns)
  BY <1>1
<1>2. CASE NodeIs(e, "subtitle", ns)
  BY <1>2
<1>3. CASE NodeIs(e, "link", ns) /\ Attr(e, "rel") = <<"alternate">>
  BY <1>3
<1>4. CASE NodeIs(e, "updated", ns)
  BY <1>4
<1>5. CASE /\ ~NodeIs(e, "title", ns) /\ ~NodeIs(e, "subtitle", ns)
            /\ ~(NodeIs(e, "link", ns) /\ Attr(e, "rel") = <<"alternate">>)
            /\ ~NodeIs(e, "updated", ns)
  BY <1>5
<1> HIDE DEF AtomFeedStep, AtomFeedFields, IsChannel, NodeIs
<1>. QED
  BY <1>1, <1>2, <1>3, <1>4, <1>5

LEMMA AtomFeedStepsMeet ==
  ASSUME NEW f, NEW e, NEW x, NEW ns, NEW base, AtomFeedApart(e, x, ns),
         NEW p, AtomFeedFields(p, f, e, ns, base), NEW a, AtomFeedFields(a, p, x, ns, base),
         NEW q, AtomFeedFields(q, f, x, ns, base), NEW b, AtomFeedFields(b, q, e, ns, base)
  PROVE  a = b
<1> USE DEF AtomFeedFields, AtomFeedApart, NodeIs, MayBeMany, Rel, OrElse
<1>1. a.title = b.title
  OBVIOUS
<1>2. a.title_type = b.title_type
  OBVIOUS
<1>3. a.link = b.link
  OBVIOUS
<1>4. a.description = b.description
  OBVIOUS
<1>5. a.pubDate = b.pubDate
  OBVIOUS
<1>6. a.language = b.language /\ a.editor = b.editor /\ a.creator = b.creator
  OBVIOUS
<1>7. IsChannel(a) /\ IsChannel(b)
  OBVIOUS
<1> HIDE DEF AtomFeedFields, AtomFeedApart, NodeIs, MayBeMany, Rel, OrElse
<1>. QED
  BY <1>1, <1>2, <1>3, <1>4, <1>5, <1>6, <1>7 DEF IsChannel

-----------------------------------------------------------------------------
\* A set of elements in some order has each of them once.
LEMMA InOrderListsAll ==
  ASSUME NEW E, IsFiniteSet(E), NEW n, n = Cardinality(E), NEW s \in SetToSeqs(E)
  PROVE  /\ n \in Nat /\ DOMAIN s = 1 .. n
         /\ \A k \in 1 .. n : s[k] \in E
         /\ \A j, k \in 1 .. n : s[j] = s[k] => j = k
         /\ \A e \in E : \E k \in 1 .. n : s[k] = e
<1>1. n \in Nat
  BY FS_CardinalityType
<1>2. s \in [1 .. n -> E] /\ \A j, k \in 1 .. n : s[j] = s[k] => j = k
  BY DEF SetToSeqs
<1>3. s \in Injection(1 .. n, E)
  BY <1>2 DEF Injection, IsInjective
<1>4. IsFiniteSet(1 .. n) /\ Cardinality(1 .. n) = n
  <2>1. 1 \in Int /\ n \in Int
    BY <1>1
  <2>2. IsFiniteSet(1 .. n) /\ Cardinality(1 .. n) = IF 1 > n THEN 0 ELSE n - 1 + 1
    BY <2>1, FS_Interval
  <2>. QED
    BY <1>1, <2>2
<1>5. s \in Surjection(1 .. n, E)
  BY <1>3, <1>4, FS_Injection
<1>. QED
  BY <1>1, <1>2, <1>5 DEF Surjection

LEMMA SomeOrder ==
  ASSUME NEW E, IsFiniteSet(E)
  PROVE  SetToSeq(E) \in SetToSeqs(E)
<1> DEFINE n == Cardinality(E)
<1>1. \E f : f \in Bijection(1 .. n, E)
  BY FS_CardinalityType DEF ExistsBijection
<1> HIDE DEF n
<1>2. \E f \in [1 .. n -> E] : IsInjective(f)
  BY <1>1 DEF Bijection, Injection
<1>3. SetToSeq(E) \in [1 .. n -> E] /\ IsInjective(SetToSeq(E))
  BY <1>2 DEF SetToSeq, n
<1>. QED
  BY <1>3 DEF SetToSeqs, IsInjective, n

\* What is done after the last element.
Completed(it) == [it EXCEPT !.author = OrElse(@, it.creator), !.pubDate = OrElse(@, it.dc_date)]
CompletedAtom(it) == [it EXCEPT !.description = OrElse(@, it.atom_summary), !.pubDate = OrElse(@, it.updated)]

\* RSS.
LEMMA RssCommutes ==
  ASSUME NEW E, NEW ns, NEW base, \A e, x \in E : e # x => RssApart(e, x, ns)
  PROVE  RssElements!Commutes(E, ns, base)
<1> SUFFICES ASSUME NEW it, IsItem(it), NEW e \in E, NEW x \in E
             PROVE  LET a == RssIn(it, e, ns, base)
                        b == RssIn(it, x, ns, base)
                    IN  IsItem(a) /\ (e # x => RssIn(a, x, ns, base) = RssIn(b, e, ns, base))
  BY DEF RssElements!Commutes
<1> DEFINE p == RssStep(it, e, ns, base)
           q == RssStep(it, x, ns, base)
           a == RssStep(p, x, ns, base)
           b == RssStep(q, e, ns, base)
<1>1. RssFields(p, it, e, ns, base) /\ RssFields(q, it, x, ns, base)
  BY RssStepIs
<1>2. IsItem(p) /\ IsItem(q)
  BY <1>1 DEF RssFields
<1>3. RssFields(a, p, x, ns, base) /\ RssFields(b, q, e, ns, base)
  BY <1>2, RssStepIs
<1> HIDE DEF p, q, a, b
<1>4. e # x => a = b
  BY <1>1, <1>3, RssStepsMeet
<1>. QED
  BY <1>2, <1>4 DEF p, q, a, b, RssIn

LEMMA RssOrder ==
  ASSUME NEW E, IsFiniteSet(E), NEW s \in SetToSeqs(E), NEW t \in SetToSeqs(E), NEW ns, NEW base,
         \A e, x \in E : e # x => RssApart(e, x, ns)
  PROVE  RssItem(s, ns, base) = RssItem(t, ns, base)
<1> DEFINE n == Cardinality(E)
           first == NoItem
<1>1. /\ n \in Nat /\ DOMAIN s = 1 .. n /\ DOMAIN t = 1 .. n
      /\ RssElements!Lists(s, n, E) /\ RssElements!Lists(t, n, E)
  BY InOrderListsAll DEF RssElements!Lists
<1> HIDE DEF n
<1>2. IsItem(first)
  BY DEF IsItem, NoItem
<1> HIDE DEF first
<1>3. RssElements!Folded(first, s, n, ns, base) = RssElements!Folded(first, t, n, ns, base)
  BY <1>1, <1>2, RssCommutes, RssElements!FoldOrder
<1>4. ASSUME NEW u, DOMAIN u = 1 .. n
      PROVE  RssItem(u, ns, base) = Completed(RssElements!Folded(first, u, n, ns, base))
  BY <1>4 DEF RssItem, Completed, FoldLeft,
             MapThenFoldSet, RssElements!Folded, RssElements!IsFold, RssElements!Value, RssElements!Highest, RssIn, Max, first
<1>. QED
  BY <1>1, <1>3, <1>4

\* RDF.
LEMMA RdfCommutes ==
  ASSUME NEW E, \A e, x \in E : e # x => RdfApart(e, x)
  PROVE  RdfElements!Commutes(E, 0, 0)
<1> SUFFICES ASSUME NEW it, IsItem(it), NEW e \in E, NEW x \in E
             PROVE  LET a == RdfIn(it, e, 0, 0)
                        b == RdfIn(it, x, 0, 0)
                    IN  IsItem(a) /\ (e # x => RdfIn(a, x, 0, 0) = RdfIn(b, e, 0, 0))
  BY DEF RdfElements!Commutes
<1> DEFINE p == RdfStep(it, e)
           q == RdfStep(it, x)
           a == RdfStep(p, x)
           b == RdfStep(q, e)
<1>1. RdfFields(p, it, e) /\ RdfFields(q, it, x)
  BY RdfStepIs
<1>2. IsItem(p) /\ IsItem(q)
  BY <1>1 DEF RdfFields
<1>3. RdfFields(a, p, x) /\ RdfFields(b, q, e)
  BY <1>2, RdfStepIs
<1> HIDE DEF p, q, a, b
<1>4. e # x => a = b
  BY <1>1, <1>3, RdfStepsMeet
<1>. QED
  BY <1>2, <1>4 DEF p, q, a, b, RdfIn

LEMMA RdfOrder ==
  ASSUME NEW E, IsFiniteSet(E), NEW s \in SetToSeqs(E), NEW t \in SetToSeqs(E), NEW about,
         \A e, x \in E : e # x => RdfApart(e, x)
  PROVE  RdfItem(about, s) = RdfItem(about, t)
<1> DEFINE n == Cardinality(E)
           first == [NoItem EXCEPT !.guid = about]
<1>1. /\ n \in Nat /\ DOMAIN s = 1 .. n /\ DOMAIN t = 1 .. n
      /\ RdfElements!Lists(s, n, E) /\ RdfElements!Lists(t, n, E)
  BY InOrderListsAll DEF RdfElements!Lists
<1> HIDE DEF n
<1>2. IsItem(first)
  <2>1. IsItem(NoItem)
    BY DEF IsItem, NoItem
  <2>. QED
    BY <2>1 DEF IsItem
<1> HIDE DEF first
<1>3. RdfElements!Folded(first, s, n, 0, 0) = RdfElements!Folded(first, t, n, 0, 0)
  BY <1>1, <1>2, RdfCommutes, RdfElements!FoldOrder
<1>4. ASSUME NEW u, DOMAIN u = 1 .. n
      PROVE  RdfItem(about, u) = RdfElements!Folded(first, u, n, 0, 0)
  BY <1>4 DEF RdfItem, FoldLeft,
             MapThenFoldSet, RdfElements!Folded, RdfElements!IsFold, RdfElements!Value, RdfElements!Highest, RdfIn, Max, first
<1>. QED
  BY <1>1, <1>3, <1>4

\* Atom.
LEMMA AtomCommutes ==
  ASSUME NEW E, NEW ns, NEW base, \A e, x \in E : e # x => AtomApart(e, x, ns)
  PROVE  AtomElements!Commutes(E, ns, base)
<1> SUFFICES ASSUME NEW it, IsItem(it), NEW e \in E, NEW x \in E
             PROVE  LET a == AtomIn(it, e, ns, base)
                        b == AtomIn(it, x, ns, base)
                    IN  IsItem(a) /\ (e # x => AtomIn(a, x, ns, base) = AtomIn(b, e, ns, base))
  BY DEF AtomElements!Commutes
<1> DEFINE p == AtomStep(it, e, ns, base)
           q == AtomStep(it, x, ns, base)
           a == AtomStep(p, x, ns, base)
           b == AtomStep(q, e, ns, base)
<1>1. AtomFields(p, it, e, ns, base) /\ AtomFields(q, it, x, ns, base)
  BY AtomStepIs
<1>2. IsItem(p) /\ IsItem(q)
  BY <1>1 DEF AtomFields
<1>3. AtomFields(a, p, x, ns, base) /\ AtomFields(b, q, e, ns, base)
  BY <1>2, AtomStepIs
<1> HIDE DEF p, q, a, b
<1>4. e # x => a = b
  BY <1>1, <1>3, AtomStepsMeet
<1>. QED
  BY <1>2, <1>4 DEF p, q, a, b, AtomIn

LEMMA AtomOrder ==
  ASSUME NEW E, IsFiniteSet(E), NEW s \in SetToSeqs(E), NEW t \in SetToSeqs(E), NEW ns, NEW base,
         \A e, x \in E : e # x => AtomApart(e, x, ns)
  PROVE  AtomEntry(s, ns, base) = AtomEntry(t, ns, base)
<1> DEFINE n == Cardinality(E)
           first == NoItem
<1>1. /\ n \in Nat /\ DOMAIN s = 1 .. n /\ DOMAIN t = 1 .. n
      /\ AtomElements!Lists(s, n, E) /\ AtomElements!Lists(t, n, E)
  BY InOrderListsAll DEF AtomElements!Lists
<1> HIDE DEF n
<1>2. IsItem(first)
  BY DEF IsItem, NoItem
<1> HIDE DEF first
<1>3. AtomElements!Folded(first, s, n, ns, base) = AtomElements!Folded(first, t, n, ns, base)
  BY <1>1, <1>2, AtomCommutes, AtomElements!FoldOrder
<1>4. ASSUME NEW u, DOMAIN u = 1 .. n
      PROVE  AtomEntry(u, ns, base) = CompletedAtom(AtomElements!Folded(first, u, n, ns, base))
  BY <1>4 DEF AtomEntry, CompletedAtom, FoldLeft,
             MapThenFoldSet, AtomElements!Folded, AtomElements!IsFold, AtomElements!Value, AtomElements!Highest, AtomIn, Max, first
<1>. QED
  BY <1>1, <1>3, <1>4

\* What the versions have in common: only Atom has the root <feed>, and no
\* parser's elements are those of Media RSS.
LEMMA Versions ==
  ASSUME NEW root, VersionOf(root) # "throws"
  PROVE  (IsAtom(VersionOf(root)) <=> root.name = "feed") /\ NsOf(root) # "media"
<1>1. CASE root.name = "rss"
  BY <1>1 DEF VersionOf, IsAtom, NsOf
<1>2. CASE root.name = "RDF"
  BY <1>2 DEF VersionOf, IsAtom, NsOf
<1>3. CASE root.name = "feed"
  BY <1>3 DEF VersionOf, IsAtom, NsOf
<1>. QED
  BY <1>1, <1>2, <1>3 DEF VersionOf

LEMMA AboutApart ==
  ASSUME NEW root, VersionOf(root) # "throws", NEW E, SaysOnce(root, E), NEW e \in E, NEW x \in E, e # x
  PROVE  IF IsAtom(VersionOf(root)) THEN AtomFeedApart(e, x, NsOf(root)) ELSE RssFeedApart(e, x, NsOf(root))
<1>1. e.name = x.name /\ e.ns = x.ns => MayRepeat(root, e, x)
  BY DEF SaysOnce
<1>2. (IsAtom(VersionOf(root)) <=> root.name = "feed") /\ NsOf(root) # "media"
  BY Versions
<1>. QED
  BY <1>1, <1>2 DEF MayRepeat, MayBeMany, AtomFeedApart, RssFeedApart

\* An entry with at most one enclosure has no two.
LEMMA OneEnclosure ==
  ASSUME NEW entry, IsFiniteSet(entry.elements), AtMostOne(entry),
         NEW e \in entry.elements, NEW x \in entry.elements, IsEnclosure(e), IsEnclosure(x)
  PROVE  e = x
<1> SUFFICES ASSUME e # x PROVE FALSE
  OBVIOUS
<1> DEFINE S == {y \in entry.elements : IsEnclosure(y)}
<1>1. IsFiniteSet(S)
  BY FS_Subset
<1>2. {e, x} \subseteq S
  OBVIOUS
<1>3. Cardinality(S) <= 1
  BY DEF AtMostOne
<1> HIDE DEF S
<1>4. IsFiniteSet({e}) /\ Cardinality({e}) = 1
  BY FS_Singleton
<1>5. Cardinality({e} \cup {x}) = 2
  <2>1. Cardinality({e} \cup {x}) = Cardinality({e}) + 1
    BY <1>4, FS_AddElement
  <2>. QED
    BY <1>4, <2>1
<1>6. {e} \cup {x} = {e, x}
  OBVIOUS
<1>7. Cardinality({e, x}) <= Cardinality(S)
  BY <1>1, <1>2, FS_Subset
<1>8. Cardinality(S) \in Nat
  BY <1>1, FS_CardinalityType
<1>9. Cardinality({e, x}) = 2
  BY <1>5, <1>6
<1>. QED
  BY <1>3, <1>7, <1>8, <1>9

LEMMA ElementsApart ==
  ASSUME NEW root, VersionOf(root) # "throws", NEW entry, SaysOnce(root, entry.elements), AtMostOne(entry),
         NEW e \in entry.elements, NEW x \in entry.elements, e # x
  PROVE  /\ IsAtom(VersionOf(root)) => AtomApart(e, x, NsOf(root))
         /\ ~IsAtom(VersionOf(root)) => RssApart(e, x, NsOf(root)) /\ RdfApart(e, x)
<1>1. e.name = x.name /\ e.ns = x.ns => MayRepeat(root, e, x)
  BY DEF SaysOnce
<1>2. (IsAtom(VersionOf(root)) <=> root.name = "feed") /\ NsOf(root) # "media"
  BY Versions
<1>3. ~(IsEnclosure(e) /\ IsEnclosure(x))
  BY OneEnclosure DEF SaysOnce
<1>4. IsAtom(VersionOf(root)) => AtomApart(e, x, NsOf(root))
  <2>1. IsRelEnclosure(e) => IsEnclosure(e)
    BY DEF IsEnclosure, IsRelEnclosure
  <2>2. IsRelEnclosure(x) => IsEnclosure(x)
    BY DEF IsEnclosure, IsRelEnclosure
  <2>3. IsAlternate(e) /\ IsAlternate(x) => Rel(e) = Rel(x)
    BY DEF IsAlternate, Rel, OrElse
  <2>. QED
    BY <1>1, <1>2, <1>3, <2>1, <2>2, <2>3 DEF MayRepeat, MayBeMany, AtomApart
<1>5. ~IsAtom(VersionOf(root)) => RssApart(e, x, NsOf(root)) /\ RdfApart(e, x)
  <2>1. IsRssEnclosure(e, NsOf(root)) => IsEnclosure(e)
    BY DEF IsEnclosure, IsRssEnclosure, NodeIs
  <2>2. IsRssEnclosure(x, NsOf(root)) => IsEnclosure(x)
    BY DEF IsEnclosure, IsRssEnclosure, NodeIs
  <2>. QED
    BY <1>1, <1>2, <1>3, <2>1, <2>2 DEF MayRepeat, MayBeMany, RssApart, RdfApart
<1>. QED
  BY <1>4, <1>5

\* The feed's own elements.
LEMMA AboutCommutes ==
  ASSUME NEW root, VersionOf(root) # "throws", NEW base, NEW E, SaysOnce(root, E)
  PROVE  About!Commutes(E, root, base)
<1> DEFINE ns == NsOf(root)
<1> SUFFICES ASSUME NEW f, IsChannel(f), NEW e \in E, NEW x \in E
             PROVE  LET a == AboutIn(f, e, root, base)
                        b == AboutIn(f, x, root, base)
                    IN  IsChannel(a) /\ (e # x => AboutIn(a, x, root, base) = AboutIn(b, e, root, base))
  BY DEF About!Commutes
<1>1. CASE IsAtom(VersionOf(root))
  <2> DEFINE p == AtomFeedStep(f, e, ns, base)
             q == AtomFeedStep(f, x, ns, base)
             a == AtomFeedStep(p, x, ns, base)
             b == AtomFeedStep(q, e, ns, base)
  <2>0. e # x => AtomFeedApart(e, x, ns)
    BY <1>1, AboutApart
  <2> HIDE DEF ns
  <2>1. AtomFeedFields(p, f, e, ns, base) /\ AtomFeedFields(q, f, x, ns, base)
    BY AtomFeedStepIs
  <2>2. IsChannel(p) /\ IsChannel(q)
    BY <2>1 DEF AtomFeedFields
  <2>3. AtomFeedFields(a, p, x, ns, base) /\ AtomFeedFields(b, q, e, ns, base)
    BY <2>2, AtomFeedStepIs
  <2> HIDE DEF p, q, a, b
  <2>4. e # x => a = b
    BY <2>0, <2>1, <2>3, AtomFeedStepsMeet
  <2>. QED
    BY <1>1, <2>2, <2>4 DEF p, q, a, b, AboutIn, ns
<1>2. CASE ~IsAtom(VersionOf(root))
  <2> DEFINE p == RssFeedStep(f, e, ns, base)
             q == RssFeedStep(f, x, ns, base)
             a == RssFeedStep(p, x, ns, base)
             b == RssFeedStep(q, e, ns, base)
  <2>0. e # x => RssFeedApart(e, x, ns)
    BY <1>2, AboutApart
  <2> HIDE DEF ns
  <2>1. RssFeedFields(p, f, e, ns, base) /\ RssFeedFields(q, f, x, ns, base)
    BY RssFeedStepIs
  <2>2. IsChannel(p) /\ IsChannel(q)
    BY <2>1 DEF RssFeedFields
  <2>3. RssFeedFields(a, p, x, ns, base) /\ RssFeedFields(b, q, e, ns, base)
    BY <2>2, RssFeedStepIs
  <2> HIDE DEF p, q, a, b
  <2>4. e # x => a = b
    BY <2>0, <2>1, <2>3, RssFeedStepsMeet
  <2>. QED
    BY <1>2, <2>2, <2>4 DEF p, q, a, b, AboutIn, ns
<1>. QED
  BY <1>1, <1>2

LEMMA AboutOrder ==
  ASSUME NEW root, VersionOf(root) # "throws", NEW base, NEW E, SaysOnce(root, E),
         NEW s \in SetToSeqs(E), NEW t \in SetToSeqs(E)
  PROVE  ParsedFeed(root, base, s) = ParsedFeed(root, base, t)
<1> DEFINE n == Cardinality(E)
           first == [NoChannel EXCEPT !.language = IF IsAtom(VersionOf(root)) THEN root.lang ELSE None]
<1>0. IsFiniteSet(E)
  BY DEF SaysOnce
<1>1. /\ n \in Nat /\ DOMAIN s = 1 .. n /\ DOMAIN t = 1 .. n
      /\ About!Lists(s, n, E) /\ About!Lists(t, n, E)
  BY <1>0, InOrderListsAll DEF About!Lists
<1> HIDE DEF n
<1>2. IsChannel(first)
  <2> DEFINE language == IF IsAtom(VersionOf(root)) THEN root.lang ELSE None
  <2>1. IsChannel(NoChannel)
    BY DEF IsChannel, NoChannel
  <2> HIDE DEF language
  <2>2. IsChannel([NoChannel EXCEPT !.language = language])
    BY <2>1 DEF IsChannel
  <2>. QED
    BY <2>2 DEF language
<1> HIDE DEF first
<1>3. About!Folded(first, s, n, root, base) = About!Folded(first, t, n, root, base)
  BY <1>1, <1>2, AboutCommutes, About!FoldOrder
<1>4. ASSUME NEW u, DOMAIN u = 1 .. n
      PROVE  ParsedFeed(root, base, u) = About!Folded(first, u, n, root, base)
  BY <1>4 DEF ParsedFeed, FoldLeft,
             MapThenFoldSet, About!Folded, About!IsFold, About!Value, About!Highest, AboutIn, Max, first
<1>. QED
  BY <1>1, <1>3, <1>4

\* An entry's elements.
SameItem(root, base, own, about, s, t) ==
  ParsedItem(VersionOf(root), NsOf(root), base, [base |-> own, about |-> about, elements |-> s]) =
  ParsedItem(VersionOf(root), NsOf(root), base, [base |-> own, about |-> about, elements |-> t])

LEMMA EntryOrder ==
  ASSUME NEW root, VersionOf(root) # "throws", NEW base, NEW entry, SaysOnce(root, entry.elements), AtMostOne(entry),
         NEW s \in SetToSeqs(entry.elements), NEW t \in SetToSeqs(entry.elements), NEW own, NEW about
  PROVE  SameItem(root, base, own, about, s, t)
<1> DEFINE E == entry.elements
           ns == NsOf(root)
           Of(u) == [base |-> own, about |-> about, elements |-> u]
           Item(u) == ParsedItem(VersionOf(root), ns, base, Of(u))
<1>1. IsFiniteSet(E)
  BY DEF SaysOnce
<1>2. \A u : Of(u).base = own /\ Of(u).about = about /\ Of(u).elements = u
  OBVIOUS
<1>3. ASSUME IsAtom(VersionOf(root)) PROVE Item(s) = Item(t)
  <2>1. \A e, x \in E : e # x => AtomApart(e, x, ns)
    BY <1>3, ElementsApart
  <2> HIDE DEF E, ns
  <2>2. AtomEntry(s, ns, OrElse(own, base)) = AtomEntry(t, ns, OrElse(own, base))
    BY <1>1, <2>1, AtomOrder DEF E
  <2>3. \A u : Item(u) = AtomEntry(u, ns, OrElse(own, base))
    BY <1>2, <1>3 DEF ParsedItem, IsAtom
  <2>. QED
    BY <2>2, <2>3 DEF ns
<1>4. ASSUME ~IsAtom(VersionOf(root)) PROVE Item(s) = Item(t)
  <2>1. \A e, x \in E : e # x => RssApart(e, x, ns) /\ RdfApart(e, x)
    BY <1>4, ElementsApart
  <2> HIDE DEF E, ns
  <2>2. RssItem(s, ns, OrElse(own, base)) = RssItem(t, ns, OrElse(own, base))
    BY <1>1, <2>1, RssOrder DEF E
  <2>3. RdfItem(about, s) = RdfItem(about, t)
    BY <1>1, <2>1, RdfOrder DEF E
  <2>4. \A u : Item(u) = IF VersionOf(root) = "RSS_1_0" THEN RdfItem(about, u) ELSE RssItem(u, ns, OrElse(own, base))
    BY <1>2, <1>4 DEF ParsedItem
  <2>. QED
    BY <2>2, <2>3, <2>4 DEF ns
<1>. QED
  BY <1>3, <1>4 DEF SameItem

-----------------------------------------------------------------------------
\* Any order of the feed's elements and of those of every entry.
IsOrder(d, order) ==
  /\ order.about \in SetToSeqs(d.about)
  /\ \A i \in DOMAIN d.entries : order.entries[i] \in SetToSeqs(d.entries[i].elements)

LEMMA OrdersAreOrders ==
  ASSUME NEW d, SaysOnce(d.root, d.about), \A i \in DOMAIN d.entries : SaysOnce(d.root, d.entries[i].elements)
  PROVE  IsOrder(d, FirstOrder(d)) /\ \A order \in Orders(d) : IsOrder(d, order)
<1> DEFINE es == [i \in DOMAIN d.entries |-> SetToSeq(d.entries[i].elements)]
           first == [about |-> SetToSeq(d.about), entries |-> es]
<1>1. SetToSeq(d.about) \in SetToSeqs(d.about)
  BY SomeOrder DEF SaysOnce
<1>2. \A i \in DOMAIN d.entries : es[i] \in SetToSeqs(d.entries[i].elements)
  BY SomeOrder DEF SaysOnce
<1>3. DOMAIN es = DOMAIN d.entries
  OBVIOUS
<1>4. FirstOrder(d) = first
  BY DEF FirstOrder
<1> HIDE DEF es
<1>5. IsOrder(d, first)
  BY <1>1, <1>2 DEF IsOrder
<1>6. ASSUME NEW s \in SetToSeqs(d.about) PROVE IsOrder(d, [first EXCEPT !.about = s])
  BY <1>2 DEF IsOrder
<1>7. ASSUME NEW i \in DOMAIN d.entries, NEW s \in SetToSeqs(d.entries[i].elements)
      PROVE  IsOrder(d, [first EXCEPT !.entries[i] = s])
  <2> DEFINE fs == [es EXCEPT ![i] = s]
  <2>1. \A j \in DOMAIN d.entries : fs[j] \in SetToSeqs(d.entries[j].elements)
    BY <1>2, <1>3
  <2>2. [first EXCEPT !.entries[i] = s] = [about |-> SetToSeq(d.about), entries |-> fs]
    OBVIOUS
  <2> HIDE DEF fs
  <2>3. IsOrder(d, [about |-> SetToSeq(d.about), entries |-> fs])
    BY <1>1, <2>1 DEF IsOrder
  <2>. QED
    BY <2>2, <2>3
<1>8. ASSUME NEW order \in Orders(d) PROVE IsOrder(d, order)
  <2>1. \/ \E s \in SetToSeqs(d.about) : order = [first EXCEPT !.about = s]
        \/ \E i \in DOMAIN d.entries : \E s \in SetToSeqs(d.entries[i].elements) :
             order = [first EXCEPT !.entries[i] = s]
    BY <1>4 DEF Orders
  <2> HIDE DEF first
  <2>. QED
    BY <1>6, <1>7, <2>1
<1>. QED
  BY <1>4, <1>5, <1>8

\* All orders of a document that says things once give the same feed.
LEMMA ParseOrder ==
  ASSUME NEW d, SaysOnce(d.root, d.about), \A i \in DOMAIN d.entries : SaysOnce(d.root, d.entries[i].elements),
         \A i \in DOMAIN d.entries : AtMostOne(d.entries[i]),
         NEW s, IsOrder(d, s), NEW t, IsOrder(d, t)
  PROVE  Parse(d, s) = Parse(d, t)
<1> DEFINE root == d.root
           version == VersionOf(root)
           Of(o, i) == [base |-> d.entries[i].base, about |-> d.entries[i].about, elements |-> o.entries[i]]
           Sent(o) == [i \in DOMAIN d.entries |-> Of(o, i)]
           Item(o, i) == ParsedItem(version, NsOf(root), d.base, Of(o, i))
           Feed(o) == ParsedFeed(root, d.base, o.about)
<1>1. \A o : Parse(d, o) = Filled(root, d.base, o.about, Sent(o))
  BY DEF Parse
<1>2. CASE version = "throws"
  BY <1>1, <1>2 DEF Filled
<1>3. CASE version # "throws"
  <2>1. Feed(s) = Feed(t)
    BY <1>3, AboutOrder DEF IsOrder
  <2>2. ASSUME NEW i \in DOMAIN d.entries PROVE Item(s, i) = Item(t, i)
    <3> DEFINE entry == d.entries[i]
    <3>1. SaysOnce(root, entry.elements) /\ AtMostOne(entry) /\ s.entries[i] \in SetToSeqs(entry.elements)
          /\ t.entries[i] \in SetToSeqs(entry.elements)
      BY DEF IsOrder
    <3> HIDE DEF entry, root
    <3>2. SameItem(root, d.base, entry.base, entry.about, s.entries[i], t.entries[i])
      BY <1>3, <3>1, EntryOrder
    <3>. QED
      BY <3>2 DEF entry, SameItem
  <2> DEFINE ByFeed(f, items) ==
        LET link == AbsoluteUrl(MyUri, f.link)
        IN  [ok |-> TRUE, title |-> TitleFor(f.title_type, f.title), link |-> link, description |-> f.description,
             pubDate |-> ParseDate(f.pubDate), rtl |-> f.language \in Rtl,
             items |-> [i \in DOMAIN d.entries |-> Article(version, f, link, items[i])]]
             Items(o) == [i \in DOMAIN d.entries |-> Item(o, i)]
  <2>3. \A o : \A i \in DOMAIN d.entries : Items(o)[i] = ParsedItem(version, NsOf(root), d.base, Sent(o)[i])
    OBVIOUS
  <2>4. \A o : DOMAIN Sent(o) = DOMAIN d.entries
    OBVIOUS
  <2>5. Items(s) = Items(t)
    BY <2>2
  <2>6. ASSUME NEW o PROVE Filled(root, d.base, o.about, Sent(o)) = ByFeed(Feed(o), Items(o))
    <3> DEFINE es == Sent(o)
               items == Items(o)
               f == Feed(o)
    <3>1. /\ DOMAIN es = DOMAIN d.entries
          /\ \A i \in DOMAIN d.entries : items[i] = ParsedItem(version, NsOf(root), d.base, es[i])
      OBVIOUS
    <3> HIDE DEF es, items
    <3>. QED
      BY <1>3, <3>1 DEF Filled
  <2> HIDE DEF Items, Feed
  <2>. QED
    BY <1>1, <2>1, <2>5, <2>6
<1>. QED
  BY <1>2, <1>3

\* What is stored was parsed from some order of a document.
DocumentsInv ==
  /\ doc \in Documents
  /\ sent # None => IsOrder(doc, sent) /\ stored = Parse(doc, sent)

THEOREM DocumentsInvariant == DocumentsSpec => []DocumentsInv
<1>1. DocumentsInit => DocumentsInv
  BY DEF DocumentsInit, DocumentsInv
<1>2. DocumentsInv /\ [DocumentsNext]_docVars => DocumentsInv'
  <2> SUFFICES ASSUME DocumentsInv, [DocumentsNext]_docVars
               PROVE  DocumentsInv'
    OBVIOUS
  <2>1. CASE DocumentsNext
    <3>1. PICK order \in Orders(doc) : Fetch(order)
      BY <2>1 DEF DocumentsNext
    <3>2. SaysOnce(doc.root, doc.about) /\ \A i \in DOMAIN doc.entries : SaysOnce(doc.root, doc.entries[i].elements)
      BY DocumentsAssumption DEF DocumentsInv
    <3>3. IsOrder(doc, order)
      BY <3>2, OrdersAreOrders
    <3>. QED
      BY <3>1, <3>3 DEF Fetch, DocumentsInv
  <2>2. CASE UNCHANGED docVars
    BY <2>2 DEF docVars, DocumentsInv
  <2>. QED
    BY <2>1, <2>2
<1>. QED
  BY <1>1, <1>2, PTL DEF DocumentsSpec

\* In whatever order a server sends the elements of a feed or of an entry, and
\* whatever they are, the articles are the same, if no entry has two enclosures.
THEOREM OrderIsForgotten == DocumentsSpec => []OrderMakesNoDifference
<1>1. DocumentsInv => OrderMakesNoDifference
  <2> SUFFICES ASSUME DocumentsInv, sent # None, \A i \in DOMAIN doc.entries : AtMostOne(doc.entries[i])
               PROVE  stored = Parse(doc, FirstOrder(doc))
    BY DEF OrderMakesNoDifference
  <2>1. SaysOnce(doc.root, doc.about) /\ \A i \in DOMAIN doc.entries : SaysOnce(doc.root, doc.entries[i].elements)
    BY DocumentsAssumption DEF DocumentsInv
  <2>2. IsOrder(doc, FirstOrder(doc))
    BY <2>1, OrdersAreOrders
  <2>3. Parse(doc, sent) = Parse(doc, FirstOrder(doc))
    BY <2>1, <2>2, ParseOrder DEF DocumentsInv
  <2>. QED
    BY <2>3 DEF DocumentsInv
<1>. QED
  BY <1>1, DocumentsInvariant, PTL
=============================================================================
