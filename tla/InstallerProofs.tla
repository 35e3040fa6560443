-------------------------- MODULE InstallerProofs --------------------------
(***************************************************************************)
(* What any number of interrupted installations leave on the disk.  The    *)
(* proof follows the script by the number of its commands that have been   *)
(* executed.                                                               *)
(***************************************************************************)
EXTENDS Installer, Integers, SequenceTheorems, TLAPS

Verbs == {"clean tmp", "scp", "clean new", "cp", "chmod", "mv", "mv stress",
          "rm client", "rm backend", "ln client", "ln backend"}
Commands == [do : Verbs, file : Files \cup {Nothing}]

\* The orders in which the files are uploaded and copied; the last of them
\* only if the stress renderer is included.
UploadOrder == Metadata \o Programs \o <<Stress>>
CopyOrder   == Programs \o Metadata \o <<Stress>>

\* 1 if the stress renderer is included, 1 if there is a backend link.
Include(o) == IF o.stress THEN 1 ELSE 0
Two == IF android THEN 1 ELSE 0

Length(o) == 26 + (2 * Include(o)) + Two

\* What the first n commands of the script have done to each file, with
\* e = Include(options).
Uploaded(n) ==
  \A i \in 1 .. 6 + Include(options) :
    (1 + i <= n /\ n < Length(options)) => disk.tmp[UploadOrder[i]] = "whole"

Copied(n) ==
  LET e == Include(options) IN
  /\ \A i \in 1 .. 6 + e :
       (8 + e + i <= n /\ n < 15 + (2 * e)) => disk.fresh[CopyOrder[i]] = "whole"
  /\ (e = 0 /\ 8 <= n) => disk.fresh[Stress] = Nothing

Renamed(n) ==
  LET e == Include(options) IN
  15 + (2 * e) <= n =>
    /\ \A i \in 1 .. 6 :
         IF 15 + (2 * e) + i <= n
         THEN disk.fresh[CopyOrder[i]] = Nothing /\ disk.bin[CopyOrder[i]] = "ready"
         ELSE disk.fresh[CopyOrder[i]] = "ready"
    /\ IF 22 + (2 * e) <= n
       THEN /\ disk.fresh[Stress] = Nothing
            /\ disk.bin[Stress] = IF options.stress THEN "ready" ELSE Nothing
       ELSE options.stress => disk.fresh[Stress] = "ready"

Linked(n) ==
  LET e == Include(options) IN
  /\ 25 + (2 * e) <= n => disk.client = options.renderer
  /\ (android /\ 26 + (2 * e) <= n) => disk.backend = "wayland_rect"

Progress(n) == Uploaded(n) /\ Copied(n) /\ Renamed(n) /\ Linked(n)

\* The commands left are those of the script after the first n.
Remaining(n) ==
  /\ todo \in Seq(Commands) /\ Len(todo) = Length(options) - n
  /\ \A i \in 1 .. Len(todo) : todo[i] = Script(options)[n + i]

InstallerInv ==
  /\ android \in BOOLEAN /\ options \in Offered /\ disk \in Disk
  /\ status \in {"never", "running", "stopped", "finished"}
  /\ status = "running" =>
       \E n \in 0 .. Length(options) - 1 : Remaining(n) /\ Progress(n)
  /\ status = "finished" => Complete
-----------------------------------------------------------------------------
(* The script, command by command                                          *)

LEMMA FileNames ==
  /\ Files = {"native_main", "wayland_rect", "wayland_egl", "appinfo",
              "packageinfo", "icon", "wayland_egl_stress"}
  /\ Nothing \notin Files /\ Renderers \subseteq Files
BY DEF Files, Programs, Metadata, Stress, Nothing, Renderers

\* u has the elements of s, then those of t.
Chain(S, u, s, t) ==
  /\ u \in Seq(S) /\ Len(u) = Len(s) + Len(t)
  /\ \A i \in 1 .. Len(s) : u[i] = s[i]
  /\ \A i \in 1 .. Len(t) : u[Len(s) + i] = t[i]

LEMMA JoinProperties ==
  ASSUME NEW S, NEW s \in Seq(S), NEW t \in Seq(S)
  PROVE  Chain(S, s \o t, s, t)
<1>1. Len(s) \in Nat /\ Len(t) \in Nat
  BY LenProperties
<1>2. /\ s \o t \in Seq(S) /\ Len(s \o t) = Len(s) + Len(t)
      /\ \A i \in 1 .. Len(s) + Len(t) :
           (s \o t)[i] = IF i <= Len(s) THEN s[i] ELSE t[i - Len(s)]
  BY ConcatProperties
<1>3. \A i \in 1 .. Len(t) : (s \o t)[Len(s) + i] = t[i]
  <2> SUFFICES ASSUME NEW i \in 1 .. Len(t) PROVE (s \o t)[Len(s) + i] = t[i]
    OBVIOUS
  <2>1. Len(s) + i \in 1 .. Len(s) + Len(t) /\ ~(Len(s) + i <= Len(s))
        /\ (Len(s) + i) - Len(s) = i
    BY <1>1
  <2> QED  BY <1>2, <2>1
<1>4. \A i \in 1 .. Len(s) : (s \o t)[i] = s[i]
  BY <1>1, <1>2
<1> QED  BY <1>2, <1>3, <1>4 DEF Chain

\* v: the three of s, the three of t, the one of x.
Seven(v, s, t, x) ==
  /\ v[1] = s[1] /\ v[2] = s[2] /\ v[3] = s[3]
  /\ v[4] = t[1] /\ v[5] = t[2] /\ v[6] = t[3] /\ v[7] = x[1]

LEMMA ThreeThreeOne ==
  ASSUME NEW s \in Seq(Files), NEW t \in Seq(Files), NEW x \in Seq(Files),
         Len(s) = 3, Len(t) = 3, Len(x) = 1, NEW v, v = (s \o t) \o x
  PROVE  Seven(v, s, t, x)
<1> DEFINE st == s \o t
           u == st \o x
<1>1. /\ st \in Seq(Files) /\ Len(st) = 3 + 3
      /\ \A i \in 1 .. 3 + 3 : st[i] = IF i <= 3 THEN s[i] ELSE t[i - 3]
  <2>1. /\ st \in Seq(Files) /\ Len(st) = Len(s) + Len(t)
        /\ \A i \in 1 .. Len(s) + Len(t) : st[i] = IF i <= Len(s) THEN s[i] ELSE t[i - Len(s)]
    BY ConcatProperties
  <2> HIDE DEF st
  <2> QED  BY <2>1
<1> HIDE DEF st
<1>2. \A i \in 1 .. 7 : u[i] = IF i <= 6 THEN st[i] ELSE x[i - 6]
  <2>1. \A i \in 1 .. Len(st) + Len(x) : u[i] = IF i <= Len(st) THEN st[i] ELSE x[i - Len(st)]
    BY <1>1, ConcatProperties
  <2>2. Len(st) + Len(x) = 7 /\ Len(st) = 6
    BY <1>1
  <2> HIDE DEF u
  <2> QED  BY <2>1, <2>2
<1> HIDE DEF u
<1>3. /\ st[1] = s[1] /\ st[2] = s[2] /\ st[3] = s[3]
      /\ st[4] = t[1] /\ st[5] = t[2] /\ st[6] = t[3]
  BY <1>1
<1>4. /\ u[1] = st[1] /\ u[2] = st[2] /\ u[3] = st[3] /\ u[4] = st[4]
      /\ u[5] = st[5] /\ u[6] = st[6] /\ u[7] = x[1]
  BY <1>2
<1>5. /\ u[1] = s[1] /\ u[2] = s[2] /\ u[3] = s[3]
      /\ u[4] = t[1] /\ u[5] = t[2] /\ u[6] = t[3] /\ u[7] = x[1]
  BY <1>3, <1>4
<1>6. v = u
  BY DEF u, st
<1> QED  BY <1>5, <1>6 DEF Seven

LEMMA Orders ==
  /\ UploadOrder[1] = "appinfo" /\ UploadOrder[2] = "packageinfo"
  /\ UploadOrder[3] = "icon" /\ UploadOrder[4] = "native_main"
  /\ UploadOrder[5] = "wayland_rect" /\ UploadOrder[6] = "wayland_egl"
  /\ UploadOrder[7] = Stress
  /\ CopyOrder[1] = "native_main" /\ CopyOrder[2] = "wayland_rect"
  /\ CopyOrder[3] = "wayland_egl" /\ CopyOrder[4] = "appinfo"
  /\ CopyOrder[5] = "packageinfo" /\ CopyOrder[6] = "icon"
  /\ CopyOrder[7] = Stress
<1> DEFINE M == Metadata
           P == Programs
           X == <<Stress>>
<1>1. /\ M \in Seq(Files) /\ Len(M) = 3 /\ M[1] = "appinfo" /\ M[2] = "packageinfo" /\ M[3] = "icon"
      /\ P \in Seq(Files) /\ Len(P) = 3 /\ P[1] = "native_main" /\ P[2] = "wayland_rect"
      /\ P[3] = "wayland_egl"
      /\ X \in Seq(Files) /\ Len(X) = 1 /\ X[1] = Stress
  BY FileNames DEF Metadata, Programs, Stress
<1> HIDE DEF M, P, X
<1>2. UploadOrder = (M \o P) \o X /\ CopyOrder = (P \o M) \o X
  BY DEF UploadOrder, CopyOrder, M, P, X
<1>3. PICK up, cp : up = UploadOrder /\ cp = CopyOrder
  OBVIOUS
<1>4. Seven(up, M, P, X)
  BY <1>1, <1>2, <1>3, ThreeThreeOne
<1>5. Seven(cp, P, M, X)
  BY <1>1, <1>2, <1>3, ThreeThreeOne
<1> QED  BY <1>1, <1>3, <1>4, <1>5 DEF Seven

\* Every file is copied once; what is copied has been uploaded.
LEMMA OrderFacts ==
  /\ \A i \in 1 .. 7 : UploadOrder[i] \in Files /\ CopyOrder[i] \in Files
  /\ \A i, j \in 1 .. 7 : UploadOrder[i] = UploadOrder[j] => i = j
  /\ \A i, j \in 1 .. 7 : CopyOrder[i] = CopyOrder[j] => i = j
  /\ \A f \in Files \ {Stress} : \E i \in 1 .. 6 : CopyOrder[i] = f
  /\ \A f \in Files \ {Stress} : \E i \in 1 .. 6 : UploadOrder[i] = f
  /\ CopyOrder[7] = Stress /\ UploadOrder[7] = Stress
BY Orders, FileNames DEF Stress

\* What one command, and one command per file, come to.
LEMMA DoProperties ==
  ASSUME NEW c \in Verbs, NEW files \in Seq(Files \cup {Nothing})
  PROVE  /\ Do(c, files) \in Seq(Commands) /\ Len(Do(c, files)) = Len(files)
         /\ \A i \in 1 .. Len(files) : Do(c, files)[i] = [do |-> c, file |-> files[i]]
<1>1. Len(files) \in Nat /\ DOMAIN files = 1 .. Len(files)
      /\ files \in [1 .. Len(files) -> Files \cup {Nothing}]
  BY LenProperties
<1>2. Do(c, files) \in [1 .. Len(files) -> Commands]
  BY <1>1 DEF Do, Commands
<1>3. Do(c, files) \in Seq(Commands) /\ Len(Do(c, files)) = Len(files)
  <2>1. Do(c, files) \in Seq(Commands)
    <3>1. Seq(Commands) = UNION {[1 .. n -> Commands] : n \in Nat}
      BY SeqDef
    <3>2. Do(c, files) \in UNION {[1 .. n -> Commands] : n \in Nat}
      BY <1>1, <1>2
    <3> QED  BY <3>1, <3>2
  <2>2. DOMAIN Do(c, files) = 1 .. Len(Do(c, files)) /\ Len(Do(c, files)) \in Nat
    BY <2>1, LenProperties
  <2>3. DOMAIN Do(c, files) = 1 .. Len(files)
    BY <1>2
  <2>4. ASSUME NEW m \in Nat, NEW n \in Nat, 1 .. m = 1 .. n PROVE m = n
    BY <2>4
  <2> QED  BY <1>1, <2>1, <2>2, <2>3, <2>4
<1> QED  BY <1>1, <1>3 DEF Do

LEMMA OnceProperties ==
  ASSUME NEW c \in Verbs
  PROVE  /\ Once(c) \in Seq(Commands) /\ Len(Once(c)) = 1
         /\ Once(c)[1] = [do |-> c, file |-> Nothing]
<1>1. <<Nothing>> \in Seq(Files \cup {Nothing}) /\ Len(<<Nothing>>) = 1 /\ <<Nothing>>[1] = Nothing
  OBVIOUS
<1>2. 1 \in 1 .. Len(<<Nothing>>)
  BY <1>1
<1> QED  BY <1>1, <1>2, DoProperties DEF Once

LEMMA IncludeType == \A o : Include(o) \in {0, 1} /\ (o.stress => Include(o) = 1)
                             /\ (~o.stress => Include(o) = 0)
BY DEF Include

\* The files a run uploads, and those it copies, are the first of the orders.
LEMMA ListProperties ==
  ASSUME NEW o
  PROVE  LET n == 6 + Include(o)
             up == Metadata \o Programs \o Extra(o)
             cp == Programs \o Metadata \o Extra(o)
         IN /\ up \in Seq(Files \cup {Nothing}) /\ Len(up) = n
            /\ \A i \in 1 .. n : up[i] = UploadOrder[i]
            /\ cp \in Seq(Files \cup {Nothing}) /\ Len(cp) = n
            /\ \A i \in 1 .. n : cp[i] = CopyOrder[i]
<1> DEFINE F == Files \cup {Nothing}
           mp == Metadata \o Programs
           pm == Programs \o Metadata
           one == <<Stress>>
<1>1. /\ Metadata \in Seq(F) /\ Programs \in Seq(F) /\ one \in Seq(F)
      /\ Len(Metadata) = 3 /\ Len(Programs) = 3 /\ Len(one) = 1
  BY FileNames DEF Metadata, Programs, Stress
<1>2. mp \in Seq(F) /\ Len(mp) = 6 /\ pm \in Seq(F) /\ Len(pm) = 6
  BY <1>1, JoinProperties DEF Chain
<1>3. UploadOrder = mp \o one /\ CopyOrder = pm \o one
  BY DEF UploadOrder, CopyOrder
<1> HIDE DEF mp, pm, one
<1>4. ASSUME NEW q \in Seq(F), Len(q) = 6
      PROVE  /\ q \o one \in Seq(F) /\ Len(q \o one) = 7
             /\ \A i \in 1 .. 6 : (q \o one)[i] = q[i]
             /\ q \o <<>> = q
  <2>1. /\ q \o one \in Seq(F) /\ Len(q \o one) = Len(q) + Len(one)
        /\ \A i \in 1 .. Len(q) : (q \o one)[i] = q[i]
    <3>1. Chain(F, q \o one, q, one)
      BY <1>1, <1>4, JoinProperties
    <3> QED  BY <3>1 DEF Chain
  <2>2. q \o <<>> = q
    BY <1>4, ConcatEmptySeq
  <2>3. Len(q) + Len(one) = 7
    BY <1>1, <1>4
  <2>4. Len(q \o one) = 7
    BY <2>1, <2>3, Zenon
  <2>5. \A i \in 1 .. 6 : (q \o one)[i] = q[i]
    BY <1>4, <2>1, Zenon
  <2> QED  BY <2>1, <2>2, <2>4, <2>5, Zenon
<1>5. CASE o.stress
  <2>1. Extra(o) = one /\ 6 + Include(o) = 7
    BY <1>5 DEF Extra, Include, one
  <2>2. /\ UploadOrder \in Seq(F) /\ Len(UploadOrder) = 7
        /\ CopyOrder \in Seq(F) /\ Len(CopyOrder) = 7
    BY <1>2, <1>3, <1>4
  <2>3. Metadata \o Programs \o Extra(o) = UploadOrder /\ Programs \o Metadata \o Extra(o) = CopyOrder
    BY <1>3, <2>1 DEF mp, pm
  <2> QED  BY <2>1, <2>2, <2>3
<1>6. CASE ~o.stress
  <2>1. Extra(o) = <<>> /\ 6 + Include(o) = 6
    BY <1>6 DEF Extra, Include
  <2>2. Metadata \o Programs \o Extra(o) = mp /\ Programs \o Metadata \o Extra(o) = pm
    BY <1>2, <1>4, <2>1 DEF mp, pm
  <2>3. \A i \in 1 .. 6 : UploadOrder[i] = mp[i] /\ CopyOrder[i] = pm[i]
    BY <1>2, <1>3, <1>4
  <2> QED  BY <1>2, <2>1, <2>2, <2>3
<1> QED  BY <1>5, <1>6

Named(c) == [do |-> c, file |-> Nothing]

LEMMA NamedOnce ==
  \A c \in Verbs : Once(c) \in Seq(Commands) /\ Len(Once(c)) = 1 /\ Once(c)[1] = Named(c)
BY OnceProperties DEF Named

\* u is s followed by t; and the lengths.
Sized(s, m) == s \in Seq(Commands) /\ Len(s) = m /\ m \in Nat
Joins(u, s, m, t, n) ==
  /\ Sized(u, m + n)
  /\ \A i \in 1 .. m : u[i] = s[i]
  /\ \A i \in 1 .. n : u[m + i] = t[i]

LEMMA Joined ==
  \A s, t, m, n : Sized(s, m) /\ Sized(t, n) => Joins(s \o t, s, m, t, n)
<1> SUFFICES ASSUME NEW s, NEW t, NEW m, NEW n, Sized(s, m), Sized(t, n)
             PROVE  Joins(s \o t, s, m, t, n)
  OBVIOUS
<1> QED  BY DEF Sized, Joins

LEMMA OneSized == \A c \in Verbs : Sized(Once(c), 1) /\ Once(c)[1] = Named(c)
BY NamedOnce DEF Sized

\* The first n files of an order.
Listed(files, order, n) ==
  /\ files \in Seq(Files \cup {Nothing}) /\ Len(files) = n /\ n \in Nat
  /\ \A i \in 1 .. n : files[i] = order[i]

\* One command c for each of them.
Does(s, c, order, n) ==
  Sized(s, n) /\ \A i \in 1 .. n : s[i] = [do |-> c, file |-> order[i]]

LEMMA ManySized ==
  \A c \in Verbs : \A files, order, n :
    Listed(files, order, n) => Does(Do(c, files), c, order, n)
BY DoProperties DEF Sized, Listed, Does

LEMMA ListsListed ==
  \A o : /\ Listed(Metadata \o Programs \o Extra(o), UploadOrder, 6 + Include(o))
         /\ Listed(Programs \o Metadata \o Extra(o), CopyOrder, 6 + Include(o))
<1> SUFFICES ASSUME NEW o
             PROVE  /\ Listed(Metadata \o Programs \o Extra(o), UploadOrder, 6 + Include(o))
                    /\ Listed(Programs \o Metadata \o Extra(o), CopyOrder, 6 + Include(o))
  OBVIOUS
<1>1. 6 + Include(o) \in Nat
  BY IncludeType
<1> QED  BY <1>1, ListProperties DEF Listed

\* The three parts of the script, command by command.
Uploads(s, n) ==
  /\ Sized(s, 1 + n)
  /\ s[1] = Named("clean tmp")
  /\ \A i \in 1 .. n : s[1 + i] = [do |-> "scp", file |-> UploadOrder[i]]

LEMMA UploadCommands ==
  ASSUME NEW o, NEW n, n = 6 + Include(o)
  PROVE  Uploads(Upload(o), n)
<1>0. n \in Nat
  BY IncludeType
<1>1. PICK up : up = Metadata \o Programs \o Extra(o)
  OBVIOUS
<1>2. PICK a, b : a = Once("clean tmp") /\ b = Do("scp", up)
  OBVIOUS
<1>3. Listed(up, UploadOrder, n)
  BY <1>1, ListsListed
<1>4. Sized(a, 1) /\ a[1] = Named("clean tmp")
  BY <1>2, OneSized DEF Verbs
<1>5. Sized(b, n) /\ \A i \in 1 .. n : b[i] = [do |-> "scp", file |-> UploadOrder[i]]
  <2>1. "scp" \in Verbs
    BY DEF Verbs
  <2>2. Does(b, "scp", UploadOrder, n)
    BY <1>2, <1>3, <2>1, ManySized
  <2> QED  BY <2>2 DEF Does
<1>6. Joins(Upload(o), a, 1, b, n)
  <2>1. Upload(o) = a \o b
    BY <1>1, <1>2 DEF Upload
  <2> QED  BY <1>4, <1>5, <2>1, Joined
<1>7. Upload(o)[1] = a[1]
  BY <1>6 DEF Joins
<1>8. \A i \in 1 .. n : Upload(o)[1 + i] = [do |-> "scp", file |-> UploadOrder[i]]
  BY <1>5, <1>6 DEF Joins
<1>9. Sized(Upload(o), 1 + n)
  BY <1>6 DEF Joins
<1>10. Upload(o)[1] = Named("clean tmp")
  BY <1>4, <1>7
<1> QED  BY <1>8, <1>9, <1>10, Zenon DEF Uploads

Replaces(s, n) ==
  /\ Sized(s, n + 9)
  /\ s[1] = Named("clean new")
  /\ \A i \in 1 .. n : s[1 + i] = [do |-> "cp", file |-> CopyOrder[i]]
  /\ s[n + 2] = Named("chmod")
  /\ \A i \in 1 .. 6 : s[n + 2 + i] = [do |-> "mv", file |-> CopyOrder[i]]
  /\ s[n + 9] = Named("mv stress")

LEMMA ReplaceCommands ==
  ASSUME NEW o, NEW n, n = 6 + Include(o)
  PROVE  Replaces(Replace(o), n)
<1>0. n \in Nat
  BY IncludeType
<1>1. PICK cp, pm : cp = Programs \o Metadata \o Extra(o) /\ pm = Programs \o Metadata
  OBVIOUS
<1>2. PICK a, b, c, d, e : /\ a = Once("clean new") /\ b = Do("cp", cp) /\ c = Once("chmod")
                           /\ d = Do("mv", pm) /\ e = Once("mv stress")
  OBVIOUS
<1>3. PICK ab, abc, abcd, all : /\ ab = a \o b /\ abc = ab \o c
                                /\ abcd = abc \o d /\ all = abcd \o e
  OBVIOUS
<1>4. /\ Sized(a, 1) /\ a[1] = Named("clean new") /\ Sized(c, 1) /\ c[1] = Named("chmod")
      /\ Sized(e, 1) /\ e[1] = Named("mv stress")
  BY <1>2, OneSized DEF Verbs
<1>5. Listed(cp, CopyOrder, n)
  BY <1>1, ListsListed
<1>6. Listed(pm, CopyOrder, 6)
  <2>1. PICK q : q = [stress |-> FALSE]
    OBVIOUS
  <2>2. Extra(q) = <<>> /\ Include(q) = 0
    BY <2>1 DEF Extra, Include
  <2>3. PICK pq : pq = Programs \o Metadata \o Extra(q)
    OBVIOUS
  <2>4. Listed(pq, CopyOrder, 6)
    <3>1. Listed(pq, CopyOrder, 6 + Include(q))
      BY <2>3, ListsListed
    <3>2. 6 + Include(q) = 6
      BY <2>2
    <3> QED  BY <3>1, <3>2
  <2>5. pq = pm
    <3>1. Programs \in Seq(Files) /\ Metadata \in Seq(Files)
      BY FileNames DEF Programs, Metadata, Stress
    <3>2. pm \in Seq(Files)
      BY <1>1, <3>1
    <3>3. pq = pm \o <<>>
      BY <1>1, <2>2, <2>3
    <3> QED  BY <3>2, <3>3, ConcatEmptySeq
  <2> QED  BY <2>4, <2>5
<1>7. Sized(b, n) /\ \A i \in 1 .. n : b[i] = [do |-> "cp", file |-> CopyOrder[i]]
  <2>1. "cp" \in Verbs
    BY DEF Verbs
  <2>2. Does(b, "cp", CopyOrder, n)
    BY <1>2, <1>5, <2>1, ManySized
  <2> QED  BY <2>2 DEF Does
<1>8. Sized(d, 6) /\ \A i \in 1 .. 6 : d[i] = [do |-> "mv", file |-> CopyOrder[i]]
  <2>1. "mv" \in Verbs
    BY DEF Verbs
  <2>2. Does(d, "mv", CopyOrder, 6)
    BY <1>2, <1>6, <2>1, ManySized
  <2> QED  BY <2>2 DEF Does
<1>9. Joins(ab, a, 1, b, n)
  BY <1>3, <1>4, <1>7, Joined
<1>10. Joins(abc, ab, 1 + n, c, 1)
  <2>1. Sized(ab, 1 + n)
    BY <1>9 DEF Joins
  <2> QED  BY <1>3, <1>4, <2>1, Joined
<1>11. Joins(abcd, abc, (1 + n) + 1, d, 6)
  <2>1. Sized(abc, (1 + n) + 1)
    BY <1>10 DEF Joins
  <2> QED  BY <1>3, <1>8, <2>1, Joined
<1>12. Joins(all, abcd, ((1 + n) + 1) + 6, e, 1)
  <2>1. Sized(abcd, ((1 + n) + 1) + 6)
    BY <1>11 DEF Joins
  <2> QED  BY <1>3, <1>4, <2>1, Joined
<1>13. Replace(o) = all
  BY <1>1, <1>2, <1>3 DEF Replace
<1>14. all[1] = a[1] /\ all[n + 2] = c[1] /\ all[n + 9] = e[1]
  <2>1. 1 \in 1 .. 1 + n /\ 1 \in 1 .. (1 + n) + 1 /\ 1 \in 1 .. ((1 + n) + 1) + 6
        /\ n + 2 \in 1 .. (1 + n) + 1 /\ n + 2 \in 1 .. ((1 + n) + 1) + 6 /\ 1 \in 1 .. 1
    BY <1>0
  <2>2. all[1] = abcd[1] /\ abcd[1] = abc[1] /\ abc[1] = ab[1] /\ ab[1] = a[1]
    BY <1>9, <1>10, <1>11, <1>12, <2>1 DEF Joins
  <2>3. all[n + 2] = abcd[n + 2] /\ abcd[n + 2] = abc[n + 2]
    BY <1>11, <1>12, <2>1 DEF Joins
  <2>4. abc[(1 + n) + 1] = c[1] /\ all[(((1 + n) + 1) + 6) + 1] = e[1]
    BY <1>10, <1>12, <2>1 DEF Joins
  <2>5. n + 2 = (1 + n) + 1 /\ n + 9 = (((1 + n) + 1) + 6) + 1
    BY <1>0
  <2> QED  BY <2>2, <2>3, <2>4, <2>5
<1>15. ASSUME NEW i \in 1 .. n PROVE all[1 + i] = b[i]
  <2>1. 1 + i \in 1 .. 1 + n /\ 1 + i \in 1 .. (1 + n) + 1 /\ 1 + i \in 1 .. ((1 + n) + 1) + 6
    BY <1>0
  <2> QED  BY <1>9, <1>10, <1>11, <1>12, <2>1 DEF Joins
<1>16. ASSUME NEW i \in 1 .. 6 PROVE all[n + 2 + i] = d[i]
  <2>1. n + 2 + i \in 1 .. ((1 + n) + 1) + 6 /\ n + 2 + i = ((1 + n) + 1) + i
    BY <1>0
  <2> QED  BY <1>11, <1>12, <2>1 DEF Joins
<1>17. Sized(all, n + 9)
  <2>1. (((1 + n) + 1) + 6) + 1 = n + 9
    BY <1>0
  <2> QED  BY <1>12, <2>1 DEF Joins
<1>18. /\ \A i \in 1 .. n : all[1 + i] = [do |-> "cp", file |-> CopyOrder[i]]
       /\ \A i \in 1 .. 6 : all[n + 2 + i] = [do |-> "mv", file |-> CopyOrder[i]]
  BY <1>7, <1>8, <1>15, <1>16
<1>19. all[1] = Named("clean new") /\ all[n + 2] = Named("chmod") /\ all[n + 9] = Named("mv stress")
  BY <1>4, <1>14
<1>20. Replaces(all, n)
  BY <1>17, <1>18, <1>19, Zenon DEF Replaces
<1> QED  BY <1>13, <1>20, Zenon

Links(s) ==
  /\ Sized(s, 3 + Two)
  /\ s[1] = Named("rm client") /\ s[2] = Named("rm backend")
  /\ s[3] = Named("ln client") /\ (android => s[4] = Named("ln backend"))

LEMMA LinkCommands == Links(Link)
<1>1. PICK a, b, c, d : /\ a = Once("rm client") /\ b = Once("rm backend") /\ c = Once("ln client")
                        /\ d = (IF android THEN Once("ln backend") ELSE <<>>)
  OBVIOUS
<1>2. PICK ab, abc, all : ab = a \o b /\ abc = ab \o c /\ all = abc \o d
  OBVIOUS
<1>3. /\ Sized(a, 1) /\ a[1] = Named("rm client") /\ Sized(b, 1) /\ b[1] = Named("rm backend")
      /\ Sized(c, 1) /\ c[1] = Named("ln client")
  BY <1>1, OneSized DEF Verbs
<1>4. Sized(d, Two) /\ (android => d[1] = Named("ln backend") /\ Two = 1)
  <2>1. CASE android
    BY <1>1, <2>1, OneSized DEF Verbs, Two
  <2>2. CASE ~android
    <3>1. d = <<>> /\ Two = 0
      BY <1>1, <2>2 DEF Two
    <3>2. <<>> \in Seq(Commands) /\ Len(<<>>) = 0
      OBVIOUS
    <3> QED  BY <2>2, <3>1, <3>2 DEF Sized
  <2> QED  BY <2>1, <2>2
<1>5. Joins(ab, a, 1, b, 1)
  BY <1>2, <1>3, Joined
<1>6. Joins(abc, ab, 1 + 1, c, 1)
  <2>1. Sized(ab, 1 + 1)
    BY <1>5 DEF Joins
  <2> QED  BY <1>2, <1>3, <2>1, Joined
<1>7. Joins(all, abc, (1 + 1) + 1, d, Two)
  <2>1. Sized(abc, (1 + 1) + 1)
    BY <1>6 DEF Joins
  <2> QED  BY <1>2, <1>4, <2>1, Joined
<1>8. Link = all
  BY <1>1, <1>2 DEF Link
<1>9. Sized(all, 3 + Two)
  BY <1>7 DEF Joins
<1>10. all[1] = a[1] /\ all[2] = b[1] /\ all[3] = c[1]
  <2>1. all[1] = abc[1] /\ all[2] = abc[2] /\ all[3] = abc[3]
    BY <1>7 DEF Joins
  <2>2. abc[1] = ab[1] /\ abc[2] = ab[2] /\ abc[3] = c[1]
    <3>1. \A i \in 1 .. 1 : abc[(1 + 1) + i] = c[i]
      BY <1>6 DEF Joins
    <3>2. \A i \in 1 .. 2 : abc[i] = ab[i]
      BY <1>6 DEF Joins
    <3>3. abc[(1 + 1) + 1] = c[1]
      BY <3>1
    <3> QED  BY <3>2, <3>3
  <2>3. ab[1] = a[1] /\ ab[2] = b[1]
    <3>1. \A i \in 1 .. 1 : ab[1 + i] = b[i]
      BY <1>5 DEF Joins
    <3>2. \A i \in 1 .. 1 : ab[i] = a[i]
      BY <1>5 DEF Joins
    <3>3. ab[1 + 1] = b[1]
      BY <3>1
    <3> QED  BY <3>2, <3>3
  <2> QED  BY <2>1, <2>2, <2>3
<1>11. ASSUME android PROVE all[4] = d[1]
  <2>1. \A i \in 1 .. Two : all[((1 + 1) + 1) + i] = d[i]
    BY <1>7 DEF Joins
  <2>2. 1 \in 1 .. Two
    <3>1. Two = 1
      BY <1>11 DEF Two
    <3> QED  BY <3>1
  <2>3. all[((1 + 1) + 1) + 1] = d[1]
    BY <2>1, <2>2
  <2> QED  BY <2>3
<1>12. /\ all[1] = Named("rm client") /\ all[2] = Named("rm backend")
       /\ all[3] = Named("ln client") /\ (android => all[4] = Named("ln backend"))
  BY <1>3, <1>4, <1>10, <1>11
<1>13. Links(all)
  BY <1>9, <1>12, Zenon DEF Links
<1> QED  BY <1>8, <1>13, Zenon

\* The whole script, command by command.
Laid(s, e, w) ==
  /\ s[1] = Named("clean tmp")
  /\ \A i \in 1 .. 6 + e : s[1 + i] = [do |-> "scp", file |-> UploadOrder[i]]
  /\ s[8 + e] = Named("clean new")
  /\ \A i \in 1 .. 6 + e : s[8 + e + i] = [do |-> "cp", file |-> CopyOrder[i]]
  /\ s[15 + (2 * e)] = Named("chmod")
  /\ \A i \in 1 .. 6 : s[15 + (2 * e) + i] = [do |-> "mv", file |-> CopyOrder[i]]
  /\ s[22 + (2 * e)] = Named("mv stress")
  /\ s[23 + (2 * e)] = Named("rm client")
  /\ s[24 + (2 * e)] = Named("rm backend")
  /\ s[25 + (2 * e)] = Named("ln client")
  /\ (android => s[26 + (2 * e)] = Named("ln backend"))
  /\ s[(26 + (2 * e)) + w] = Named("clean tmp")

LEMMA ScriptCommands ==
  ASSUME NEW o, NEW e, NEW w, e = Include(o), w = Two
  PROVE  Sized(Script(o), Length(o)) /\ Laid(Script(o), e, w)
<1>0. PICK n, u, r, k : n = 6 + e /\ u = 1 + n /\ r = n + 9 /\ k = 3 + w
  OBVIOUS
<1>1. e \in {0, 1} /\ w \in {0, 1} /\ n \in Nat /\ u \in Nat /\ r \in Nat /\ k \in Nat
  BY <1>0, IncludeType DEF Two
<1>2. PICK U, R, K, Z, UR, URK, s : /\ U = Upload(o) /\ R = Replace(o) /\ K = Link
                                    /\ Z = Once("clean tmp")
                                    /\ UR = U \o R /\ URK = UR \o K /\ s = URK \o Z
  OBVIOUS
<1>3. Script(o) = s
  BY <1>2 DEF Script
<1>4. /\ Sized(U, u) /\ U[1] = Named("clean tmp")
      /\ \A i \in 1 .. n : U[1 + i] = [do |-> "scp", file |-> UploadOrder[i]]
  <2>1. Uploads(U, n)
    BY <1>0, <1>2, UploadCommands
  <2> QED  BY <1>0, <2>1, Zenon DEF Uploads
<1>5. /\ Sized(R, r) /\ R[1] = Named("clean new") /\ R[n + 2] = Named("chmod")
      /\ R[n + 9] = Named("mv stress")
      /\ \A i \in 1 .. n : R[1 + i] = [do |-> "cp", file |-> CopyOrder[i]]
      /\ \A i \in 1 .. 6 : R[n + 2 + i] = [do |-> "mv", file |-> CopyOrder[i]]
  <2>1. Replaces(R, n)
    BY <1>0, <1>2, ReplaceCommands
  <2> QED  BY <1>0, <2>1, Zenon DEF Replaces
<1>6. /\ Sized(K, k) /\ K[1] = Named("rm client") /\ K[2] = Named("rm backend")
      /\ K[3] = Named("ln client") /\ (android => K[4] = Named("ln backend"))
  <2>1. Links(K)
    BY <1>2, LinkCommands
  <2> QED  BY <1>0, <2>1, Zenon DEF Links
<1>7. Sized(Z, 1) /\ Z[1] = Named("clean tmp")
  BY <1>2, OneSized DEF Verbs
<1>8. Joins(UR, U, u, R, r)
  BY <1>2, <1>4, <1>5, Joined
<1>9. Joins(URK, UR, u + r, K, k)
  <2>1. Sized(UR, u + r)
    BY <1>8 DEF Joins
  <2> QED  BY <1>2, <1>6, <2>1, Joined
<1>10. Joins(s, URK, (u + r) + k, Z, 1)
  <2>1. Sized(URK, (u + r) + k)
    BY <1>9 DEF Joins
  <2> QED  BY <1>2, <1>7, <2>1, Joined
<1>11. \A i \in 1 .. u : s[i] = U[i]
  <2> SUFFICES ASSUME NEW i \in 1 .. u PROVE s[i] = U[i]
    OBVIOUS
  <2>1. i \in 1 .. u + r /\ i \in 1 .. (u + r) + k
    BY <1>1
  <2> QED  BY <1>8, <1>9, <1>10, <2>1 DEF Joins
<1>12. \A i \in 1 .. r : s[u + i] = R[i]
  <2> SUFFICES ASSUME NEW i \in 1 .. r PROVE s[u + i] = R[i]
    OBVIOUS
  <2>1. u + i \in 1 .. u + r /\ u + i \in 1 .. (u + r) + k
    BY <1>1
  <2> QED  BY <1>8, <1>9, <1>10, <2>1 DEF Joins
<1>13. \A i \in 1 .. k : s[(u + r) + i] = K[i]
  <2> SUFFICES ASSUME NEW i \in 1 .. k PROVE s[(u + r) + i] = K[i]
    OBVIOUS
  <2>1. (u + r) + i \in 1 .. (u + r) + k
    BY <1>1
  <2> QED  BY <1>9, <1>10, <2>1 DEF Joins
<1>14. Sized(s, ((u + r) + k) + 1) /\ s[((u + r) + k) + 1] = Z[1]
  <2>1. 1 \in 1 .. 1
    OBVIOUS
  <2> QED  BY <1>10, <2>1 DEF Joins
<1>15. ((u + r) + k) + 1 = Length(o) /\ ((u + r) + k) + 1 = (26 + (2 * e)) + w
  BY <1>0, <1>1 DEF Length
<1>16. s[1] = U[1] /\ \A i \in 1 .. n : s[1 + i] = U[1 + i]
  <2>1. 1 \in 1 .. u /\ \A i \in 1 .. n : 1 + i \in 1 .. u
    BY <1>0, <1>1
  <2> QED  BY <1>11, <2>1
<1>17. /\ s[8 + e] = R[1] /\ \A i \in 1 .. 6 + e : s[8 + e + i] = R[1 + i]
       /\ s[15 + (2 * e)] = R[n + 2] /\ s[22 + (2 * e)] = R[n + 9]
       /\ \A i \in 1 .. 6 : s[15 + (2 * e) + i] = R[n + 2 + i]
  <2>1. 1 \in 1 .. r /\ n + 2 \in 1 .. r /\ n + 9 \in 1 .. r
    BY <1>0, <1>1
  <2>2. 8 + e = u + 1 /\ 15 + (2 * e) = u + (n + 2) /\ 22 + (2 * e) = u + (n + 9)
    BY <1>0, <1>1
  <2>3. s[u + 1] = R[1] /\ s[u + (n + 2)] = R[n + 2] /\ s[u + (n + 9)] = R[n + 9]
    BY <1>12, <2>1
  <2>4. ASSUME NEW i \in 1 .. 6 + e PROVE s[8 + e + i] = R[1 + i]
    <3>1. 1 + i \in 1 .. r /\ 8 + e + i = u + (1 + i)
      BY <1>0, <1>1
    <3> QED  BY <1>12, <3>1
  <2>5. ASSUME NEW i \in 1 .. 6 PROVE s[15 + (2 * e) + i] = R[n + 2 + i]
    <3>1. n + 2 + i \in 1 .. r /\ 15 + (2 * e) + i = u + (n + 2 + i)
      BY <1>0, <1>1
    <3> QED  BY <1>12, <3>1
  <2> QED  BY <2>2, <2>3, <2>4, <2>5
<1>18. /\ s[23 + (2 * e)] = K[1] /\ s[24 + (2 * e)] = K[2] /\ s[25 + (2 * e)] = K[3]
       /\ (android => s[26 + (2 * e)] = K[4])
  <2>1. /\ 23 + (2 * e) = (u + r) + 1 /\ 24 + (2 * e) = (u + r) + 2
        /\ 25 + (2 * e) = (u + r) + 3 /\ 26 + (2 * e) = (u + r) + 4
    BY <1>0, <1>1
  <2>2. 1 \in 1 .. k /\ 2 \in 1 .. k /\ 3 \in 1 .. k /\ (android => 4 \in 1 .. k)
    BY <1>0, <1>1 DEF Two
  <2>3. /\ s[(u + r) + 1] = K[1] /\ s[(u + r) + 2] = K[2] /\ s[(u + r) + 3] = K[3]
        /\ (android => s[(u + r) + 4] = K[4])
    BY <1>13, <2>2
  <2> QED  BY <2>1, <2>3
<1>19. \A i \in 1 .. 6 + e : s[1 + i] = [do |-> "scp", file |-> UploadOrder[i]]
  BY <1>0, <1>4, <1>16
<1>20. \A i \in 1 .. 6 + e : s[8 + e + i] = [do |-> "cp", file |-> CopyOrder[i]]
  BY <1>0, <1>5, <1>17
<1>21. \A i \in 1 .. 6 : s[15 + (2 * e) + i] = [do |-> "mv", file |-> CopyOrder[i]]
  BY <1>5, <1>17
<1>22. /\ Sized(s, Length(o)) /\ s[(26 + (2 * e)) + w] = Named("clean tmp")
       /\ s[1] = Named("clean tmp") /\ s[8 + e] = Named("clean new")
       /\ s[15 + (2 * e)] = Named("chmod") /\ s[22 + (2 * e)] = Named("mv stress")
  BY <1>4, <1>5, <1>7, <1>14, <1>15, <1>16, <1>17
<1>23. /\ s[23 + (2 * e)] = Named("rm client") /\ s[24 + (2 * e)] = Named("rm backend")
       /\ s[25 + (2 * e)] = Named("ln client")
       /\ (android => s[26 + (2 * e)] = Named("ln backend"))
  BY <1>6, <1>18
<1>24. Laid(s, e, w)
  BY <1>19, <1>20, <1>21, <1>22, <1>23 DEF Laid
<1> QED  BY <1>3, <1>22, <1>24
-----------------------------------------------------------------------------
(* The launcher                                                            *)

First(i) == i \in DOMAIN Tried /\ Leads(i) /\ \A j \in 1 .. i - 1 : ~Leads(j)

LEMMA OneThenThree ==
  ASSUME NEW S, NEW w \in S, NEW s \in Seq(S), Len(s) = 3
  PROVE  LET q == <<w>> \o s IN
         DOMAIN q = 1 .. 4 /\ q[1] = w /\ q[2] = s[1] /\ q[3] = s[2] /\ q[4] = s[3]
<1>1. PICK a, q : a = <<w>> /\ q = a \o s
  OBVIOUS
<1>2. a \in Seq(S) /\ Len(a) = 1 /\ a[1] = w
  BY <1>1
<1>3. Chain(S, q, a, s)
  BY <1>1, <1>2, JoinProperties
<1>4. Len(q) = 4 /\ DOMAIN q = 1 .. 4
  BY <1>2, <1>3 DEF Chain
<1>5. q[1] = w
  BY <1>2, <1>3 DEF Chain
<1>6. \A i \in 1 .. 3 : q[1 + i] = s[i]
  BY <1>2, <1>3 DEF Chain
<1>7. q[1 + 1] = s[1] /\ q[1 + 2] = s[2] /\ q[1 + 3] = s[3]
  BY <1>6
<1>8. q[2] = s[1] /\ q[3] = s[2] /\ q[4] = s[3]
  BY <1>7
<1> QED  BY <1>1, <1>4, <1>5, <1>8

LEMMA TriedNames ==
  ASSUME disk \in Disk, android \in BOOLEAN
  PROVE  /\ DOMAIN Tried = 1 .. 3 + Two
         /\ \A i \in DOMAIN Tried : Tried[i] \in Renderers \cup {Nothing}
         /\ \E i \in DOMAIN Tried : Tried[i] = "wayland_egl"
         /\ Tried[1] = IF android THEN disk.backend ELSE disk.client
<1> DEFINE R == Renderers \cup {Nothing}
<1>1. PICK t : t = <<disk.client, "wayland_egl", "wayland_rect">>
  OBVIOUS
<1>2. /\ t[1] = disk.client /\ t[2] = "wayland_egl" /\ t[3] = "wayland_rect"
      /\ t[1] \in R /\ t[2] \in R /\ t[3] \in R /\ DOMAIN t = 1 .. 3
  BY <1>1 DEF Disk, Renderers
<1>3. CASE android
  <2>2. disk.backend \in R /\ Two = 1
    BY <1>3 DEF Disk, Two
  <2>1. /\ DOMAIN Tried = 1 .. 4 /\ Tried[1] = disk.backend
        /\ Tried[2] = t[1] /\ Tried[3] = t[2] /\ Tried[4] = t[3]
    <3>1. t \in Seq(R) /\ Len(t) = 3
      BY <1>1, <1>2
    <3>2. Tried = <<disk.backend>> \o t
      BY <1>1, <1>3 DEF Tried
    <3> QED  BY <2>2, <3>1, <3>2, OneThenThree
  <2> QED  BY <1>1, <1>2, <1>3, <2>1, <2>2
<1>4. CASE ~android
  <2>1. Tried = t
    BY <1>1, <1>4 DEF Tried
  <2>2. Two = 0
    BY <1>4 DEF Two
  <2> QED  BY <1>2, <1>4, <2>1, <2>2
<1> QED  BY <1>3, <1>4

\* The launcher becomes the first program that its list leads to.
LaunchFacts ==
  /\ \A i \in DOMAIN Tried : Tried[i] \in Renderers \cup {Nothing}
  /\ \E i \in DOMAIN Tried : Tried[i] = "wayland_egl"
  /\ \A q : q \in Launched <=> \E i : First(i) /\ q = Tried[i]
  /\ (\E i \in DOMAIN Tried : Leads(i)) => \E i : First(i)

LEMMA LaunchOne == (disk \in Disk /\ android \in BOOLEAN) => LaunchFacts
<1> SUFFICES ASSUME disk \in Disk, android \in BOOLEAN PROVE LaunchFacts
  OBVIOUS
<1>1. DOMAIN Tried = 1 .. 3 + Two /\ Two \in {0, 1}
  BY TriedNames DEF Two
<1>2. \A q : q \in Launched <=> \E i : First(i) /\ q = Tried[i]
  BY DEF Launched, First
<1>3. ASSUME NEW i \in DOMAIN Tried, Leads(i) PROVE \E k : First(k)
  <2>1. i \in {1, 2, 3, 4} /\ \A k \in 1 .. i : k \in DOMAIN Tried
    BY <1>1
  <2>2. CASE Leads(1)
    BY <2>1, <2>2, <1>1 DEF First
  <2>3. CASE ~Leads(1) /\ i >= 2 /\ Leads(2)
    <3>1. 2 \in DOMAIN Tried /\ \A j \in 1 .. 2 - 1 : j = 1
      BY <1>1, <2>1, <2>3
    <3> QED  BY <2>3, <3>1 DEF First
  <2>4. CASE ~Leads(1) /\ ~Leads(2) /\ i >= 3 /\ Leads(3)
    <3>1. 3 \in DOMAIN Tried /\ \A j \in 1 .. 3 - 1 : j = 1 \/ j = 2
      BY <1>1, <2>1, <2>4
    <3> QED  BY <2>4, <3>1 DEF First
  <2>5. CASE ~Leads(1) /\ ~Leads(2) /\ ~Leads(3) /\ i = 4
    <3>1. 4 \in DOMAIN Tried /\ \A j \in 1 .. 4 - 1 : j = 1 \/ j = 2 \/ j = 3
      BY <1>1, <2>1, <2>5
    <3> QED  BY <1>3, <2>5, <3>1 DEF First
  <2>6. i = 1 \/ (i >= 2 /\ i = 2) \/ (i >= 3 /\ i >= 2 /\ i = 3) \/ (i >= 3 /\ i >= 2 /\ i = 4)
    BY <2>1
  <2> QED  BY <1>3, <2>2, <2>3, <2>4, <2>5, <2>6
<1> QED  BY <1>2, <1>3, TriedNames DEF LaunchFacts

LEMMA LaunchNext == (disk \in Disk /\ android \in BOOLEAN)' => LaunchFacts'
BY LaunchOne, PTL

\* With every file in place but perhaps the stress renderer, whatever the
\* links are.
AllReady ==
  /\ \A f \in Files \ {Stress} : disk.bin[f] = "ready"
  /\ disk.bin[Stress] \in {"ready", Nothing}

LEMMA ReadyLaunches ==
  (disk \in Disk /\ android \in BOOLEAN /\ AllReady) => Launchable
<1> SUFFICES ASSUME disk \in Disk, android \in BOOLEAN, AllReady PROVE Launchable
  OBVIOUS
<1>1. LaunchFacts
  BY LaunchOne
<1>2. \A f \in {"appinfo", "packageinfo", "native_main", "wayland_egl"} : disk.bin[f] = "ready"
  BY FileNames DEF AllReady, Stress
<1>3. \A q \in Renderers : disk.bin[q] # Nothing => disk.bin[q] = "ready"
  BY FileNames DEF AllReady
<1>4. PICK k \in DOMAIN Tried : Tried[k] = "wayland_egl"
  BY <1>1 DEF LaunchFacts
<1>5. Leads(k)
  BY <1>2, <1>4 DEF Leads, Nothing
<1>6. Launched # {}
  BY <1>1, <1>5 DEF LaunchFacts
<1>7. \A q \in Launched : Usable(q)
  <2> SUFFICES ASSUME NEW q \in Launched PROVE Usable(q)
    OBVIOUS
  <2>1. PICK i : First(i) /\ q = Tried[i]
    BY <1>1 DEF LaunchFacts
  <2>2. q # Nothing /\ disk.bin[q] # Nothing /\ q \in Renderers \cup {Nothing}
    BY <1>1, <2>1 DEF First, Leads, LaunchFacts
  <2> QED  BY <1>3, <2>2 DEF Usable
<1>8. \A f \in {"appinfo", "packageinfo", "native_main"} : Usable(f)
  BY <1>2 DEF Usable
<1> QED  BY <1>6, <1>7, <1>8 DEF Launchable

LEMMA ReadyLaunchesNext ==
  (disk \in Disk /\ android \in BOOLEAN /\ AllReady)' => Launchable'
BY ReadyLaunches, PTL

\* One file more that is ready.
LEMMA RenameLaunches ==
  ASSUME disk \in Disk, disk' \in Disk, android \in BOOLEAN, android' = android,
         NEW f \in Files, disk'.bin = [disk.bin EXCEPT ![f] = "ready"],
         disk'.client = disk.client, disk'.backend = disk.backend, Launchable
  PROVE  Launchable'
<1>1. LaunchFacts /\ LaunchFacts'
  BY LaunchOne, LaunchNext
<1>2. Tried' = Tried
  BY DEF Tried
<1>3. \A g \in Files : disk'.bin[g] = IF g = f THEN "ready" ELSE disk.bin[g]
  BY DEF Disk
<1>4. \A g \in Files : Usable(g) => Usable(g)'
  BY <1>3 DEF Usable
<1>5. \A i \in DOMAIN Tried : Leads(i) => Leads(i)'
  <2> SUFFICES ASSUME NEW i \in DOMAIN Tried, Leads(i) PROVE Leads(i)'
    OBVIOUS
  <2>1. Tried[i] \in Files /\ disk.bin[Tried[i]] # Nothing
    BY <1>1, FileNames DEF LaunchFacts, Leads
  <2>2. disk'.bin[Tried[i]] # Nothing
    BY <1>3, <2>1 DEF Nothing
  <2> QED  BY <1>2, <2>1, <2>2 DEF Leads
<1>6. Launched' # {}
  <2>1. PICK q : q \in Launched
    BY DEF Launchable
  <2>2. PICK i : First(i) /\ q = Tried[i]
    BY <1>1, <2>1 DEF LaunchFacts
  <2>3. i \in DOMAIN Tried' /\ Leads(i)'
    BY <1>2, <1>5, <2>2 DEF First
  <2>4. \E k : First(k)'
    BY <1>1, <2>3 DEF LaunchFacts
  <2> QED  BY <1>1, <2>4 DEF LaunchFacts
<1>7. ASSUME NEW q \in Launched' PROVE Usable(q)'
  <2>1. PICK i : First(i)' /\ q = Tried'[i]
    BY <1>1, <1>7 DEF LaunchFacts
  <2>2. i \in DOMAIN Tried /\ Leads(i)' /\ q = Tried[i] /\ q \in Files
    BY <1>1, <1>2, <2>1, FileNames DEF First, LaunchFacts, Leads
  <2>3. CASE q = f
    BY <1>3, <2>2, <2>3 DEF Usable
  <2>4. CASE q # f
    <3>1. disk'.bin[q] = disk.bin[q]
      BY <1>3, <2>2, <2>4
    <3>2. Leads(i)
      BY <1>2, <2>2, <3>1 DEF Leads
    <3>3. \A j \in 1 .. i - 1 : j \in DOMAIN Tried
      <4>1. DOMAIN Tried = 1 .. 3 + Two /\ Two \in {0, 1}
        BY TriedNames DEF Two
      <4> QED  BY <2>2, <4>1
    <3>4. \A j \in 1 .. i - 1 : ~Leads(j)
      BY <1>5, <2>1, <3>3 DEF First
    <3>5. First(i)
      BY <2>2, <3>2, <3>4 DEF First
    <3>6. q \in Launched
      BY <1>1, <2>2, <3>5 DEF LaunchFacts
    <3> QED  BY <1>4, <2>2, <3>6 DEF Launchable
  <2> QED  BY <2>3, <2>4
<1>8. \A g \in {"appinfo", "packageinfo", "native_main"} : Usable(g)'
  BY <1>4, FileNames DEF Launchable
<1> QED  BY <1>6, <1>7, <1>8 DEF Launchable

\* Uploads and copies beside the destination are invisible to the launcher.
LEMMA SameLaunches ==
  ASSUME android' = android, disk'.bin = disk.bin,
         disk'.client = disk.client, disk'.backend = disk.backend, Launchable
  PROVE  Launchable'
<1>1. Tried' = Tried
  BY DEF Tried
<1>2. \A i : Leads(i)' <=> Leads(i)
  BY <1>1 DEF Leads
<1>3. Launched' = Launched
  BY <1>1, <1>2 DEF Launched
<1>4. \A f : Usable(f)' <=> Usable(f)
  BY DEF Usable
<1> QED  BY <1>3, <1>4 DEF Launchable
-----------------------------------------------------------------------------
(* The commands                                                            *)

\* The disk after a step, part by part.
Becomes(tmp, fresh, bin, client, backend) ==
  /\ disk' \in Disk
  /\ disk'.tmp = tmp /\ disk'.fresh = fresh /\ disk'.bin = bin
  /\ disk'.client = client /\ disk'.backend = backend

LEMMA DiskParts ==
  ASSUME disk \in Disk
  PROVE  /\ disk.tmp \in [Files -> Contents] /\ disk.fresh \in [Files -> Contents]
         /\ disk.bin \in [Files -> Contents]
         /\ disk.client \in Renderers \cup {Nothing}
         /\ disk.backend \in Renderers \cup {Nothing}
         /\ Empty \in [Files -> Contents]
BY DEF Disk, Empty, Contents

LEMMA CleanTmpEffect ==
  ASSUME disk \in Disk, disk' = Effect(Named("clean tmp"))
  PROVE  Becomes(Empty, disk.fresh, disk.bin, disk.client, disk.backend)
<1>1. disk' = [disk EXCEPT !.tmp = Empty]
  BY DEF Effect, Named
<1> QED  BY <1>1, DiskParts DEF Becomes, Disk

LEMMA ScpEffect ==
  ASSUME disk \in Disk, NEW f \in Files, disk' = Effect([do |-> "scp", file |-> f])
  PROVE  Becomes([disk.tmp EXCEPT ![f] = "whole"], disk.fresh, disk.bin, disk.client, disk.backend)
<1>1. disk' = [disk EXCEPT !.tmp[f] = "whole"]
  BY DEF Effect
<1>2. [disk.tmp EXCEPT ![f] = "whole"] \in [Files -> Contents]
  BY DiskParts DEF Contents
<1> QED  BY <1>1, <1>2, DiskParts DEF Becomes, Disk

LEMMA CleanNewEffect ==
  ASSUME disk \in Disk, disk' = Effect(Named("clean new"))
  PROVE  Becomes(disk.tmp, Empty, disk.bin, disk.client, disk.backend)
<1>1. disk' = [disk EXCEPT !.fresh = Empty]
  BY DEF Effect, Named
<1> QED  BY <1>1, DiskParts DEF Becomes, Disk

LEMMA CpEffect ==
  ASSUME disk \in Disk, NEW f \in Files, disk' = Effect([do |-> "cp", file |-> f])
  PROVE  Becomes(disk.tmp, [disk.fresh EXCEPT ![f] = disk.tmp[f]], disk.bin,
                 disk.client, disk.backend)
<1>1. disk' = [disk EXCEPT !.fresh[f] = disk.tmp[f]]
  BY DEF Effect
<1>2. [disk.fresh EXCEPT ![f] = disk.tmp[f]] \in [Files -> Contents]
  BY DiskParts
<1> QED  BY <1>1, <1>2, DiskParts DEF Becomes, Disk

Chmod == [f \in Files |-> IF disk.fresh[f] = "whole" THEN "ready" ELSE disk.fresh[f]]

LEMMA ChmodEffect ==
  ASSUME disk \in Disk, disk' = Effect(Named("chmod"))
  PROVE  Becomes(disk.tmp, Chmod, disk.bin, disk.client, disk.backend)
<1>1. disk' = [disk EXCEPT !.fresh = Chmod]
  BY DEF Effect, Named, Chmod
<1>2. Chmod \in [Files -> Contents]
  BY DiskParts DEF Chmod, Contents
<1> QED  BY <1>1, <1>2, DiskParts DEF Becomes, Disk

LEMMA MovedEffect ==
  ASSUME disk \in Disk, NEW f \in Files, disk' = Moved(f)
  PROVE  Becomes(disk.tmp, [disk.fresh EXCEPT ![f] = Nothing],
                 [disk.bin EXCEPT ![f] = disk.fresh[f]], disk.client, disk.backend)
<1>1. disk' = [disk EXCEPT !.bin[f] = disk.fresh[f], !.fresh[f] = Nothing]
  BY DEF Moved
<1>2. /\ [disk.bin EXCEPT ![f] = disk.fresh[f]] \in [Files -> Contents]
      /\ [disk.fresh EXCEPT ![f] = Nothing] \in [Files -> Contents]
  BY DiskParts DEF Contents
<1> QED  BY <1>1, <1>2, DiskParts DEF Becomes, Disk

LEMMA MvEffect ==
  ASSUME NEW f, disk' = Effect([do |-> "mv", file |-> f]) PROVE disk' = Moved(f)
BY DEF Effect

LEMMA MvStressEffect ==
  ASSUME disk' = Effect(Named("mv stress")) PROVE disk' = Moved(Stress)
BY DEF Effect, Named

LEMMA LinkEffect ==
  ASSUME disk \in Disk, options \in Offered, NEW c, disk' = Effect(Named(c)),
         c \in {"rm client", "rm backend", "ln client", "ln backend"}
  PROVE  /\ Becomes(disk.tmp, disk.fresh, disk.bin, disk'.client, disk'.backend)
         /\ c = "ln client" => disk'.client = options.renderer
         /\ c = "ln backend" => disk'.backend = "wayland_rect" /\ disk'.client = disk.client
<1>0. options.renderer \in Renderers /\ "wayland_rect" \in Renderers
  BY DEF Offered, Renderers
<1>1. CASE c = "rm client"
  <2>1. disk' = [disk EXCEPT !.client = Nothing]
    BY <1>1 DEF Effect, Named
  <2> QED  BY <1>1, <2>1, DiskParts DEF Becomes, Disk
<1>2. CASE c = "rm backend"
  <2>1. disk' = [disk EXCEPT !.backend = Nothing]
    BY <1>2 DEF Effect, Named
  <2> QED  BY <1>2, <2>1, DiskParts DEF Becomes, Disk
<1>3. CASE c = "ln client"
  <2>1. disk' = [disk EXCEPT !.client = options.renderer]
    BY <1>3 DEF Effect, Named
  <2> QED  BY <1>0, <1>3, <2>1, DiskParts DEF Becomes, Disk
<1>4. CASE c = "ln backend"
  <2>1. disk' = [disk EXCEPT !.backend = "wayland_rect"]
    BY <1>4 DEF Effect, Named
  <2> QED  BY <1>0, <1>4, <2>1, DiskParts DEF Becomes, Disk
<1> QED  BY <1>1, <1>2, <1>3, <1>4
-----------------------------------------------------------------------------
(* Each command does its part                                              *)

\* A moment of a run: n commands have been executed, the next is command c.
At(n, c) ==
  /\ disk \in Disk /\ options \in Offered /\ android \in BOOLEAN
  /\ n \in 0 .. Length(options) - 1 /\ Progress(n)
  /\ UNCHANGED <<android, options>>
  /\ disk' = Effect(c)

Advances(n) == disk' \in Disk /\ Progress(n)' /\ (Launchable => Launchable')

LEMMA Counts ==
  ASSUME NEW o
  PROVE  /\ Include(o) \in {0, 1} /\ Two \in {0, 1}
         /\ Length(o) = 26 + (2 * Include(o)) + Two
BY IncludeType DEF Two, Length

LEMMA CountsStay ==
  ASSUME UNCHANGED <<android, options>>
  PROVE  /\ Include(options)' = Include(options) /\ Two' = Two
         /\ Length(options)' = Length(options)
BY DEF Include, Two, Length

\* What the script has not come to is not yet asked for.
LEMMA NotYet ==
  ASSUME UNCHANGED <<android, options>>, NEW m \in Nat
  PROVE  /\ m < 8 + Include(options) => Copied(m)'
         /\ m < 15 + (2 * Include(options)) => Renamed(m)'
         /\ m < 25 + (2 * Include(options)) => Linked(m)'
<1>1. Include(options)' = Include(options) /\ Include(options) \in {0, 1}
  BY CountsStay, Counts
<1>2. ASSUME m < 8 + Include(options) PROVE Copied(m)'
  <2>1. \A i \in 1 .. 6 + Include(options) : ~(8 + Include(options) + i <= m)
    BY <1>1, <1>2
  <2>2. ~(Include(options) = 0 /\ 8 <= m)
    BY <1>1, <1>2
  <2> QED  BY <1>1, <2>1, <2>2 DEF Copied
<1>3. ASSUME m < 15 + (2 * Include(options)) PROVE Renamed(m)'
  <2>1. ~(15 + (2 * Include(options)) <= m)
    BY <1>1, <1>3
  <2> QED  BY <1>1, <2>1 DEF Renamed
<1>4. ASSUME m < 25 + (2 * Include(options)) PROVE Linked(m)'
  <2>1. ~(25 + (2 * Include(options)) <= m) /\ ~(26 + (2 * Include(options)) <= m)
    BY <1>1, <1>4
  <2> QED  BY <1>1, <2>1 DEF Linked
<1> QED  BY <1>2, <1>3, <1>4

\* The uploads stay while the script does not touch the directory again.
LEMMA UploadsStay ==
  ASSUME UNCHANGED <<android, options>>, disk'.tmp = disk.tmp,
         NEW n \in Nat, n >= 7 + Include(options), Uploaded(n)
  PROVE  Uploaded(n + 1)'
<1>1. /\ Include(options)' = Include(options) /\ Include(options) \in {0, 1}
      /\ Length(options)' = Length(options) /\ Length(options) \in Nat
  BY CountsStay, Counts
<1>2. ASSUME NEW i \in 1 .. 6 + Include(options), n + 1 < Length(options)
      PROVE  disk.tmp[UploadOrder[i]] = "whole"
  <2>1. 1 + i <= n /\ n < Length(options)
    BY <1>1, <1>2
  <2> QED  BY <2>1 DEF Uploaded
<1> QED  BY <1>1, <1>2 DEF Uploaded

LEMMA CleanTmpFirst ==
  ASSUME NEW n \in Nat, n = 0 PROVE At(n, Named("clean tmp")) => Advances(n + 1)
<1>0. SUFFICES ASSUME At(n, Named("clean tmp")) PROVE Advances(n + 1)
  OBVIOUS
<1>1. Becomes(Empty, disk.fresh, disk.bin, disk.client, disk.backend)
  BY <1>0, CleanTmpEffect DEF At
<1>2. UNCHANGED <<android, options>> /\ Include(options) \in {0, 1}
  BY <1>0, Counts DEF At
<1>3. Uploaded(n + 1)'
  <2>1. \A i \in 1 .. 6 + Include(options) : ~(1 + i <= n + 1)
    BY <1>2
  <2> QED  BY <1>2, <2>1, CountsStay DEF Uploaded
<1>4. Copied(n + 1)' /\ Renamed(n + 1)' /\ Linked(n + 1)'
  <2>1. /\ n + 1 \in Nat /\ n + 1 < 8 + Include(options)
        /\ n + 1 < 15 + (2 * Include(options)) /\ n + 1 < 25 + (2 * Include(options))
    BY <1>2
  <2> QED  BY <1>2, <2>1, NotYet
<1>5. Launchable => Launchable'
  BY <1>1, <1>2, SameLaunches DEF Becomes
<1> QED  BY <1>1, <1>3, <1>4, <1>5 DEF Advances, Progress, Becomes

LEMMA ScpStep ==
  ASSUME NEW i \in 1 .. 6 + Include(options),
         At(i, [do |-> "scp", file |-> UploadOrder[i]])
  PROVE  Advances(1 + i)
<1>1. Include(options) \in {0, 1} /\ UNCHANGED <<android, options>>
  BY Counts DEF At
<1>2. i \in 1 .. 7
  BY <1>1
<1>3. PICK f : f = UploadOrder[i]
  OBVIOUS
<1>4. f \in Files
  BY <1>2, <1>3, OrderFacts
<1>5. Becomes([disk.tmp EXCEPT ![f] = "whole"], disk.fresh, disk.bin, disk.client, disk.backend)
  BY <1>3, <1>4, ScpEffect DEF At
<1>6. /\ i \in Nat /\ 1 + i \in Nat /\ 1 + i < 8 + Include(options)
      /\ 1 + i < 15 + (2 * Include(options)) /\ 1 + i < 25 + (2 * Include(options))
  BY <1>1
<1>7. Copied(1 + i)' /\ Renamed(1 + i)' /\ Linked(1 + i)'
  BY <1>1, <1>6, NotYet
<1>8. Uploaded(1 + i)'
  <2>1. ASSUME NEW j \in 1 .. 6 + Include(options), 1 + j <= 1 + i, 1 + i < Length(options)
        PROVE  disk'.tmp[UploadOrder[j]] = "whole"
    <3>1. j \in 1 .. 7 /\ UploadOrder[j] \in Files
      BY <1>1, OrderFacts
    <3>2. disk.tmp \in [Files -> Contents] /\ disk'.tmp = [disk.tmp EXCEPT ![f] = "whole"]
      BY <1>5, DiskParts DEF At, Becomes
    <3>3. CASE j = i
      BY <1>3, <3>1, <3>2, <3>3
    <3>4. CASE j # i
      <4>1. 1 + j <= i /\ i < Length(options)
        BY <1>1, <1>6, <2>1, <3>4, Counts
      <4>2. disk.tmp[UploadOrder[j]] = "whole"
        BY <4>1 DEF At, Progress, Uploaded
      <4> QED  BY <3>1, <3>2, <4>2
    <3> QED  BY <3>3, <3>4
  <2> QED  BY <1>1, <2>1, CountsStay DEF Uploaded
<1>9. Launchable => Launchable'
  BY <1>1, <1>5, SameLaunches DEF Becomes
<1> QED  BY <1>5, <1>7, <1>8, <1>9 DEF Advances, Progress, Becomes

LEMMA CleanNewStep ==
  ASSUME NEW n \in Nat, NEW e \in {0, 1}, e = Include(options), n = 7 + e
  PROVE  At(n, Named("clean new")) => Advances(n + 1)
<1>0. SUFFICES ASSUME At(n, Named("clean new")) PROVE Advances(n + 1)
  OBVIOUS
<1>1. e \in {0, 1} /\ UNCHANGED <<android, options>>
  BY <1>0, Counts DEF At
<1>2. Becomes(disk.tmp, Empty, disk.bin, disk.client, disk.backend)
  BY <1>0, CleanNewEffect DEF At
<1>3. Uploaded(n + 1)'
  <2>1. n \in Nat /\ n >= 7 + e
    BY <1>1
  <2> QED  BY <1>0, <1>1, <1>2, <2>1, UploadsStay DEF At, Progress, Becomes
<1>4. Copied(n + 1)'
  <2>1. \A i \in 1 .. 6 + e : ~(8 + e + i <= n + 1)
    BY <1>1
  <2>2. Stress \in Files /\ disk'.fresh[Stress] = Nothing
    BY <1>2, OrderFacts DEF Becomes, Empty, Files
  <2>3. Include(options)' = e
    BY <1>1, CountsStay
  <2> QED  BY <2>1, <2>2, <2>3 DEF Copied
<1>5. Renamed(n + 1)' /\ Linked(n + 1)'
  <2>1. n + 1 \in Nat /\ n + 1 < 15 + (2 * e) /\ n + 1 < 25 + (2 * e)
    BY <1>1
  <2> QED  BY <1>1, <2>1, NotYet
<1>6. Launchable => Launchable'
  BY <1>1, <1>2, SameLaunches DEF Becomes
<1> QED  BY <1>2, <1>3, <1>4, <1>5, <1>6 DEF Advances, Progress, Becomes
\* Everything that is to be copied has been uploaded.
LEMMA CopySource ==
  ASSUME NEW n \in Nat, NEW e \in {0, 1}, e = Include(options), Uploaded(n),
         7 + e <= n, n < Length(options), NEW i \in 1 .. 6 + e
  PROVE  disk.tmp[CopyOrder[i]] = "whole"
<1>1. \A j \in 1 .. 6 + e : disk.tmp[UploadOrder[j]] = "whole"
  <2>1. \A j \in 1 .. 6 + e : 1 + j <= n
    OBVIOUS
  <2> QED  BY <2>1 DEF Uploaded
<1>2. i \in 1 .. 7
  OBVIOUS
<1>3. CASE i = 7
  <2>1. e = 1
    BY <1>3
  <2>2. 7 \in 1 .. 6 + e
    BY <2>1
  <2> QED  BY <1>1, <1>3, <2>2, OrderFacts
<1>4. CASE i # 7
  <2>1. CopyOrder[i] \in Files \ {Stress}
    BY <1>2, <1>4, OrderFacts
  <2>2. PICK j \in 1 .. 6 : UploadOrder[j] = CopyOrder[i]
    BY <2>1, OrderFacts
  <2>3. j \in 1 .. 6 + e
    OBVIOUS
  <2> QED  BY <1>1, <2>2, <2>3
<1> QED  BY <1>3, <1>4

LEMMA CpStep ==
  ASSUME NEW n \in Nat, NEW e \in {0, 1}, e = Include(options),
         NEW i \in 1 .. 6 + e, n = 7 + e + i
  PROVE  At(n, [do |-> "cp", file |-> CopyOrder[i]]) => Advances(n + 1)
<1>1. i \in 1 .. 7 /\ (i = 7 => e = 1)
  OBVIOUS
<1>2. /\ n >= 7 + e /\ n + 1 \in Nat /\ n + 1 < 15 + (2 * e) /\ n + 1 < 25 + (2 * e)
      /\ n < 15 + (2 * e) /\ 8 <= n
  OBVIOUS
<1>3. \A j \in 1 .. 6 + e : 8 + e + j <= n + 1 => j = i \/ 8 + e + j <= n
  OBVIOUS
<1>4. PICK f : f = CopyOrder[i]
  OBVIOUS
<1>5. f \in Files /\ (e = 0 => f # Stress)
  BY <1>1, <1>4, OrderFacts
<1>6. SUFFICES ASSUME At(n, [do |-> "cp", file |-> CopyOrder[i]]) PROVE Advances(n + 1)
  OBVIOUS
<1>7. UNCHANGED <<android, options>> /\ Uploaded(n) /\ Copied(n) /\ disk \in Disk
      /\ n < Length(options)
  <2>1. Length(options) \in Nat
    BY Counts
  <2> QED  BY <1>6, <2>1 DEF At, Progress
<1>8. Becomes(disk.tmp, [disk.fresh EXCEPT ![f] = disk.tmp[f]], disk.bin,
              disk.client, disk.backend)
  BY <1>4, <1>5, <1>6, CpEffect DEF At
<1>9. disk.tmp[f] = "whole"
  BY <1>2, <1>4, <1>7, CopySource
<1>10. Uploaded(n + 1)'
  BY <1>2, <1>7, <1>8, UploadsStay DEF Becomes
<1>11. Renamed(n + 1)' /\ Linked(n + 1)'
  BY <1>2, <1>7, NotYet
<1>12. disk'.fresh = [disk.fresh EXCEPT ![f] = "whole"] /\ disk.fresh \in [Files -> Contents]
  BY <1>7, <1>8, <1>9, DiskParts DEF Becomes
<1>13. Copied(n + 1)'
  <2>1. ASSUME NEW j \in 1 .. 6 + e, 8 + e + j <= n + 1
        PROVE  disk'.fresh[CopyOrder[j]] = "whole"
    <3>1. j \in 1 .. 7 /\ CopyOrder[j] \in Files
      BY OrderFacts
    <3>2. CASE j = i
      BY <1>4, <1>5, <1>12, <3>2
    <3>3. CASE 8 + e + j <= n
      <4>1. disk.fresh[CopyOrder[j]] = "whole"
        BY <1>2, <1>7, <3>3 DEF Copied
      <4> QED  BY <1>12, <3>1, <4>1
    <3> QED  BY <1>3, <2>1, <3>2, <3>3
  <2>2. e = 0 => disk'.fresh[Stress] = Nothing
    <3>1. e = 0 => disk.fresh[Stress] = Nothing
      BY <1>2, <1>7 DEF Copied
    <3> QED  BY <1>5, <1>12, <3>1
  <2>3. Include(options)' = e
    BY <1>7, CountsStay
  <2> QED  BY <2>1, <2>2, <2>3 DEF Copied
<1>14. Launchable => Launchable'
  BY <1>7, <1>8, SameLaunches DEF Becomes
<1> QED  BY <1>8, <1>10, <1>11, <1>13, <1>14 DEF Advances, Progress, Becomes

LEMMA ChmodStep ==
  ASSUME NEW n \in Nat, NEW e \in {0, 1}, e = Include(options), n = 14 + (2 * e)
  PROVE  At(n, Named("chmod")) => Advances(n + 1)
<1>1. /\ n >= 7 + e /\ n + 1 \in Nat /\ n + 1 < 25 + (2 * e) /\ n < 15 + (2 * e) /\ 8 <= n
      /\ ~(n + 1 < 15 + (2 * e)) /\ ~(22 + (2 * e) <= n + 1)
      /\ \A i \in 1 .. 6 + e : 8 + e + i <= n
      /\ \A i \in 1 .. 6 : ~(15 + (2 * e) + i <= n + 1)
      /\ \A i \in 1 .. 6 : i \in 1 .. 6 + e /\ i \in 1 .. 7
  OBVIOUS
<1>2. SUFFICES ASSUME At(n, Named("chmod")) PROVE Advances(n + 1)
  OBVIOUS
<1>3. UNCHANGED <<android, options>> /\ Uploaded(n) /\ Copied(n) /\ disk \in Disk
  BY <1>2 DEF At, Progress
<1>4. Becomes(disk.tmp, Chmod, disk.bin, disk.client, disk.backend)
  BY <1>2, ChmodEffect DEF At
<1>5. Uploaded(n + 1)'
  BY <1>1, <1>3, <1>4, UploadsStay DEF Becomes
<1>6. Linked(n + 1)'
  BY <1>1, <1>3, NotYet
<1>7. Include(options)' = e /\ (options.stress => e = 1)
  BY <1>3, CountsStay, IncludeType
<1>8. Stress \in Files /\ \A f \in Files : disk'.fresh[f] =
                            IF disk.fresh[f] = "whole" THEN "ready" ELSE disk.fresh[f]
  BY <1>4, OrderFacts DEF Becomes, Chmod, Files
<1>9. Copied(n + 1)'
  <2>1. e = 0 => disk'.fresh[Stress] = Nothing
    <3>1. e = 0 => disk.fresh[Stress] = Nothing
      BY <1>1, <1>3 DEF Copied
    <3> QED  BY <1>8, <3>1 DEF Nothing
  <2> QED  BY <1>1, <1>7, <2>1 DEF Copied
<1>10. \A i \in 1 .. 6 + e : disk.fresh[CopyOrder[i]] = "whole"
  BY <1>1, <1>3 DEF Copied
<1>11. Renamed(n + 1)'
  <2>1. \A i \in 1 .. 6 : disk'.fresh[CopyOrder[i]] = "ready"
    BY <1>1, <1>8, <1>10, OrderFacts
  <2>2. options.stress => disk'.fresh[Stress] = "ready"
    <3>1. ASSUME e = 1 PROVE disk.fresh[Stress] = "whole"
      <4>1. 7 \in 1 .. 6 + e
        BY <3>1
      <4> QED  BY <1>10, <4>1, OrderFacts
    <3> QED  BY <1>7, <1>8, <3>1
  <2> QED  BY <1>1, <1>3, <1>7, <2>1, <2>2 DEF Renamed
<1>12. Launchable => Launchable'
  BY <1>3, <1>4, SameLaunches DEF Becomes
<1> QED  BY <1>4, <1>5, <1>6, <1>9, <1>11, <1>12 DEF Advances, Progress, Becomes

LEMMA MvStep ==
  ASSUME NEW n \in Nat, NEW e \in {0, 1}, e = Include(options),
         NEW i \in 1 .. 6, n = 14 + (2 * e) + i
  PROVE  At(n, [do |-> "mv", file |-> CopyOrder[i]]) => Advances(n + 1)
<1>1. /\ n >= 7 + e /\ n + 1 \in Nat /\ n + 1 < 25 + (2 * e) /\ 8 <= n /\ 15 + (2 * e) <= n
      /\ ~(n + 1 < 15 + (2 * e)) /\ ~(22 + (2 * e) <= n + 1) /\ ~(22 + (2 * e) <= n)
      /\ ~(15 + (2 * e) + i <= n)
      /\ \A j \in 1 .. 6 : j # i => (15 + (2 * e) + j <= n + 1 <=> 15 + (2 * e) + j <= n)
      /\ 15 + (2 * e) + i <= n + 1 /\ i \in 1 .. 7 /\ i # 7
  OBVIOUS
<1>2. PICK f : f = CopyOrder[i]
  OBVIOUS
<1>3. f \in Files /\ f # Stress /\ \A j \in 1 .. 6 : CopyOrder[j] \in Files /\ (j # i => CopyOrder[j] # f)
  <2>1. \A j \in 1 .. 6 : j \in 1 .. 7
    OBVIOUS
  <2>2. 7 \in 1 .. 7
    OBVIOUS
  <2> QED  BY <1>1, <1>2, <2>1, <2>2, OrderFacts
<1>4. SUFFICES ASSUME At(n, [do |-> "mv", file |-> CopyOrder[i]]) PROVE Advances(n + 1)
  OBVIOUS
<1>5. UNCHANGED <<android, options>> /\ Uploaded(n) /\ Copied(n) /\ Renamed(n) /\ disk \in Disk
      /\ android \in BOOLEAN
  BY <1>4 DEF At, Progress
<1>6. Becomes(disk.tmp, [disk.fresh EXCEPT ![f] = Nothing],
              [disk.bin EXCEPT ![f] = disk.fresh[f]], disk.client, disk.backend)
  <2>1. disk' = Moved(f)
    BY <1>2, <1>4, MvEffect DEF At
  <2> QED  BY <1>3, <1>5, <2>1, MovedEffect
<1>7. disk.fresh[f] = "ready"
  BY <1>1, <1>2, <1>5 DEF Renamed
<1>8. Uploaded(n + 1)'
  BY <1>1, <1>5, <1>6, UploadsStay DEF Becomes
<1>9. Linked(n + 1)'
  BY <1>1, <1>5, NotYet
<1>10. Include(options)' = e
  BY <1>5, CountsStay
<1>11. /\ disk'.fresh[f] = Nothing /\ disk'.bin[f] = "ready" /\ Stress \in Files
       /\ \A g \in Files : g # f => disk'.fresh[g] = disk.fresh[g] /\ disk'.bin[g] = disk.bin[g]
  BY <1>3, <1>5, <1>6, <1>7, DiskParts, OrderFacts DEF Becomes, Files
<1>12. Copied(n + 1)'
  <2>1. e = 0 => disk'.fresh[Stress] = Nothing
    BY <1>1, <1>3, <1>5, <1>11 DEF Copied
  <2> QED  BY <1>1, <1>10, <2>1 DEF Copied
<1>13. Renamed(n + 1)'
  <2>1. ASSUME NEW j \in 1 .. 6
        PROVE  IF 15 + (2 * e) + j <= n + 1
               THEN disk'.fresh[CopyOrder[j]] = Nothing /\ disk'.bin[CopyOrder[j]] = "ready"
               ELSE disk'.fresh[CopyOrder[j]] = "ready"
    <3>1. CASE j = i
      BY <1>1, <1>2, <1>11, <3>1
    <3>2. CASE j # i
      <4>1. IF 15 + (2 * e) + j <= n
            THEN disk.fresh[CopyOrder[j]] = Nothing /\ disk.bin[CopyOrder[j]] = "ready"
            ELSE disk.fresh[CopyOrder[j]] = "ready"
        BY <1>1, <1>5 DEF Renamed
      <4>2. /\ disk'.fresh[CopyOrder[j]] = disk.fresh[CopyOrder[j]]
            /\ disk'.bin[CopyOrder[j]] = disk.bin[CopyOrder[j]]
        BY <1>3, <1>11, <3>2
      <4> QED  BY <1>1, <3>2, <4>1, <4>2
    <3> QED  BY <3>1, <3>2
  <2>2. options.stress => disk'.fresh[Stress] = "ready"
    BY <1>1, <1>3, <1>5, <1>11 DEF Renamed
  <2> QED  BY <1>1, <1>5, <1>10, <2>1, <2>2 DEF Renamed
<1>14. Launchable => Launchable'
  BY <1>3, <1>5, <1>6, <1>7, RenameLaunches DEF Becomes
<1> QED  BY <1>6, <1>8, <1>9, <1>12, <1>13, <1>14 DEF Advances, Progress, Becomes

\* Once the last file is in place the application can be launched whatever
\* becomes of the links.
LEMMA PlacedLaunches ==
  ASSUME NEW n \in Nat, Renamed(n), 22 + (2 * Include(options)) <= n
  PROVE  AllReady
<1>1. Include(options) \in {0, 1}
  BY Counts
<1>2. 15 + (2 * Include(options)) <= n /\ \A i \in 1 .. 6 : 15 + (2 * Include(options)) + i <= n
  BY <1>1
<1>3. \A i \in 1 .. 6 : disk.bin[CopyOrder[i]] = "ready"
  BY <1>2 DEF Renamed
<1>4. disk.bin[Stress] = IF options.stress THEN "ready" ELSE Nothing
  BY <1>2 DEF Renamed
<1>5. \A f \in Files \ {Stress} : \E i \in 1 .. 6 : CopyOrder[i] = f
  BY OrderFacts
<1> QED  BY <1>3, <1>4, <1>5 DEF AllReady

Placed == \A n \in Nat : Renamed(n) /\ 22 + (2 * Include(options)) <= n => AllReady

LEMMA PlacedNow == Placed
BY PlacedLaunches DEF Placed

LEMMA PlacedNext == Placed'
BY PlacedNow, PTL

LEMMA PlacedLaunchesNext ==
  \A n \in Nat : (Renamed(n) /\ 22 + (2 * Include(options)) <= n)' => AllReady'
BY PlacedNext DEF Placed

LEMMA MvStressStep ==
  ASSUME NEW n \in Nat, NEW e \in {0, 1}, e = Include(options), n = 21 + (2 * e)
  PROVE  At(n, Named("mv stress")) => Advances(n + 1)
<1>1. /\ n >= 7 + e /\ n + 1 \in Nat /\ n + 1 < 25 + (2 * e) /\ 8 <= n /\ 15 + (2 * e) <= n
      /\ ~(n + 1 < 15 + (2 * e)) /\ 22 + (2 * e) <= n + 1 /\ ~(22 + (2 * e) <= n)
      /\ \A j \in 1 .. 6 : 15 + (2 * e) + j <= n /\ 15 + (2 * e) + j <= n + 1
  OBVIOUS
<1>2. Stress \in Files /\ \A j \in 1 .. 6 : CopyOrder[j] \in Files /\ CopyOrder[j] # Stress
  <2>1. 7 \in 1 .. 7 /\ \A j \in 1 .. 6 : j \in 1 .. 7 /\ j # 7
    OBVIOUS
  <2> QED  BY <2>1, OrderFacts
<1>3. SUFFICES ASSUME At(n, Named("mv stress")) PROVE Advances(n + 1)
  OBVIOUS
<1>4. UNCHANGED <<android, options>> /\ Uploaded(n) /\ Copied(n) /\ Renamed(n) /\ disk \in Disk
      /\ android \in BOOLEAN
  BY <1>3 DEF At, Progress
<1>5. Becomes(disk.tmp, [disk.fresh EXCEPT ![Stress] = Nothing],
              [disk.bin EXCEPT ![Stress] = disk.fresh[Stress]], disk.client, disk.backend)
  BY <1>2, <1>3, <1>4, MvStressEffect, MovedEffect DEF At
<1>6. disk.fresh[Stress] = IF options.stress THEN "ready" ELSE Nothing
  <2>1. CASE options.stress
    BY <1>1, <1>4, <2>1 DEF Renamed
  <2>2. CASE ~options.stress
    <3>1. e = 0
      BY <2>2, IncludeType
    <3> QED  BY <1>1, <1>4, <2>2, <3>1 DEF Copied
  <2> QED  BY <2>1, <2>2
<1>7. Uploaded(n + 1)'
  BY <1>1, <1>4, <1>5, UploadsStay DEF Becomes
<1>8. Linked(n + 1)'
  BY <1>1, <1>4, NotYet
<1>9. Include(options)' = e
  BY <1>4, CountsStay
<1>10. /\ disk'.fresh[Stress] = Nothing
       /\ disk'.bin[Stress] = IF options.stress THEN "ready" ELSE Nothing
       /\ \A g \in Files : g # Stress => disk'.fresh[g] = disk.fresh[g] /\ disk'.bin[g] = disk.bin[g]
  BY <1>2, <1>4, <1>5, <1>6, DiskParts DEF Becomes
<1>11. Copied(n + 1)'
  BY <1>1, <1>9, <1>10 DEF Copied
<1>12. Renamed(n + 1)'
  <2>1. \A j \in 1 .. 6 : disk.fresh[CopyOrder[j]] = Nothing /\ disk.bin[CopyOrder[j]] = "ready"
    BY <1>1, <1>4 DEF Renamed
  <2>2. \A j \in 1 .. 6 : disk'.fresh[CopyOrder[j]] = Nothing /\ disk'.bin[CopyOrder[j]] = "ready"
    BY <1>2, <1>10, <2>1
  <2> QED  BY <1>1, <1>4, <1>9, <1>10, <2>2 DEF Renamed
<1>13. Launchable'
  <2>1. AllReady'
    BY <1>1, <1>9, <1>12, PlacedLaunchesNext
  <2> QED  BY <1>4, <1>5, <2>1, ReadyLaunchesNext DEF Becomes
<1> QED  BY <1>5, <1>7, <1>8, <1>11, <1>12, <1>13 DEF Advances, Progress, Becomes

\* What is in place stays in place.
LEMMA PlacedStay ==
  ASSUME UNCHANGED <<android, options>>, disk'.fresh = disk.fresh, disk'.bin = disk.bin,
         NEW n \in Nat, n >= 22 + (2 * Include(options)), Copied(n), Renamed(n)
  PROVE  Copied(n + 1)' /\ Renamed(n + 1)' /\ AllReady'
<1>1. PICK e : e = Include(options)
  OBVIOUS
<1>2. e \in {0, 1} /\ Include(options)' = e
  BY <1>1, Counts, CountsStay
<1>3. /\ 8 <= n /\ ~(n + 1 < 15 + (2 * e)) /\ 15 + (2 * e) <= n /\ n + 1 \in Nat
      /\ 22 + (2 * e) <= n /\ 22 + (2 * e) <= n + 1
      /\ \A j \in 1 .. 6 : 15 + (2 * e) + j <= n /\ 15 + (2 * e) + j <= n + 1
  BY <1>1, <1>2
<1>4. Copied(n + 1)'
  BY <1>1, <1>2, <1>3 DEF Copied
<1>5. Renamed(n + 1)'
  BY <1>1, <1>2, <1>3 DEF Renamed
<1> QED  BY <1>2, <1>3, <1>4, <1>5, PlacedLaunchesNext

LinkCommand(d) ==
  CASE d = 22 -> "rm client" [] d = 23 -> "rm backend"
    [] d = 24 -> "ln client" [] d = 25 -> "ln backend"

LEMMA LinkCommandIs ==
  \A d \in 22 .. 25 :
    /\ LinkCommand(d) \in {"rm client", "rm backend", "ln client", "ln backend"}
    /\ d = 24 => LinkCommand(d) = "ln client"
    /\ d = 25 => LinkCommand(d) = "ln backend"
<1>1. /\ LinkCommand(22) = "rm client" /\ LinkCommand(23) = "rm backend"
      /\ LinkCommand(24) = "ln client" /\ LinkCommand(25) = "ln backend"
  BY DEF LinkCommand
<1>2. \A d \in 22 .. 25 : d = 22 \/ d = 23 \/ d = 24 \/ d = 25
  OBVIOUS
<1> QED  BY <1>1, <1>2

LEMMA LinkStep ==
  ASSUME NEW n \in Nat, NEW e \in {0, 1}, e = Include(options),
         NEW d \in 22 .. 25, n = d + (2 * e)
  PROVE  At(n, Named(LinkCommand(d))) => Advances(n + 1)
<1>1. /\ n >= 7 + e /\ n >= 22 + (2 * e)
      /\ 25 + (2 * e) <= n + 1 => d = 24 \/ d = 25
      /\ 26 + (2 * e) <= n + 1 => d = 25
      /\ d = 25 => 25 + (2 * e) <= n
  OBVIOUS
<1>2. PICK c : c = LinkCommand(d)
  OBVIOUS
<1>a. /\ c \in {"rm client", "rm backend", "ln client", "ln backend"}
      /\ d = 24 => c = "ln client"
      /\ d = 25 => c = "ln backend"
  BY <1>2, LinkCommandIs
<1>3. SUFFICES ASSUME At(n, Named(c)) PROVE Advances(n + 1)
  BY <1>2
<1>4. UNCHANGED <<android, options>> /\ Progress(n) /\ disk \in Disk /\ options \in Offered
      /\ android \in BOOLEAN /\ disk' = Effect(Named(c))
  BY <1>3 DEF At
<1>5. /\ Becomes(disk.tmp, disk.fresh, disk.bin, disk'.client, disk'.backend)
      /\ d = 24 => disk'.client = options.renderer
      /\ d = 25 => disk'.backend = "wayland_rect" /\ disk'.client = disk.client
  BY <1>a, <1>4, LinkEffect
<1>6. Uploaded(n + 1)'
  BY <1>1, <1>4, <1>5, UploadsStay DEF Becomes, Progress
<1>7. Copied(n + 1)' /\ Renamed(n + 1)' /\ AllReady'
  BY <1>1, <1>4, <1>5, PlacedStay DEF Becomes, Progress
<1>8. Linked(n + 1)'
  <2>1. 25 + (2 * e) <= n + 1 => disk'.client = options.renderer
    <3>1. 25 + (2 * e) <= n => disk.client = options.renderer
      BY <1>4 DEF Progress, Linked
    <3> QED  BY <1>1, <1>5, <3>1
  <2>2. 26 + (2 * e) <= n + 1 => disk'.backend = "wayland_rect"
    BY <1>1, <1>5
  <2>3. Include(options)' = e
    BY <1>4, CountsStay
  <2> QED  BY <1>4, <2>1, <2>2, <2>3 DEF Linked
<1>9. Launchable'
  BY <1>4, <1>5, <1>7, ReadyLaunchesNext DEF Becomes
<1> QED  BY <1>5, <1>6, <1>7, <1>8, <1>9 DEF Advances, Progress, Becomes

LEMMA CleanTmpLast ==
  ASSUME NEW n \in Nat, NEW e \in {0, 1}, e = Include(options),
         NEW w \in {0, 1}, w = Two, n = 25 + (2 * e) + w
  PROVE  At(n, Named("clean tmp")) => Advances(n + 1) /\ disk'.tmp = Empty
<1>1. /\ n >= 7 + e /\ n >= 22 + (2 * e) /\ 25 + (2 * e) <= n
      /\ 26 + (2 * e) <= n + 1 /\ (w = 1 => 26 + (2 * e) <= n)
      /\ ~(n + 1 < (26 + (2 * e)) + w)
  OBVIOUS
<1>2. SUFFICES ASSUME At(n, Named("clean tmp")) PROVE Advances(n + 1) /\ disk'.tmp = Empty
  OBVIOUS
<1>3. UNCHANGED <<android, options>> /\ Progress(n) /\ disk \in Disk /\ options \in Offered
      /\ android \in BOOLEAN /\ disk' = Effect(Named("clean tmp"))
  BY <1>2 DEF At
<1>4. Becomes(Empty, disk.fresh, disk.bin, disk.client, disk.backend)
  BY <1>3, CleanTmpEffect
<1>5. Include(options)' = e /\ Length(options)' = (26 + (2 * e)) + w
  BY <1>3, CountsStay, Counts
<1>6. Uploaded(n + 1)'
  BY <1>1, <1>5 DEF Uploaded
<1>7. Copied(n + 1)' /\ Renamed(n + 1)' /\ AllReady'
  BY <1>1, <1>3, <1>4, PlacedStay DEF Becomes, Progress
<1>8. Linked(n + 1)'
  <2>1. disk.client = options.renderer
    BY <1>1, <1>3 DEF Progress, Linked
  <2>2. android => disk.backend = "wayland_rect"
    <3>1. android => w = 1
      BY DEF Two
    <3> QED  BY <1>1, <1>3, <3>1 DEF Progress, Linked
  <2> QED  BY <1>3, <1>4, <1>5, <2>1, <2>2 DEF Linked, Becomes
<1>9. Launchable'
  BY <1>3, <1>4, <1>7, ReadyLaunchesNext DEF Becomes
<1> QED  BY <1>4, <1>6, <1>7, <1>8, <1>9 DEF Advances, Progress, Becomes
-----------------------------------------------------------------------------
(* A whole run                                                             *)

\* Where command n + 1 of the script is.
LEMMA Places ==
  ASSUME NEW n \in Nat, NEW e \in {0, 1}, NEW w \in {0, 1}, n < (26 + (2 * e)) + w
  PROVE  \/ n = 0
         \/ n \in 1 .. 6 + e
         \/ n = 7 + e
         \/ \E i \in 1 .. 6 + e : n = 7 + e + i
         \/ n = 14 + (2 * e)
         \/ \E i \in 1 .. 6 : n = 14 + (2 * e) + i
         \/ n = 21 + (2 * e)
         \/ \E d \in 22 .. 24 : n = d + (2 * e)
         \/ n = 25 + (2 * e) /\ w = 1
         \/ n = 25 + (2 * e) + w
<1>1. CASE n < 8 + e
  BY <1>1
<1>2. CASE 8 + e <= n /\ n < 14 + (2 * e)
  <2>1. n - 7 - e \in 1 .. 6 + e /\ n = 7 + e + (n - 7 - e)
    BY <1>2
  <2> QED  BY <2>1
<1>3. CASE 14 + (2 * e) <= n /\ n < 21 + (2 * e)
  <2>1. n = 14 + (2 * e) \/ (n - 14 - (2 * e) \in 1 .. 6 /\ n = 14 + (2 * e) + (n - 14 - (2 * e)))
    BY <1>3
  <2> QED  BY <2>1
<1>4. CASE 21 + (2 * e) <= n /\ n < 25 + (2 * e)
  <2>1. n = 21 + (2 * e) \/ (n - (2 * e) \in 22 .. 24 /\ n = (n - (2 * e)) + (2 * e))
    BY <1>4
  <2> QED  BY <2>1
<1>5. CASE 25 + (2 * e) <= n
  BY <1>5
<1>6. 8 + e <= 14 + (2 * e)
  OBVIOUS
<1> QED  BY <1>1, <1>2, <1>3, <1>4, <1>5, <1>6

\* Command n + 1, wherever it is, does its part.
LEMMA CommandAdvances ==
  ASSUME NEW n \in Nat, n < Length(options), At(n, Script(options)[n + 1])
  PROVE  Advances(n + 1) /\ (n + 1 = Length(options) => disk'.tmp = Empty)
<1>1. PICK s : s = Script(options)
  OBVIOUS
<1>2. PICK e \in {0, 1} : e = Include(options)
  BY Counts
<1>3. PICK w \in {0, 1} : w = Two
  BY Counts
<1>4. Length(options) = (26 + (2 * e)) + w
  BY <1>2, <1>3, Counts
<1>5. Laid(s, e, w)
  BY <1>1, <1>2, <1>3, ScriptCommands
<1>6. At(n, s[n + 1])
  BY <1>1
<1>7. CASE n = 0
  <2>1. n + 1 = 1 /\ n + 1 # (26 + (2 * e)) + w
    BY <1>7
  <2>2. s[n + 1] = Named("clean tmp")
    BY <1>5, <2>1 DEF Laid
  <2>3. Advances(n + 1)
    BY <1>6, <1>7, <2>2, CleanTmpFirst
  <2> QED  BY <1>4, <2>1, <2>3
<1>8. CASE n \in 1 .. 6 + e
  <2>1. n + 1 = 1 + n /\ n + 1 # (26 + (2 * e)) + w
    BY <1>8
  <2>2. s[n + 1] = [do |-> "scp", file |-> UploadOrder[n]]
    BY <1>5, <1>8, <2>1 DEF Laid
  <2>3. Advances(1 + n)
    BY <1>2, <1>6, <1>8, <2>2, ScpStep
  <2> QED  BY <1>4, <2>1, <2>3
<1>9. CASE n = 7 + e
  <2>1. n + 1 = 8 + e /\ n + 1 # (26 + (2 * e)) + w
    BY <1>9
  <2>2. s[n + 1] = Named("clean new")
    BY <1>5, <2>1 DEF Laid
  <2>3. Advances(n + 1)
    BY <1>2, <1>6, <1>9, <2>2, CleanNewStep
  <2> QED  BY <1>4, <2>1, <2>3
<1>10. CASE \E i \in 1 .. 6 + e : n = 7 + e + i
  <2>1. PICK i \in 1 .. 6 + e : n = 7 + e + i
    BY <1>10
  <2>2. n + 1 = 8 + e + i /\ n + 1 # (26 + (2 * e)) + w
    BY <2>1
  <2>3. s[n + 1] = [do |-> "cp", file |-> CopyOrder[i]]
    BY <1>5, <2>2 DEF Laid
  <2>4. Advances(n + 1)
    BY <1>2, <1>6, <2>1, <2>3, CpStep
  <2> QED  BY <1>4, <2>2, <2>4
<1>11. CASE n = 14 + (2 * e)
  <2>1. n + 1 = 15 + (2 * e) /\ n + 1 # (26 + (2 * e)) + w
    BY <1>11
  <2>2. s[n + 1] = Named("chmod")
    BY <1>5, <2>1 DEF Laid
  <2>3. Advances(n + 1)
    BY <1>2, <1>6, <1>11, <2>2, ChmodStep
  <2> QED  BY <1>4, <2>1, <2>3
<1>12. CASE \E i \in 1 .. 6 : n = 14 + (2 * e) + i
  <2>1. PICK i \in 1 .. 6 : n = 14 + (2 * e) + i
    BY <1>12
  <2>2. n + 1 = 15 + (2 * e) + i /\ n + 1 # (26 + (2 * e)) + w
    BY <2>1
  <2>3. s[n + 1] = [do |-> "mv", file |-> CopyOrder[i]]
    BY <1>5, <2>2 DEF Laid
  <2>4. Advances(n + 1)
    BY <1>2, <1>6, <2>1, <2>3, MvStep
  <2> QED  BY <1>4, <2>2, <2>4
<1>13. CASE n = 21 + (2 * e)
  <2>1. n + 1 = 22 + (2 * e) /\ n + 1 # (26 + (2 * e)) + w
    BY <1>13
  <2>2. s[n + 1] = Named("mv stress")
    BY <1>5, <2>1 DEF Laid
  <2>3. Advances(n + 1)
    BY <1>2, <1>6, <1>13, <2>2, MvStressStep
  <2> QED  BY <1>4, <2>1, <2>3
<1>14. CASE \E d \in 22 .. 24 : n = d + (2 * e)
  <2>1. PICK d \in 22 .. 24 : n = d + (2 * e)
    BY <1>14
  <2>2. n + 1 = (d + 1) + (2 * e) /\ n + 1 # (26 + (2 * e)) + w /\ d \in 22 .. 25
    BY <2>1
  <2>3. d = 22 \/ d = 23 \/ d = 24
    OBVIOUS
  <2>4. /\ LinkCommand(22) = "rm client" /\ LinkCommand(23) = "rm backend"
        /\ LinkCommand(24) = "ln client"
    BY DEF LinkCommand
  <2>5. s[n + 1] = Named(LinkCommand(d))
    <3>1. CASE d = 22
      <4>1. n + 1 = 23 + (2 * e)
        BY <2>2, <3>1
      <4> QED  BY <1>5, <2>4, <3>1, <4>1, Zenon DEF Laid
    <3>2. CASE d = 23
      <4>1. n + 1 = 24 + (2 * e)
        BY <2>2, <3>2
      <4> QED  BY <1>5, <2>4, <3>2, <4>1, Zenon DEF Laid
    <3>3. CASE d = 24
      <4>1. n + 1 = 25 + (2 * e)
        BY <2>2, <3>3
      <4> QED  BY <1>5, <2>4, <3>3, <4>1, Zenon DEF Laid
    <3> QED  BY <2>3, <3>1, <3>2, <3>3
  <2>6. Advances(n + 1)
    BY <1>2, <1>6, <2>1, <2>2, <2>5, LinkStep
  <2> QED  BY <1>4, <2>2, <2>6
<1>15. CASE n = 25 + (2 * e) /\ w = 1
  <2>1. n + 1 = 26 + (2 * e) /\ n + 1 # (26 + (2 * e)) + w
    BY <1>15
  <2>2. android
    BY <1>3, <1>15 DEF Two
  <2>3. LinkCommand(25) = "ln backend"
    BY DEF LinkCommand
  <2>4. s[n + 1] = Named(LinkCommand(25))
    BY <1>5, <2>1, <2>2, <2>3 DEF Laid
  <2>5. 25 \in 22 .. 25
    OBVIOUS
  <2>6. Advances(n + 1)
    BY <1>2, <1>6, <1>15, <2>4, <2>5, LinkStep
  <2> QED  BY <1>4, <2>1, <2>6
<1>16. CASE n = 25 + (2 * e) + w
  <2>1. n + 1 = (26 + (2 * e)) + w
    BY <1>16
  <2>2. s[n + 1] = Named("clean tmp")
    BY <1>5, <2>1 DEF Laid
  <2> QED  BY <1>2, <1>3, <1>6, <1>16, <2>2, CleanTmpLast
<1>17. n < (26 + (2 * e)) + w
  BY <1>4
<1> QED  BY <1>7, <1>8, <1>9, <1>10, <1>11, <1>12, <1>13, <1>14, <1>15, <1>16, <1>17, Places
\* A run whose commands have all been executed has left what its options ask
\* for.
Executed ==
  /\ disk \in Disk /\ options \in Offered /\ android \in BOOLEAN
  /\ Progress(Length(options)) /\ disk.tmp = Empty

LEMMA ExecutedIsComplete ==
  ASSUME Executed, status = "finished" PROVE Complete
<1>1. /\ disk \in Disk /\ options \in Offered /\ android \in BOOLEAN /\ disk.tmp = Empty
      /\ Renamed(Length(options)) /\ Linked(Length(options))
  BY DEF Executed, Progress
<1>2. PICK e \in {0, 1} : e = Include(options)
  BY Counts
<1>3. PICK n \in Nat : n = Length(options)
  BY Counts
<1>4. /\ 15 + (2 * e) <= n /\ 22 + (2 * e) <= n /\ 25 + (2 * e) <= n
      /\ \A i \in 1 .. 6 : 15 + (2 * e) + i <= n
  BY <1>2, <1>3, Counts
<1>5. android => 26 + (2 * e) <= n
  <2>1. n = (26 + (2 * e)) + Two /\ Two \in {0, 1}
    BY <1>2, <1>3, Counts
  <2> QED  BY <2>1
<1>6. /\ \A i \in 1 .. 6 : disk.fresh[CopyOrder[i]] = Nothing /\ disk.bin[CopyOrder[i]] = "ready"
      /\ disk.fresh[Stress] = Nothing
      /\ disk.bin[Stress] = IF options.stress THEN "ready" ELSE Nothing
  BY <1>1, <1>2, <1>3, <1>4 DEF Renamed
<1>7. /\ disk.client = options.renderer
      /\ (android => disk.backend = "wayland_rect")
  BY <1>1, <1>2, <1>3, <1>4, <1>5 DEF Linked
<1>8. \A f \in Files \ {Stress} : disk.fresh[f] = Nothing /\ disk.bin[f] = "ready"
  BY <1>6, OrderFacts
<1>9. disk.fresh = Empty
  <2>1. disk.fresh \in [Files -> Contents]
    BY <1>1, DiskParts
  <2>2. \A f \in Files : disk.fresh[f] = Nothing
    BY <1>6, <1>8
  <2> QED  BY <2>1, <2>2 DEF Empty
<1>10. \A f \in Files : disk.bin[f] = IF f # Stress \/ options.stress THEN "ready" ELSE Nothing
  BY <1>6, <1>8
<1>11. PICK q : q = IF android THEN "wayland_rect" ELSE options.renderer
  OBVIOUS
<1>12. Tried[1] = q /\ 1 \in DOMAIN Tried
  <2>1. Tried[1] = IF android THEN disk.backend ELSE disk.client
    BY <1>1, TriedNames
  <2>2. DOMAIN Tried = 1 .. 3 + Two /\ Two \in {0, 1}
    BY <1>1, TriedNames, Counts
  <2>3. 1 \in DOMAIN Tried
    BY <2>2
  <2> QED  BY <1>7, <1>11, <2>1, <2>3
<1>13. q \in Files /\ q # Nothing /\ (q # Stress \/ options.stress)
  <2>1. options.renderer \in Renderers /\ (options.renderer = Stress => options.stress)
    BY <1>1 DEF Offered
  <2>2. "wayland_rect" \in Renderers /\ "wayland_rect" # Stress
    BY DEF Renderers, Stress
  <2> QED  BY <1>11, <2>1, <2>2, FileNames
<1>14. Leads(1)
  <2>1. disk.bin[q] = "ready"
    BY <1>10, <1>13
  <2>2. "ready" # Nothing
    BY DEF Nothing
  <2> QED  BY <1>12, <1>13, <2>1, <2>2 DEF Leads
<1>15. \A i : First(i) <=> i = 1
  <2>1. First(1)
    <3>1. 1 .. 1 - 1 = {}
      OBVIOUS
    <3> QED  BY <1>12, <1>14, <3>1 DEF First
  <2>2. ASSUME NEW i, First(i) PROVE i = 1
    <3>1. i \in 1 .. 3 + Two /\ Two \in {0, 1}
      BY <1>1, <2>2, TriedNames, Counts DEF First
    <3>2. i = 1 \/ 1 \in 1 .. i - 1
      BY <3>1
    <3> QED  BY <1>14, <2>2, <3>2 DEF First
  <2> QED  BY <2>1, <2>2
<1>16. Launched = {q}
  BY <1>1, <1>12, <1>15, LaunchOne DEF LaunchFacts
<1> QED  BY <1>1, <1>7, <1>9, <1>10, <1>11, <1>16 DEF Complete

Finishes == Executed /\ status = "finished" => Complete

LEMMA FinishesNow == Finishes
BY ExecutedIsComplete DEF Finishes

LEMMA FinishesNext == Finishes'
BY FinishesNow, PTL
-----------------------------------------------------------------------------
(* The invariant                                                           *)

LEMMA InstallerStarts == InstallerInit => InstallerInv
<1> SUFFICES ASSUME InstallerInit PROVE InstallerInv
  OBVIOUS
<1>1. options \in Offered /\ android \in BOOLEAN /\ status = "never"
  BY DEF InstallerInit
<1>2. Empty \in [Files -> Contents] /\ Old(options.stress) \in [Files -> Contents]
  BY DEF Empty, Old, Contents
<1>3. /\ options.renderer \in Renderers \cup {Nothing} /\ Nothing \in Renderers \cup {Nothing}
      /\ Backend \in Renderers \cup {Nothing}
  BY <1>1 DEF Offered, Backend, Renderers
<1>4. disk \in Disk
  <2>1. PICK first \in BOOLEAN :
          disk = [tmp |-> Empty, fresh |-> Empty,
                  bin |-> IF first THEN Empty ELSE Old(options.stress),
                  client |-> IF first THEN Nothing ELSE options.renderer,
                  backend |-> IF first THEN Nothing ELSE Backend]
    BY DEF InstallerInit
  <2> QED  BY <1>2, <1>3, <2>1 DEF Disk
<1> QED  BY <1>1, <1>4 DEF InstallerInv

\* What a step of the system establishes.
StepDoes ==
  /\ InstallerInv' /\ disk' \in Disk /\ (Launchable => Launchable')

LEMMA BeginDoes == ASSUME InstallerInv, Begin PROVE StepDoes
<1>1. /\ options' \in Offered /\ todo' = Script(options') /\ status' = "running"
      /\ android' = android /\ disk' = disk /\ disk \in Disk /\ android \in BOOLEAN
  BY DEF InstallerInv, Begin
<1>2. Launchable => Launchable'
  BY <1>1, SameLaunches
<1>3. PICK o : o = options'
  OBVIOUS
<1>4. Two' = Two /\ Include(options)' = Include(o) /\ Length(options)' = Length(o)
      /\ Script(options)' = Script(o)
  BY <1>1, <1>3 DEF Two, Include, Length, Script, Upload, Replace, Link, Extra, Do, Once
<1>5. Sized(Script(o), Length(o))
  BY ScriptCommands
<1>6. Remaining(0)'
  <2>1. PICK m : m = Length(o)
    OBVIOUS
  <2>2. PICK s : s = Script(o)
    OBVIOUS
  <2>3. s \in Seq(Commands) /\ Len(s) = m /\ m \in Nat
    BY <1>5, <2>1, <2>2 DEF Sized
  <2>4. Len(s) = m - 0 /\ \A i \in 1 .. m : s[i] = s[0 + i]
    BY <2>3
  <2>5. todo' = s /\ Length(options)' = m /\ Script(options)' = s
    BY <1>1, <1>3, <1>4, <2>1, <2>2
  <2> QED  BY <2>3, <2>4, <2>5 DEF Remaining
<1>7. Progress(0)'
  <2>1. PICK e \in {0, 1} : e = Include(options)'
    BY <1>4, Counts
  <2>2. /\ \A i \in 1 .. 6 + e : ~(1 + i <= 0) /\ ~(8 + e + i <= 0)
        /\ ~(8 <= 0) /\ ~(15 + (2 * e) <= 0) /\ ~(25 + (2 * e) <= 0) /\ ~(26 + (2 * e) <= 0)
    BY <2>1
  <2> QED  BY <2>1, <2>2 DEF Progress, Uploaded, Copied, Renamed, Linked
<1>8. (0 \in 0 .. Length(options) - 1)'
  <2>1. PICK m \in Nat : m = Length(options)' /\ m >= 26
    BY <1>4, Counts
  <2> QED  BY <2>1
<1>9. InstallerInv'
  BY <1>1, <1>6, <1>7, <1>8 DEF InstallerInv
<1> QED  BY <1>1, <1>2, <1>9 DEF StepDoes

LEMMA StepCommand == ASSUME InstallerInv, Step PROVE StepDoes
<1>1. /\ disk' = Effect(Head(todo)) /\ todo' = Tail(todo)
      /\ status' = IF Len(todo) = 1 THEN "finished" ELSE "running"
      /\ UNCHANGED <<android, options>>
      /\ status = "running" /\ disk \in Disk /\ options \in Offered /\ android \in BOOLEAN
  BY DEF InstallerInv, Step
<1>2. PICK n \in 0 .. Length(options) - 1 : Remaining(n) /\ Progress(n)
  BY <1>1 DEF InstallerInv
<1>3. PICK m \in Nat : m = Length(options)
  BY Counts
<1>4. PICK s : s = Script(options)
  OBVIOUS
<1>5. n \in Nat /\ n < m /\ n + 1 \in Nat
  BY <1>2, <1>3
<1>6. todo \in Seq(Commands) /\ Len(todo) = m - n /\ \A i \in 1 .. m - n : todo[i] = s[n + i]
  BY <1>2, <1>3, <1>4 DEF Remaining
<1>7. todo # <<>> /\ Head(todo) = todo[1] /\ todo[1] = s[n + 1]
  <2>1. Len(todo) > 0 /\ 1 \in 1 .. m - n
    BY <1>5, <1>6
  <2>2. todo # <<>>
    BY <2>1
  <2> QED  BY <1>6, <2>1, <2>2, HeadTailProperties
<1>8. /\ Tail(todo) \in Seq(Commands) /\ Len(Tail(todo)) = (m - n) - 1
      /\ \A i \in 1 .. (m - n) - 1 : Tail(todo)[i] = todo[i + 1]
  <2>1. /\ Tail(todo) \in Seq(Commands) /\ Len(Tail(todo)) = Len(todo) - 1
        /\ \A i \in 1 .. Len(Tail(todo)) : Tail(todo)[i] = todo[i + 1]
    BY <1>6, <1>7, HeadTailProperties
  <2> QED  BY <1>5, <1>6, <2>1
<1>9. At(n, Script(options)[n + 1])
  BY <1>1, <1>2, <1>4, <1>7 DEF At
<1>10. Advances(n + 1) /\ (n + 1 = m => disk'.tmp = Empty)
  BY <1>3, <1>5, <1>9, CommandAdvances
<1>11. Length(options)' = m /\ Script(options)' = s
  BY <1>1, <1>3, <1>4, CountsStay
     DEF Script, Upload, Replace, Link, Extra, Do, Once
<1>12. CASE n + 1 = m
  <2>1. status' = "finished"
    <3>1. Len(todo) = 1
      BY <1>5, <1>6, <1>12
    <3> QED  BY <1>1, <3>1
  <2>2. Executed'
    BY <1>1, <1>10, <1>11, <1>12 DEF Executed, Advances
  <2>3. Complete'
    BY <2>1, <2>2, FinishesNext DEF Finishes
  <2> QED  BY <1>1, <1>10, <2>1, <2>3 DEF StepDoes, InstallerInv, Advances
<1>13. CASE n + 1 # m
  <2>1. status' = "running"
    <3>1. Len(todo) # 1
      BY <1>5, <1>6, <1>13
    <3> QED  BY <1>1, <3>1
  <2>2. n + 1 \in 0 .. m - 1 /\ (m - n) - 1 = m - (n + 1)
    BY <1>5, <1>13
  <2>3. \A i \in 1 .. (m - n) - 1 : todo[i + 1] = s[(n + 1) + i]
    <3>1. SUFFICES ASSUME NEW i \in 1 .. (m - n) - 1 PROVE todo[i + 1] = s[(n + 1) + i]
      OBVIOUS
    <3>2. i + 1 \in 1 .. m - n /\ n + (i + 1) = (n + 1) + i
      BY <1>5
    <3> QED  BY <1>6, <3>2
  <2>4. Remaining(n + 1)'
    <3>1. PICK k : k = n + 1
      OBVIOUS
    <3>2. PICK r : r = Tail(todo)
      OBVIOUS
    <3>3. r \in Seq(Commands) /\ Len(r) = m - k /\ \A i \in 1 .. Len(r) : r[i] = s[k + i]
      BY <1>5, <1>8, <2>2, <2>3, <3>1, <3>2
    <3>4. todo' = r
      BY <1>1, <3>2
    <3>5. Remaining(k)'
      BY <1>11, <3>3, <3>4 DEF Remaining
    <3> QED  BY <3>1, <3>5
  <2>5. InstallerInv'
    BY <1>1, <1>10, <1>11, <2>1, <2>2, <2>4 DEF InstallerInv, Advances
  <2> QED  BY <1>10, <2>5 DEF StepDoes, Advances
<1> QED  BY <1>12, <1>13

\* A command that is cut off changes nothing the launcher sees.
LEMMA StopDoes == ASSUME InstallerInv, Stop PROVE StepDoes
<1>1. PICK c : c = Head(todo)
  OBVIOUS
<1>2. /\ UNCHANGED <<android, options>> /\ status' = "stopped"
      /\ status = "running" /\ disk \in Disk /\ options \in Offered /\ android \in BOOLEAN
      /\ \/ UNCHANGED disk
         \/ c.do = "scp" /\ disk' = [disk EXCEPT !.tmp[c.file] = "part"]
         \/ c.do = "cp"  /\ disk' = [disk EXCEPT !.fresh[c.file] = "part"]
  BY <1>1 DEF InstallerInv, Stop
<1>3. Becomes(disk'.tmp, disk'.fresh, disk.bin, disk.client, disk.backend)
  <2>1. CASE UNCHANGED disk
    BY <1>2, <2>1 DEF Becomes
  <2>2. CASE disk' = [disk EXCEPT !.tmp[c.file] = "part"]
    <3>1. [disk.tmp EXCEPT ![c.file] = "part"] \in [Files -> Contents]
      BY <1>2, DiskParts DEF Contents
    <3> QED  BY <1>2, <2>2, <3>1, DiskParts DEF Becomes, Disk
  <2>3. CASE disk' = [disk EXCEPT !.fresh[c.file] = "part"]
    <3>1. [disk.fresh EXCEPT ![c.file] = "part"] \in [Files -> Contents]
      BY <1>2, DiskParts DEF Contents
    <3> QED  BY <1>2, <2>3, <3>1, DiskParts DEF Becomes, Disk
  <2> QED  BY <1>2, <2>1, <2>2, <2>3
<1>4. Launchable => Launchable'
  BY <1>2, <1>3, SameLaunches DEF Becomes
<1>5. InstallerInv'
  BY <1>2, <1>3 DEF InstallerInv, Becomes
<1> QED  BY <1>3, <1>4, <1>5 DEF StepDoes, Becomes

LEMMA EveryInstallerStep ==
  InstallerInv /\ [InstallerNext]_installVars => StepDoes
<1>1. SUFFICES ASSUME InstallerInv, [InstallerNext]_installVars PROVE StepDoes
  OBVIOUS
<1>2. CASE Begin
  BY <1>1, <1>2, BeginDoes
<1>3. CASE Step
  BY <1>1, <1>3, StepCommand
<1>4. CASE Stop
  BY <1>1, <1>4, StopDoes
<1>5. CASE UNCHANGED installVars
  <2>1. UNCHANGED <<android, options, todo, status, disk>>
    BY <1>5 DEF installVars
  <2>2. InstallerInv'
    <3>1. Script(options)' = Script(options) /\ Length(options)' = Length(options)
          /\ Include(options)' = Include(options)
      BY <2>1 DEF Script, Upload, Replace, Link, Extra, Do, Once, Length, Two, Include
    <3>2. \A n : Remaining(n)' <=> Remaining(n)
      BY <2>1, <3>1 DEF Remaining
    <3>3. \A n : Progress(n)' <=> Progress(n)
      BY <2>1, <3>1 DEF Progress, Uploaded, Copied, Renamed, Linked
    <3>4. Complete' <=> Complete
      <4>1. Tried' = Tried
        BY <2>1 DEF Tried
      <4>2. \A i : Leads(i)' <=> Leads(i)
        BY <2>1, <4>1 DEF Leads
      <4>3. Launched' = Launched
        BY <4>1, <4>2 DEF Launched
      <4> QED  BY <2>1, <4>3 DEF Complete
    <3> QED  BY <1>1, <2>1, <3>1, <3>2, <3>3, <3>4 DEF InstallerInv
  <2>3. Launchable => Launchable'
    BY <2>1, SameLaunches
  <2> QED  BY <2>2, <2>3 DEF StepDoes, InstallerInv
<1> QED  BY <1>1, <1>2, <1>3, <1>4, <1>5 DEF InstallerNext

\* The invariant of the proof.
THEOREM InstallerInvariant == InstallerSpec => []InstallerInv
<1>1. InstallerInv /\ [InstallerNext]_installVars => InstallerInv'
  BY EveryInstallerStep DEF StepDoes
<1> QED  BY <1>1, InstallerStarts, PTL DEF InstallerSpec

\* An application that can be launched can be launched at every moment of
\* every later run of the script, for any number of runs, each with options
\* of its own and stopped at any command (install_tv_lowspace.sh copies
\* beside the destination and renames; native_main.c tries the renderers in
\* turn).
THEOREM ApplicationStaysLaunchable == InstallerSpec => StaysLaunchable
<1>1. InstallerInv /\ [InstallerNext]_installVars
        => [(Launchable => Launchable') /\ disk' \in Disk]_installVars
  BY EveryInstallerStep DEF StepDoes
<1> QED  BY <1>1, InstallerInvariant, PTL DEF InstallerSpec, StaysLaunchable

\* A run that reaches its end has left exactly the installation its options
\* ask for, whatever the runs before it were stopped at: this is the safety
\* half of RerunConverges.
THEOREM FinishedIsComplete == InstallerSpec => [](status = "finished" => Complete)
<1>1. InstallerInv => (status = "finished" => Complete)
  BY DEF InstallerInv
<1> QED  BY <1>1, InstallerInvariant, PTL

\* Once a run of the script has ended, the application can be launched for
\* good, whatever runs follow and wherever they are stopped.
THEOREM LaunchableForGood == InstallerSpec => [](status = "finished" => []Launchable)
<1>1. InstallerInv /\ [InstallerNext]_installVars => (Launchable => Launchable')
  BY EveryInstallerStep DEF StepDoes
<1>2. InstallerInv => (status = "finished" => Launchable)
  <2> SUFFICES ASSUME InstallerInv, status = "finished" PROVE Launchable
    OBVIOUS
  <2>1. disk \in Disk /\ android \in BOOLEAN /\ Complete
    BY DEF InstallerInv
  <2>2. AllReady
    BY <2>1, FileNames DEF Complete, AllReady, Stress
  <2> QED  BY <2>1, <2>2, ReadyLaunches
<1> QED  BY <1>1, <1>2, InstallerInvariant, PTL DEF InstallerSpec

=============================================================================
