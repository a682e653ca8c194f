---- MODULE RuleFormProofs ----
(***************************************************************************)
(* Theorems about RuleForm, for any services, applications, listed rules,  *)
(* lines of the log, texts that the user types, and any number of touches: *)
(* what the dialog sends is well formed, an edit is never more than one    *)
(* rule and changes only what was touched, and what the window lists of a  *)
(* rule that was sent is the same traffic, before and after a profile.     *)
(***************************************************************************)
EXTENDS RuleForm, SequenceTheorems, TLAPS

\* What can be chosen on a side: an entry of its list, or an application that
\* was put there for a rule.
Items(split) == Entries(split) \cup {Entry(app) : app \in STRING \ {""}}

GoodSide(s, split) ==
    /\ s \in PickType
    /\ s.item \in Items(split)
    /\ "" \notin s.extra

\* A form as the dialog can have it.
GoodForm(f) ==
    /\ f \in FormType
    /\ f.simple.pick # "any"
    /\ GoodSide(f.simple, SplitSimple)
    /\ GoodSide(f.src, TRUE)
    /\ GoodSide(f.dst, TRUE)

\* The inductive invariant.
IInv ==
    /\ kind \in {"add", "edit"}
    /\ GoodForm(form)
    /\ SentRulesAreWellFormed
    /\ EditKeepsEveryPort

Sides == {"simple", "src", "dst"}
SplitOf(side) == IF side = "simple" THEN SplitSimple ELSE TRUE

-----------------------------------------------------------------------------
(* Entries *)

\* An application's entry is an entry, of that application.
LEMMA EntryOfApp ==
    ASSUME NEW app \in STRING
    PROVE  Entry(app) \in EntryType /\ Entry(app).app = app
<1>1. CASE app \in DOMAIN Apps
  BY <1>1, RuleCodecAssumption DEF Entry, EntryType
<1>2. CASE app \notin DOMAIN Apps
  <2>1. <<>> \in Seq(PortParts)
    OBVIOUS
  <2> QED
    BY <1>2, <2>1 DEF Entry, EntryType
<1> QED
  BY <1>1, <1>2

\* The parts of an entry without application.
LEMMA EntryWithParts ==
    ASSUME NEW parts \in Seq(PortParts)
    PROVE  LET e == [app |-> "", parts |-> parts]
           IN  e \in EntryType /\ e.app = "" /\ e.parts = parts
  BY EmptyText DEF EntryType

\* An entry without application has a port; a range or list among its ports
\* has a protocol; where services are split it has one port.
LEMMA EntryOfService ==
    ASSUME NEW split \in BOOLEAN, NEW e \in Items(split)
    PROVE  /\ e \in EntryType
           /\ e.app = "" =>
                /\ e.parts # <<>>
                /\ \A k \in DOMAIN e.parts : e.parts[k].port \in Lists => e.parts[k].proto # "any"
                /\ split => Len(e.parts) = 1
<1>1. CASE \E app \in STRING \ {""} : e = Entry(app)
  BY <1>1, EntryOfApp
<1>2. CASE \E app \in DOMAIN Apps : e = Entry(app)
  <2>1. PICK app \in DOMAIN Apps : e = Entry(app)
    BY <1>2
  <2>2. app \in STRING \ {""}
    BY RuleCodecAssumption
  <2> QED
    BY <2>1, <2>2, EntryOfApp
<1>3. CASE split /\ \E s \in Services : e \in Ports1(s)
  <2>1. PICK s \in Services : e \in Ports1(s)
    BY <1>3
  <2>2. PICK k \in DOMAIN s : e = [app |-> "", parts |-> <<s[k]>>]
    BY <2>1 DEF Ports1
  <2>3. s \in Seq(PortParts) /\ (s[k].port \in Lists => s[k].proto # "any")
    BY RuleFormAssumption
  <2>4. s[k] \in PortParts
    BY <2>3
  <2>5. <<s[k]>> \in Seq(PortParts) /\ Len(<<s[k]>>) = 1 /\ DOMAIN <<s[k]>> = {1} /\ <<s[k]>>[1] = s[k]
    BY <2>4
  <2> QED
    <3>1. e \in EntryType /\ e.parts = <<s[k]>>
      BY <2>2, <2>5, EntryWithParts
    <3>2. e.parts # <<>> /\ Len(e.parts) = 1
      BY <3>1, <2>5
    <3>3. \A j \in DOMAIN e.parts : e.parts[j] = s[k]
      BY <3>1, <2>5
    <3> QED
      BY <3>1, <3>2, <3>3, <2>3
<1>4. CASE ~split /\ \E s \in Services : e = Service(s)
  <2>1. PICK s \in Services : e = [app |-> "", parts |-> s]
    BY <1>4 DEF Service
  <2>2. /\ s \in Seq(PortParts) /\ s # <<>>
        /\ \A k \in DOMAIN s : s[k].port \in Lists => s[k].proto # "any"
    BY RuleFormAssumption
  <2> QED
    <3>1. e \in EntryType /\ e.parts = s
      BY <2>1, <2>2, EntryWithParts
    <3> QED
      BY <3>1, <1>4, <2>2
<1> QED
  BY <1>1, <1>2, <1>3, <1>4 DEF Items, Entries

\* The first of some entries is one of them.
LEMMA FirstIsOne ==
    ASSUME NEW entries, entries # {}
    PROVE  First(entries) \in entries
<1>1. \E e \in entries : (\E o \in entries : o.app # "") => e.app # ""
  OBVIOUS
<1> QED
  BY <1>1 DEF First

\* No list is empty.
LEMMA ListsHaveEntries ==
    ASSUME NEW split \in BOOLEAN
    PROVE  Entries(split) # {} /\ First(Entries(split)) \in Items(split)
<1>1. PICK s \in Services : s \in Seq(PortParts) /\ s # <<>>
  BY RuleFormAssumption
<1>2. 1 \in DOMAIN s
  BY <1>1
<1>3. [app |-> "", parts |-> <<s[1]>>] \in Ports1(s)
  BY <1>2 DEF Ports1
<1>4. Entries(split) # {}
  BY <1>3 DEF Entries
<1> QED
  BY <1>4, FirstIsOne DEF Items

-----------------------------------------------------------------------------
(* Fields *)

\* A side of a form may be replaced by any good one.
LEMMA SideReplaced ==
    ASSUME NEW f, GoodForm(f), NEW side \in Sides, NEW s, GoodSide(s, SplitOf(side)),
           side = "simple" => s.pick # "any"
    PROVE  GoodForm([f EXCEPT ![side] = s])
<1> DEFINE g == [f EXCEPT ![side] = s]
<1>1. g \in FormType
  <2>1. s \in PickType
    BY DEF GoodSide
  <2>2. f \in FormType
    BY DEF GoodForm
  <2> QED
    BY <2>1, <2>2 DEF FormType, Sides
<1>2. \A o \in Sides : g[o] = IF o = side THEN s ELSE f[o]
  BY DEF GoodForm, FormType, Sides
<1>3. g.simple = (IF side = "simple" THEN s ELSE f.simple)
      /\ g.src = (IF side = "src" THEN s ELSE f.src)
      /\ g.dst = (IF side = "dst" THEN s ELSE f.dst)
  BY <1>2 DEF Sides
<1> HIDE DEF g
<1>4. GoodSide(g.simple, SplitSimple) /\ g.simple.pick # "any"
  BY <1>3 DEF GoodForm, SplitOf
<1>5. GoodSide(g.src, TRUE) /\ GoodSide(g.dst, TRUE)
  BY <1>3 DEF GoodForm, SplitOf
<1> QED
  BY <1>1, <1>4, <1>5 DEF GoodForm, g

\* A side of a good form is good.
LEMMA SideOfForm ==
    ASSUME NEW f, GoodForm(f), NEW side \in Sides
    PROVE  /\ GoodSide(f[side], SplitOf(side))
           /\ side = "simple" => f[side].pick # "any"
           /\ SplitOf(side) \in BOOLEAN
<1>1. CASE side = "simple"
  BY <1>1 DEF GoodForm, SplitOf, SplitSimple
<1>2. CASE side = "src"
  BY <1>2 DEF GoodForm, SplitOf, GoodSide
<1>3. CASE side = "dst"
  BY <1>3 DEF GoodForm, SplitOf, GoodSide
<1> QED
  BY <1>1, <1>2, <1>3 DEF Sides

\* The slots only set a protocol.
LEMMA ControlKeeps ==
    ASSUME NEW f, GoodForm(f)
    PROVE  /\ GoodForm(controlSimpleProtocol(f))
           /\ GoodForm(controlAdvancedProtocol(f))
           /\ \A side : GoodForm(control(f, side))
<1>1. GoodForm([f EXCEPT !.sproto = "any"]) /\ GoodForm([f EXCEPT !.proto = "any"])
  BY DEF GoodForm, FormType, Protocols
<1>2. GoodForm(controlSimpleProtocol(f))
  BY <1>1 DEF controlSimpleProtocol
<1>3. GoodForm(controlAdvancedProtocol(f))
  BY <1>1 DEF controlAdvancedProtocol
<1> QED
  BY <1>2, <1>3 DEF control

\* Another radio button.
LEMMA PickKeeps ==
    ASSUME NEW f, GoodForm(f), NEW side \in Sides, NEW pick \in {"any", "port", "profile"},
           side = "simple" => pick # "any"
    PROVE  GoodForm(Pick(f, side, pick))
<1> DEFINE s == [f[side] EXCEPT !.pick = pick]
<1>1. GoodSide(f[side], SplitOf(side))
  BY SideOfForm
<1>2. GoodSide(s, SplitOf(side)) /\ s.pick = pick
  BY <1>1 DEF GoodSide, PickType
<1>3. GoodForm([f EXCEPT ![side] = s])
  <2> HIDE DEF s
  <2> QED
    BY <1>2, SideReplaced
<1>4. GoodForm(control([f EXCEPT ![side].pick = pick], side))
  BY <1>3, ControlKeeps
<1> QED
  BY <1>4 DEF Pick

\* A text for the port.
LEMMA PortKeeps ==
    ASSUME NEW f, GoodForm(f), NEW side \in Sides, NEW text \in STRING
    PROVE  GoodForm([f EXCEPT ![side].port = text])
<1> DEFINE s == [f[side] EXCEPT !.port = text]
<1>1. GoodSide(f[side], SplitOf(side)) /\ (side = "simple" => f[side].pick # "any")
  BY SideOfForm
<1>2. GoodSide(s, SplitOf(side)) /\ s.pick = f[side].pick
  BY <1>1 DEF GoodSide, PickType
<1> HIDE DEF s
<1>3. GoodForm([f EXCEPT ![side] = s])
  BY <1>1, <1>2, SideReplaced
<1> QED
  BY <1>3 DEF s

\* A host, or any.
LEMMA HostKeeps ==
    ASSUME NEW f, GoodForm(f), NEW side \in Sides, NEW text \in STRING, NEW any \in BOOLEAN
    PROVE  /\ GoodForm([f EXCEPT ![side].anyHost = any])
           /\ GoodForm([f EXCEPT ![side] = [@ EXCEPT !.anyHost = any, !.host = text]])
<1> DEFINE s == [f[side] EXCEPT !.anyHost = any]
           t == [f[side] EXCEPT !.anyHost = any, !.host = text]
<1>1. GoodSide(f[side], SplitOf(side)) /\ (side = "simple" => f[side].pick # "any")
  BY SideOfForm
<1>2. GoodSide(s, SplitOf(side)) /\ s.pick = f[side].pick
  BY <1>1 DEF GoodSide, PickType
<1>3. GoodSide(t, SplitOf(side)) /\ t.pick = f[side].pick
  BY <1>1 DEF GoodSide, PickType
<1> HIDE DEF s, t
<1>4. GoodForm([f EXCEPT ![side] = s]) /\ GoodForm([f EXCEPT ![side] = t])
  BY <1>1, <1>2, <1>3, SideReplaced
<1> QED
  BY <1>4 DEF s, t

\* An entry that can be chosen is chosen.
LEMMA ChooseKeeps ==
    ASSUME NEW f, GoodForm(f), NEW side \in Sides, NEW e \in Items(SplitOf(side))
    PROVE  GoodForm(Choose(f, side, e))
<1> DEFINE g == Pick(f, side, "profile")
           s == [g[side] EXCEPT !.item = e]
<1>1. GoodForm(g)
  BY PickKeeps
<1>2. /\ GoodSide(g[side], SplitOf(side)) /\ (side = "simple" => g[side].pick # "any")
      /\ SplitOf(side) \in BOOLEAN
  BY <1>1, SideOfForm
<1>3. e \in EntryType
  BY <1>2, EntryOfService
<1>4. GoodSide(s, SplitOf(side)) /\ s.pick = g[side].pick
  BY <1>2, <1>3 DEF GoodSide, PickType
<1>5. Choose(f, side, e) = [g EXCEPT ![side] = s]
  BY DEF Choose
<1> HIDE DEF g, s
<1>6. GoodForm([g EXCEPT ![side] = s])
  BY <1>1, <1>2, <1>4, SideReplaced
<1> QED
  BY <1>5, <1>6

\* The lists hold entries only.
LEMMA ListedAreItems ==
    ASSUME NEW side \in Sides
    PROVE  EntriesOf(side) \subseteq Items(SplitOf(side))
  BY DEF EntriesOf, Items, SplitOf, Entries

-----------------------------------------------------------------------------
(* Filling the dialog *)

\* setRulePort
LEMMA RulePortKeeps ==
    ASSUME NEW f, GoodForm(f), NEW side \in Sides, NEW port \in STRING, NEW proto \in Protocols
    PROVE  GoodForm(setRulePort(f, side, port, proto))
<1> DEFINE blank == Pick(f, side, IF side = "simple" THEN "port" ELSE "any")
           typed == Pick(f, side, "port")
           same  == {e \in EntriesOf(side) : e.parts = <<[port |-> port, proto |-> proto]>>}
<1>1. GoodForm(blank)
  BY PickKeeps
<1>2. GoodForm(typed)
  BY PickKeeps
<1>3. ASSUME same # {} PROVE GoodForm(Choose(typed, side, First(same)))
  <2>1. First(same) \in same
    <3> HIDE DEF same
    <3> QED
      BY <1>3, FirstIsOne
  <2>2. First(same) \in Items(SplitOf(side))
    BY <2>1, ListedAreItems
  <2> HIDE DEF typed, same
  <2> QED
    BY <2>2, <1>2, ChooseKeeps
<1> QED
  BY <1>1, <1>2, <1>3 DEF setRulePort

\* setProfileIndex
LEMMA ProfileIndexKeeps ==
    ASSUME NEW f, GoodForm(f), NEW side \in Sides, NEW app \in STRING \ {""}
    PROVE  GoodForm(setProfileIndex(f, side, app))
<1> DEFINE g == Choose(f, side, Entry(app))
           s == [g[side] EXCEPT !.extra = @ \cup ({app} \ DOMAIN Apps)]
<1>1. GoodForm(g)
  BY ChooseKeeps DEF Items
<1> HIDE DEF g
<1>2. GoodSide(g[side], SplitOf(side)) /\ (side = "simple" => g[side].pick # "any")
  BY <1>1, SideOfForm
<1>3. GoodSide(s, SplitOf(side)) /\ s.pick = g[side].pick
  BY <1>2 DEF GoodSide, PickType
<1> HIDE DEF s
<1>4. GoodForm([g EXCEPT ![side] = s])
  BY <1>1, <1>2, <1>3, SideReplaced
<1> QED
  BY <1>4 DEF setProfileIndex, g, s

\* One or the other.
LEMMA SetSideKeeps ==
    ASSUME NEW f, GoodForm(f), NEW side \in Sides, NEW app \in STRING, NEW port \in STRING,
           NEW proto \in Protocols
    PROVE  GoodForm(SetSide(f, side, app, port, proto))
  BY RulePortKeeps, ProfileIndexKeeps DEF SetSide

\* setRuleType
LEMMA RuleTypeKeeps ==
    ASSUME NEW f, GoodForm(f)
    PROVE  GoodForm(setRuleType(f))
<1>1. f.dst.port \in STRING /\ f.simple.port \in STRING
  BY DEF GoodForm, FormType, PickType
<1>2. GoodForm([f EXCEPT !["simple"].port = f.dst.port])
  BY <1>1, PortKeeps DEF Sides
<1>3. GoodForm([f EXCEPT !["dst"].port = f.simple.port])
  BY <1>1, PortKeeps DEF Sides
<1> QED
  BY <1>2, <1>3 DEF setRuleType

\* setRule, for any rule of the window.
LEMMA RuleKeeps ==
    ASSUME NEW f, GoodForm(f), NEW r \in WindowRules
    PROVE  GoodForm(setRule(f, r))
<1> DEFINE fields == [f EXCEPT !.action = r.action, !.incoming = r.incoming, !.log = r.log,
                               !.simple = [@ EXCEPT !.port = r.dport], !.sproto = r.proto,
                               !.src = [@ EXCEPT !.host = r.src, !.port = r.sport],
                               !.dst = [@ EXCEPT !.host = r.dst, !.port = r.dport], !.proto = r.proto,
                               !.iface = IF r.incoming THEN r.ifin ELSE r.ifout, !.shown = TRUE]
           simple == SetSide(fields, "simple", r.dapp, r.dport, r.proto)
           dest   == SetSide(simple, "dst", r.dapp, r.dport, r.proto)
           source == SetSide(dest, "src", r.sapp, r.sport, r.proto)
           paged  == [source EXCEPT
                        !.page = IF {r.dst, r.src, r.sapp, r.sport, r.ifin, r.ifout} = {""}
                                 THEN "simple" ELSE "advanced",
                        !.src.anyHost = (r.src = ""), !.dst.anyHost = (r.dst = "")]
<1>1. /\ r.action \in Policies /\ r.incoming \in BOOLEAN /\ r.log \in LogTypes /\ r.proto \in Protocols
      /\ r.dapp \in STRING /\ r.sapp \in STRING /\ r.dst \in STRING /\ r.src \in STRING
      /\ r.dport \in STRING /\ r.sport \in STRING /\ r.ifin \in STRING /\ r.ifout \in STRING
  BY DEF WindowRules
<1>2. GoodForm(fields)
  <2>1. GoodSide(f.simple, SplitSimple) /\ GoodSide(f.src, TRUE) /\ GoodSide(f.dst, TRUE)
        /\ f \in FormType /\ f.simple.pick # "any"
    BY DEF GoodForm
  <2>2. GoodSide([f.simple EXCEPT !.port = r.dport], SplitSimple)
        /\ [f.simple EXCEPT !.port = r.dport].pick = f.simple.pick
    BY <2>1, <1>1 DEF GoodSide, PickType
  <2>3. GoodSide([f.src EXCEPT !.host = r.src, !.port = r.sport], TRUE)
    BY <2>1, <1>1 DEF GoodSide, PickType
  <2>4. GoodSide([f.dst EXCEPT !.host = r.dst, !.port = r.dport], TRUE)
    BY <2>1, <1>1 DEF GoodSide, PickType
  <2>5. /\ fields.simple = [f.simple EXCEPT !.port = r.dport]
        /\ fields.src = [f.src EXCEPT !.host = r.src, !.port = r.sport]
        /\ fields.dst = [f.dst EXCEPT !.host = r.dst, !.port = r.dport]
    BY <2>1 DEF FormType, PickType
  <2>6. fields \in FormType
    <3>1. [f.simple EXCEPT !.port = r.dport] \in PickType
          /\ [f.src EXCEPT !.host = r.src, !.port = r.sport] \in PickType
          /\ [f.dst EXCEPT !.host = r.dst, !.port = r.dport] \in PickType
      BY <2>2, <2>3, <2>4 DEF GoodSide
    <3> DEFINE s1 == [f.simple EXCEPT !.port = r.dport]
               s2 == [f.src EXCEPT !.host = r.src, !.port = r.sport]
               s3 == [f.dst EXCEPT !.host = r.dst, !.port = r.dport]
               iface == IF r.incoming THEN r.ifin ELSE r.ifout
    <3>2. fields = [f EXCEPT !.action = r.action, !.incoming = r.incoming, !.log = r.log,
                             !.simple = s1, !.sproto = r.proto, !.src = s2, !.dst = s3,
                             !.proto = r.proto, !.iface = iface, !.shown = TRUE]
      BY <2>1 DEF FormType
    <3>3. iface \in STRING
      BY <1>1
    <3> HIDE DEF fields, s1, s2, s3, iface
    <3> QED
      BY <1>1, <2>1, <3>1, <3>2, <3>3 DEF FormType, s1, s2, s3
  <2> HIDE DEF fields
  <2> QED
    BY <2>1, <2>2, <2>3, <2>4, <2>5, <2>6 DEF GoodForm
<1> HIDE DEF fields
<1>3. GoodForm(simple)
  BY <1>1, <1>2, SetSideKeeps DEF Sides
<1> HIDE DEF simple
<1>4. GoodForm(dest)
  BY <1>1, <1>3, SetSideKeeps DEF Sides
<1> HIDE DEF dest
<1>5. GoodForm(source)
  BY <1>1, <1>4, SetSideKeeps DEF Sides
<1> HIDE DEF source
<1>6. GoodForm(paged)
  <2>1. GoodSide(source.src, TRUE) /\ GoodSide(source.dst, TRUE) /\ source \in FormType
    BY <1>5 DEF GoodForm
  <2>2. GoodSide([source.src EXCEPT !.anyHost = (r.src = "")], TRUE)
        /\ GoodSide([source.dst EXCEPT !.anyHost = (r.dst = "")], TRUE)
    BY <2>1 DEF GoodSide, PickType
  <2>3. /\ paged.simple = source.simple
        /\ paged.src = [source.src EXCEPT !.anyHost = (r.src = "")]
        /\ paged.dst = [source.dst EXCEPT !.anyHost = (r.dst = "")]
    BY <2>1 DEF FormType
  <2>4. paged \in FormType
    <3>1. [source.src EXCEPT !.anyHost = (r.src = "")] \in PickType
          /\ [source.dst EXCEPT !.anyHost = (r.dst = "")] \in PickType
      BY <2>2 DEF GoodSide
    <3> DEFINE page == IF {r.dst, r.src, r.sapp, r.sport, r.ifin, r.ifout} = {""}
                       THEN "simple" ELSE "advanced"
               s1 == [source.src EXCEPT !.anyHost = (r.src = "")]
               s2 == [source.dst EXCEPT !.anyHost = (r.dst = "")]
    <3>2. page \in {"simple", "advanced"}
      OBVIOUS
    <3>3. paged = [source EXCEPT !.page = page, !.src = s1, !.dst = s2]
      BY <2>1 DEF FormType
    <3> HIDE DEF page, s1, s2, paged
    <3> QED
      BY <2>1, <3>1, <3>2, <3>3 DEF FormType, s1, s2
  <2> HIDE DEF paged
  <2> QED
    BY <1>5, <2>2, <2>3, <2>4 DEF GoodForm
<1> HIDE DEF paged
<1>7. GoodForm(setRuleType(controlSimpleProtocol(controlAdvancedProtocol(paged))))
  BY <1>6, ControlKeeps, RuleTypeKeeps
<1> QED
  BY <1>7 DEF setRule, paged, source, dest, simple, fields

\* reset
LEMMA ResetKeeps ==
    ASSUME NEW f, GoodForm(f)
    PROVE  GoodForm(reset(f))
<1> DEFINE blank(s, pick) == [s EXCEPT !.pick = pick, !.port = "", !.anyHost = TRUE, !.host = ""]
<1>1. GoodSide(f.simple, SplitSimple) /\ GoodSide(f.src, TRUE) /\ GoodSide(f.dst, TRUE)
      /\ f \in FormType
  BY DEF GoodForm
<1>2. GoodSide(blank(f.simple, "profile"), SplitSimple) /\ blank(f.simple, "profile").pick = "profile"
  BY <1>1, EmptyText DEF GoodSide, PickType
<1>3. GoodSide(blank(f.src, "any"), TRUE) /\ GoodSide(blank(f.dst, "any"), TRUE)
  BY <1>1, EmptyText DEF GoodSide, PickType
<1>4. reset(f) = [f EXCEPT !.action = "deny", !.incoming = TRUE, !.log = "",
                           !.simple = blank(f.simple, "profile"), !.src = blank(f.src, "any"),
                           !.dst = blank(f.dst, "any"),
                           !.sproto = "any", !.proto = "any", !.iface = ""]
  BY DEF reset
<1>5. /\ reset(f).simple = blank(f.simple, "profile")
      /\ reset(f).src = blank(f.src, "any")
      /\ reset(f).dst = blank(f.dst, "any")
  <2> HIDE DEF blank
  <2> QED
    BY <1>1, <1>4 DEF FormType
<1>6. reset(f) \in FormType
  <2>1. blank(f.simple, "profile") \in PickType /\ blank(f.src, "any") \in PickType
        /\ blank(f.dst, "any") \in PickType
    BY <1>2, <1>3 DEF GoodSide
  <2>2. "deny" \in Policies /\ "" \in LogTypes /\ "" \in STRING /\ "any" \in Protocols
    BY EmptyText DEF Policies, LogTypes, Protocols
  <2> HIDE DEF blank
  <2> QED
    BY <1>1, <1>4, <2>1, <2>2 DEF FormType
<1> HIDE DEF blank
<1> QED
  BY <1>2, <1>3, <1>5, <1>6 DEF GoodForm

-----------------------------------------------------------------------------
(* Confirming *)

\* What update has done to the fields before it makes rules of them.
Blanked(f) ==
    /\ f.simple.pick = "profile" => f.sproto = "any"
    /\ f.src.pick = "port" => f.src.port # ""
    /\ f.dst.pick = "port" => f.dst.port # ""
    /\ "port" \notin {f.src.pick, f.dst.pick} => f.proto = "any"

\* The parts of a form that picking "any" on the advanced page leaves alone.
LEMMA PickAnyLeaves ==
    ASSUME NEW f, GoodForm(f), NEW side \in {"src", "dst"}
    PROVE  LET g == Pick(f, side, "any")
           IN  /\ GoodForm(g)
               /\ g.simple = f.simple /\ g.sproto = f.sproto
               /\ g[side].pick = "any"
               /\ \A o \in {"src", "dst"} \ {side} : g[o] = f[o]
<1> DEFINE h == [f EXCEPT ![side].pick = "any"]
<1>1. f \in FormType /\ f[side] \in PickType
  BY DEF GoodForm, GoodSide
<1>2. /\ h.simple = f.simple /\ h.sproto = f.sproto
      /\ h[side].pick = "any"
      /\ \A o \in {"src", "dst"} \ {side} : h[o] = f[o]
  BY <1>1 DEF FormType, PickType
<1>3. h.src = h["src"] /\ h.dst = h["dst"] /\ DOMAIN h = DOMAIN f
  OBVIOUS
<1>4. \A o \in {"simple", "src", "dst", "sproto"} : control(h, side)[o] = h[o]
  <2>1. DOMAIN h = {"page", "action", "incoming", "log", "simple", "src", "dst", "sproto", "proto",
                    "iface", "shown"}
    BY <1>1, <1>3 DEF FormType
  <2> HIDE DEF h
  <2> QED
    BY <2>1 DEF control, controlAdvancedProtocol
<1>5. GoodForm(Pick(f, side, "any"))
  BY PickKeeps DEF Sides
<1>6. CASE f[side].pick = "any"
  BY <1>5, <1>6 DEF Pick
<1>7. CASE f[side].pick # "any"
  <2>1. Pick(f, side, "any") = control(h, side)
    BY <1>7 DEF Pick
  <2> HIDE DEF h
  <2> QED
    BY <1>2, <1>4, <1>5, <2>1
<1> QED
  BY <1>6, <1>7

\* A host field that is empty becomes any host.
LEMMA HostBlanked ==
    ASSUME NEW f, GoodForm(f), NEW side \in {"src", "dst"}
    PROVE  LET g == IF f[side].host = "" THEN [f EXCEPT ![side].anyHost = TRUE] ELSE f
           IN  /\ GoodForm(g)
               /\ g.simple = f.simple /\ g.sproto = f.sproto
<1>1. f \in FormType
  BY DEF GoodForm
<1>2. "" \in STRING
  BY EmptyText
<1>3. GoodForm([f EXCEPT ![side].anyHost = TRUE])
  BY <1>2, HostKeeps DEF Sides
<1>4. [f EXCEPT ![side].anyHost = TRUE].simple = f.simple
      /\ [f EXCEPT ![side].anyHost = TRUE].sproto = f.sproto
  BY <1>1 DEF FormType
<1> QED
  BY <1>3, <1>4

\* A port field that is empty becomes any port.
LEMMA PortBlanked ==
    ASSUME NEW f, GoodForm(f), NEW side \in {"src", "dst"}
    PROVE  LET g == IF f[side].pick = "port" /\ f[side].port = "" THEN Pick(f, side, "any") ELSE f
           IN  /\ GoodForm(g)
               /\ g.simple = f.simple /\ g.sproto = f.sproto
               /\ g[side].pick = "port" => g[side].port # ""
               /\ \A o \in {"src", "dst"} \ {side} : g[o] = f[o]
<1>1. CASE f[side].pick = "port" /\ f[side].port = ""
  BY <1>1, PickAnyLeaves
<1>2. CASE ~(f[side].pick = "port" /\ f[side].port = "")
  BY <1>2
<1> QED
  BY <1>1, <1>2

\* The first part of update.
LEMMA BlankedForm ==
    ASSUME NEW f, GoodForm(f)
    PROVE  GoodForm(blankMeansAny(f)) /\ Blanked(blankMeansAny(f))
<1> DEFINE host(g, side) == IF g[side].host = "" THEN [g EXCEPT ![side].anyHost = TRUE] ELSE g
           port(g, side) == IF g[side].pick = "port" /\ g[side].port = "" THEN Pick(g, side, "any") ELSE g
           first == IF f.simple.pick = "profile" THEN [f EXCEPT !.sproto = "any"] ELSE f
           host1 == host(first, "src")
           hosts == host(host1, "dst")
           port1 == port(hosts, "src")
           ports == port(port1, "dst")
           proto == IF "port" \in {ports.src.pick, ports.dst.pick} THEN ports.proto ELSE "any"
           iface == IF ports.iface \in DOMAIN Squeezed THEN Squeezed[ports.iface] ELSE ports.iface
<1>1. GoodForm(first) /\ (first.simple.pick = "profile" => first.sproto = "any")
  <2>1. f \in FormType
    BY DEF GoodForm
  <2>2. first = controlSimpleProtocol(f)
    BY DEF controlSimpleProtocol
  <2>3. GoodForm(first)
    BY <2>2, ControlKeeps
  <2>4. first.simple.pick = "profile" => first.sproto = "any"
    BY <2>1 DEF FormType
  <2> QED
    BY <2>3, <2>4
<1> HIDE DEF first
<1>2. GoodForm(host1) /\ host1.simple = first.simple /\ host1.sproto = first.sproto
  BY <1>1, HostBlanked
<1> HIDE DEF host1
<1>3. GoodForm(hosts) /\ hosts.simple = host1.simple /\ hosts.sproto = host1.sproto
  BY <1>2, HostBlanked
<1> HIDE DEF hosts
<1>4. /\ GoodForm(port1) /\ port1.simple = hosts.simple /\ port1.sproto = hosts.sproto
      /\ port1["src"].pick = "port" => port1["src"].port # ""
  BY <1>3, PortBlanked
<1> HIDE DEF port1
<1>5. /\ GoodForm(ports) /\ ports.simple = port1.simple /\ ports.sproto = port1.sproto
      /\ ports["dst"].pick = "port" => ports["dst"].port # ""
      /\ ports["src"] = port1["src"]
  BY <1>4, PortBlanked
<1> HIDE DEF ports
<1>6. ports \in FormType
  BY <1>5 DEF GoodForm
<1>7. proto \in Protocols /\ ("port" \notin {ports.src.pick, ports.dst.pick} => proto = "any")
  BY <1>6 DEF FormType, Protocols
<1>8. iface \in STRING
  BY <1>6, RuleFormAssumption DEF FormType
<1>9. blankMeansAny(f) = [ports EXCEPT !.proto = proto, !.iface = iface]
  BY DEF blankMeansAny, ports, port1, hosts, host1, first
<1> HIDE DEF proto, iface
<1>10. [ports EXCEPT !.proto = proto, !.iface = iface] \in FormType
  BY <1>6, <1>7, <1>8 DEF FormType
<1>11. LET g == [ports EXCEPT !.proto = proto, !.iface = iface]
       IN  /\ g.simple = ports.simple /\ g.src = ports.src /\ g.dst = ports.dst
           /\ g.sproto = ports.sproto /\ g.proto = proto
  BY <1>6 DEF FormType
<1>12. GoodForm(blankMeansAny(f))
  BY <1>5, <1>9, <1>10, <1>11 DEF GoodForm
<1>13. Blanked(blankMeansAny(f))
  BY <1>1, <1>2, <1>3, <1>4, <1>5, <1>7, <1>9, <1>11 DEF Blanked
<1> QED
  BY <1>12, <1>13

\* What SentRulesAreWellFormed says of one rule.
WellFormed(r, ipv6) ==
    LET ports == {r.dport, r.sport} \ {""}
    IN  /\ ports \cup ({r.dapp, r.sapp, r.dst, r.src} \ {""}) # {}
        /\ r.proto # "any" => ports # {}
        /\ ports \cap Lists # {} => r.proto # "any"
        /\ {r.dst, r.src} \cap V6Addresses # {} => ipv6

\* A function over 1..n is a sequence of that length.
LEMMA LenOfFunction ==
    ASSUME NEW n \in Nat, NEW s, DOMAIN s = 1..n, NEW S, s \in [1..n -> S]
    PROVE  Len(s) = n
<1>1. s \in Seq(S)
  BY SeqDef
<1> QED
  BY <1>1

\* The rules of the simple page.
LEMMA SimpleRulesFit ==
    ASSUME NEW f, GoodForm(f), Blanked(f), NEW ipv6 \in BOOLEAN
    PROVE  /\ \A k \in DOMAIN SimpleRules(f) : WellFormed(SimpleRules(f)[k], ipv6)
           /\ kind = "edit" /\ SimpleRules(f) # <<>> => Len(SimpleRules(f)) = 1
<1> DEFINE made(prot, port, app) == MakeRule(f.action, f.incoming, f.log, prot,
                                             "", "", "", port, "", "", "", app)
           parts   == f.simple.item.parts
           port    == Typed(f, "simple")
           app     == App(f, "simple")
<1>1. "" \notin V6Addresses
  BY RuleCodecAssumption
<1>2. CASE Predefined(f, "simple")
  <2>1. GoodSide(f.simple, SplitSimple) /\ f.simple.item.app = "" /\ SplitSimple \in BOOLEAN
    BY <1>2 DEF Predefined, GoodForm, SplitSimple
  <2>2. /\ f.simple.item \in EntryType /\ parts # <<>>
        /\ \A k \in DOMAIN parts : parts[k].port \in Lists => parts[k].proto # "any"
        /\ SplitSimple => Len(parts) = 1
    BY <2>1, EntryOfService DEF GoodSide
  <2>3. parts \in Seq(PortParts)
    BY <2>2 DEF EntryType
  <2>4. \A k \in DOMAIN parts : parts[k].port # ""
    <3>1. \A k \in DOMAIN parts : parts[k] \in PortParts
      BY <2>3
    <3> QED
      BY <3>1 DEF PortParts
  <2> HIDE DEF parts
  <2>5. SimpleRules(f) = [k \in DOMAIN parts |-> made(parts[k].proto, parts[k].port, "")]
    BY <1>2 DEF SimpleRules, parts
  <2>6. ASSUME NEW k \in DOMAIN parts
        PROVE  WellFormed(made(parts[k].proto, parts[k].port, ""), ipv6)
    BY <1>1, <2>2, <2>4 DEF WellFormed, MakeRule
  <2>7. kind = "edit" => Len(SimpleRules(f)) = 1
    <3>1. HAVE kind = "edit"
    <3>2. DOMAIN parts = 1..1
      BY <3>1, <2>2, <2>3 DEF SplitSimple
    <3>3. SimpleRules(f) \in [1..1 -> {SimpleRules(f)[k] : k \in 1..1}] /\ DOMAIN SimpleRules(f) = 1..1
      BY <2>5, <3>2
    <3> QED
      BY <3>3, LenOfFunction
  <2> HIDE DEF made
  <2> QED
    BY <2>5, <2>6, <2>7
<1>3. CASE ~Predefined(f, "simple")
  <2>1. CASE SimpleRules(f) = <<>>
    BY <2>1
  <2>2. CASE SimpleRules(f) # <<>>
    <3>1. /\ SimpleRules(f) = <<made(f.sproto, port, app)>>
          /\ ~(port = "" /\ app = "")
          /\ ~(port \in Lists /\ f.sproto = "any")
      BY <1>3, <2>2 DEF SimpleRules
    <3>2. f.sproto # "any" => port # ""
      <4>1. f.sproto # "any" => f.simple.pick # "profile"
        BY DEF Blanked
      <4> QED
        BY <4>1, <3>1 DEF App, Chosen
    <3> HIDE DEF port, app
    <3>3. WellFormed(made(f.sproto, port, app), ipv6)
      BY <1>1, <3>1, <3>2 DEF WellFormed, MakeRule
    <3> DEFINE rule == made(f.sproto, port, app)
    <3>4. SimpleRules(f) = <<rule>> /\ WellFormed(rule, ipv6)
      BY <3>1, <3>3
    <3> HIDE DEF rule
    <3> QED
      BY <3>4
  <2> QED
    BY <2>1, <2>2
<1> QED
  BY <1>2, <1>3

\* The rule of the advanced page.
LEMMA AdvancedRuleFits ==
    ASSUME NEW f, GoodForm(f), Blanked(f), NEW ipv6 \in BOOLEAN
    PROVE  /\ \A k \in DOMAIN AdvancedRules(f, ipv6) : WellFormed(AdvancedRules(f, ipv6)[k], ipv6)
           /\ AdvancedRules(f, ipv6) # <<>> => Len(AdvancedRules(f, ipv6)) = 1
<1> DEFINE part(side) == f[side].item.parts[1]
           port(side) == IF Predefined(f, side) THEN part(side).port ELSE Typed(f, side)
           host(side) == IF f[side].anyHost THEN "" ELSE f[side].host
           prot == IF Predefined(f, "dst") THEN part("dst").proto
                   ELSE IF Predefined(f, "src") THEN part("src").proto
                   ELSE f.proto
           ifin  == IF f.incoming THEN f.iface ELSE ""
           ifout == IF f.incoming THEN "" ELSE f.iface
           rule == MakeRule(f.action, f.incoming, f.log, prot,
                            host("src"), port("src"), host("dst"), port("dst"), ifin, ifout,
                            App(f, "src"), App(f, "dst"))
<1>1. "" \notin V6Addresses
  BY RuleCodecAssumption
<1>2. CASE AdvancedRules(f, ipv6) = <<>>
  BY <1>2
<1>3. CASE AdvancedRules(f, ipv6) # <<>>
  <2>1. AdvancedRules(f, ipv6) = <<rule>>
    BY <1>3 DEF AdvancedRules
  <2>2. /\ ~(~ipv6 /\ \E s \in {"src", "dst"} : host(s) \in V6Addresses)
        /\ ~(\A s \in {"src", "dst"} : host(s) = "" /\ port(s) = "" /\ App(f, s) = "")
        /\ ~(prot = "any" /\ \E s \in {"src", "dst"} : port(s) \in Lists)
    BY <1>3 DEF AdvancedRules
  <2>3. \A s \in {"src", "dst"} : Predefined(f, s) => port(s) # ""
    <3> SUFFICES ASSUME NEW s \in {"src", "dst"}, Predefined(f, s) PROVE port(s) # ""
      OBVIOUS
    <3>1. GoodSide(f[s], TRUE) /\ f[s].item.app = ""
      BY DEF GoodForm, Predefined
    <3>2. f[s].item \in EntryType /\ f[s].item.parts # <<>>
      BY <3>1, EntryOfService DEF GoodSide
    <3>3. part(s) \in PortParts
      <4>1. f[s].item.parts \in Seq(PortParts)
        BY <3>2 DEF EntryType
      <4> QED
        BY <4>1, <3>2
    <3> QED
      BY <3>3 DEF PortParts
  <2>4. prot # "any" => port("src") # "" \/ port("dst") # ""
    <3>1. CASE Predefined(f, "dst") \/ Predefined(f, "src")
      BY <3>1, <2>3
    <3>2. CASE ~Predefined(f, "dst") /\ ~Predefined(f, "src")
      <4>1. HAVE prot # "any"
      <4>2. f.proto # "any"
        BY <3>2, <4>1
      <4>3. \E s \in {"src", "dst"} : f[s].pick = "port" /\ f[s].port # ""
        BY <4>2 DEF Blanked
      <4> QED
        BY <3>2, <4>3 DEF Typed
    <3> QED
      BY <3>1, <3>2
  <2> HIDE DEF part, port, host, prot, ifin, ifout
  <2>5. WellFormed(rule, ipv6)
    BY <1>1, <2>2, <2>4 DEF WellFormed, MakeRule
  <2> HIDE DEF rule
  <2> QED
    BY <2>1, <2>5
<1> QED
  BY <1>2, <1>3

-----------------------------------------------------------------------------
(* The invariant *)

\* A step that sends nothing keeps the invariant if the form is a good one.
LEMMA NothingSent ==
    ASSUME IInv, NEW f, GoodForm(f), form' = f, kind' = kind, sent' = NoCommand
    PROVE  IInv'
<1>1. GoodForm(form)'
  BY DEF GoodForm, GoodSide, SplitSimple
<1>2. SentRulesAreWellFormed' /\ EditKeepsEveryPort'
  BY DEF SentRulesAreWellFormed, EditKeepsEveryPort, NoCommand
<1> QED
  BY <1>1, <1>2 DEF IInv

\* The rules of the list and those made from the log are rules.
LEMMA FilledRules ==
    /\ \A r \in ListedRules : r \in WindowRules
    /\ \A l \in LogLines : createRule(l) \in WindowRules
<1>1. ASSUME NEW r \in ListedRules PROVE r \in WindowRules
  BY RuleFormAssumption
<1>2. ASSUME NEW l \in LogLines PROVE createRule(l) \in WindowRules
  <2>1. l \in LinesType
    BY RuleFormAssumption
  <2>2. /\ l.proto \in Protocols /\ l.src \in STRING /\ l.dst \in STRING /\ l.in \in STRING
        /\ l.out \in STRING /\ l.spt \in STRING /\ l.dpt \in STRING
    BY <2>1 DEF LinesType
  <2>3. "" \in STRING /\ "" \in LogTypes /\ "allow" \in Policies /\ "deny" \in Policies
    BY EmptyText DEF LogTypes, Policies
  <2> QED
    BY <2>2, <2>3 DEF createRule, MakeRule, WindowRules
<1> QED
  BY <1>1, <1>2

\* The dialogs start with good forms.
LEMMA InitIInv == Init => IInv
<1> SUFFICES ASSUME Init PROVE IInv
  OBVIOUS
<1> DEFINE split == kind = "edit"
           new == NewForm(split)
<1>1. kind \in {"add", "edit"}
  BY RuleFormAssumption DEF Init
<1>2. ASSUME NEW s \in BOOLEAN, NEW pick \in {"any", "port", "profile"}
      PROVE  GoodSide(Side(pick, s), s) /\ Side(pick, s).pick = pick
  <2> DEFINE item == First(Entries(s))
  <2>1. item \in Items(s)
    BY ListsHaveEntries
  <2>2. item \in EntryType
    BY <2>1, EntryOfService
  <2> HIDE DEF item
  <2> DEFINE side == Side(pick, s)
  <2>3. side = [pick |-> pick, port |-> "", item |-> item, extra |-> {},
                anyHost |-> TRUE, host |-> ""]
    BY DEF Side, item
  <2>4. "" \in STRING /\ {} \in SUBSET STRING
    BY EmptyText
  <2> HIDE DEF side
  <2>5. side \in PickType
    BY <2>2, <2>3, <2>4 DEF PickType
  <2>6. side.pick = pick /\ side.item = item /\ side.extra = {}
    BY <2>3
  <2>7. GoodSide(side, s)
    BY <2>1, <2>5, <2>6 DEF GoodSide
  <2> QED
    BY <2>6, <2>7 DEF side
<1>3. /\ GoodSide(new.simple, split) /\ new.simple.pick # "any"
      /\ GoodSide(new.src, TRUE) /\ GoodSide(new.dst, TRUE)
  BY <1>2 DEF NewForm
<1>4. new \in FormType
  <2>1. new.simple \in PickType /\ new.src \in PickType /\ new.dst \in PickType
    BY <1>3 DEF GoodSide
  <2>2. "deny" \in Policies /\ "" \in LogTypes /\ "" \in STRING /\ "any" \in Protocols
    BY EmptyText DEF Policies, LogTypes, Protocols
  <2> QED
    BY <2>1, <2>2 DEF NewForm, FormType
<1>5. PICK page \in {"simple", "advanced"} : form = [new EXCEPT !.page = page]
  BY DEF Init
<1> HIDE DEF new
<1>6. GoodForm(form)
  BY <1>3, <1>4, <1>5 DEF GoodForm, FormType, SplitSimple
<1>7. SentRulesAreWellFormed /\ EditKeepsEveryPort
  BY DEF Init, SentRulesAreWellFormed, EditKeepsEveryPort, NoCommand
<1> QED
  BY <1>1, <1>6, <1>7 DEF IInv

\* Whatever the user does to a field, the form is a good one.
LEMMA UserKeeps ==
    ASSUME IInv, User
    PROVE  IInv'
<1>1. GoodForm(form) /\ form \in FormType
  BY DEF IInv, GoodForm
<1>2. ASSUME NEW f, GoodForm(f), NEW matters, Touch(f, matters)
      PROVE  IInv'
  BY <1>2, NothingSent DEF Touch
<1>3. Acts \subseteq Policies /\ Logs \subseteq LogTypes
      /\ \A text \in Hosts \cup PortTexts \cup Interfaces : text \in STRING
  BY RuleFormAssumption
<1>4. CASE UserCommon
  <2>1. \A a \in Acts : GoodForm([form EXCEPT !.action = a])
    BY <1>1, <1>3 DEF GoodForm, FormType
  <2>2. \A g \in Logs : GoodForm([form EXCEPT !.log = g])
    BY <1>1, <1>3 DEF GoodForm, FormType
  <2>3. GoodForm([form EXCEPT !.incoming = ~@])
    BY <1>1 DEF GoodForm, FormType
  <2> QED
    BY <1>2, <1>4, <2>1, <2>2, <2>3 DEF UserCommon
<1>5. CASE UserTurnPage
  <2>1. \A page \in {"simple", "advanced"} : GoodForm([form EXCEPT !.page = page])
    BY <1>1 DEF GoodForm, FormType
  <2> QED
    BY <1>2, <1>5, <2>1, RuleTypeKeeps DEF UserTurnPage
<1>6. Shown \subseteq Sides /\ Shown \ {"simple"} \subseteq {"src", "dst"}
  BY DEF Shown, Sides
<1>7. CASE UserPickAny
  <2>1. \A side \in {"src", "dst"} : GoodForm(Pick(form, side, "any"))
    BY <1>1, PickKeeps DEF Sides
  <2> QED
    BY <1>2, <1>6, <1>7, <2>1 DEF UserPickAny
<1>8. CASE UserTypePort
  <2>1. \A side \in Sides : GoodForm(Pick(form, side, "port"))
    BY <1>1, PickKeeps
  <2>2. \A side \in Sides : \A text \in PortTexts :
          GoodForm([Pick(form, side, "port") EXCEPT ![side].port = text])
    BY <1>3, <2>1, PortKeeps
  <2> QED
    BY <1>2, <1>6, <1>8, <2>2 DEF UserTypePort
<1>9. CASE UserChooseProfile
  <2>1. ASSUME NEW side \in Sides, NEW e \in EntriesOf(side) \cup {Entry(a) : a \in form[side].extra}
        PROVE  GoodForm(Choose(form, side, e))
    <3>1. GoodSide(form[side], SplitOf(side))
      BY <1>1, SideOfForm
    <3>2. form[side].extra \subseteq STRING \ {""}
      BY <3>1 DEF GoodSide, PickType
    <3>3. e \in Items(SplitOf(side))
      BY <3>2, ListedAreItems DEF Items
    <3> QED
      BY <1>1, <3>3, ChooseKeeps
  <2> QED
    BY <1>2, <1>6, <1>9, <2>1 DEF UserChooseProfile
<1>10. CASE UserSetHost
  <2>1. \A side \in {"src", "dst"} : \A text \in Hosts :
          GoodForm([form EXCEPT ![side] = [@ EXCEPT !.anyHost = FALSE, !.host = text]])
    BY <1>1, <1>3, HostKeeps DEF Sides
  <2>2. \A side \in {"src", "dst"} : GoodForm([form EXCEPT ![side].anyHost = TRUE])
    <3>1. "" \in STRING
      BY EmptyText
    <3> QED
      BY <1>1, <3>1, HostKeeps DEF Sides
  <2> QED
    BY <1>2, <1>10, <2>1, <2>2 DEF UserSetHost
<1>11. CASE UserSetProtocol
  <2>1. \A p \in Protocols : GoodForm([form EXCEPT !.sproto = p]) /\ GoodForm([form EXCEPT !.proto = p])
    BY <1>1 DEF GoodForm, FormType
  <2> QED
    BY <1>2, <1>11, <2>1 DEF UserSetProtocol
<1>12. CASE UserSetInterface
  <2>1. \A text \in Interfaces : GoodForm([form EXCEPT !.iface = text])
    BY <1>1, <1>3 DEF GoodForm, FormType
  <2> QED
    BY <1>2, <1>12, <2>1 DEF UserSetInterface
<1> QED
  BY <1>4, <1>5, <1>7, <1>8, <1>9, <1>10, <1>11, <1>12 DEF User

\* Confirming sends well-formed rules, one for an edit.
LEMMA ConfirmKeeps ==
    ASSUME IInv, Confirm
    PROVE  IInv'
<1> DEFINE f == blankMeansAny(form)
<1>1. PICK ipv6 \in BOOLEAN :
        LET rules == RulesOf(f, ipv6)
            sends == /\ rules # <<>>
                     /\ IF kind = "edit" THEN different(rules[1], editing) ELSE ~AlreadyListed(rules)
        IN  /\ form' = f
            /\ sent' = IF sends
                       THEN [cmd |-> IF kind = "edit" THEN "editRule" ELSE "addRules",
                             rules |-> rules, ipv6 |-> ipv6]
                       ELSE NoCommand
  BY DEF Confirm
<1>2. kind' = kind
  BY DEF Confirm
<1>3. GoodForm(f) /\ Blanked(f)
  BY BlankedForm DEF IInv
<1> HIDE DEF f
<1>4. GoodForm(form)'
  BY <1>1, <1>2, <1>3 DEF GoodForm, GoodSide, SplitSimple
<1>5. /\ \A k \in DOMAIN RulesOf(f, ipv6) : WellFormed(RulesOf(f, ipv6)[k], ipv6)
      /\ kind = "edit" /\ RulesOf(f, ipv6) # <<>> => Len(RulesOf(f, ipv6)) = 1
  BY <1>3, SimpleRulesFit, AdvancedRuleFits DEF RulesOf
<1> DEFINE rules == RulesOf(f, ipv6)
<1>6. CASE sent' = NoCommand
  BY <1>2, <1>3, <1>1, <1>6, NothingSent
<1>7. CASE /\ rules # <<>>
           /\ sent' = [cmd |-> IF kind = "edit" THEN "editRule" ELSE "addRules",
                       rules |-> rules, ipv6 |-> ipv6]
  <2> HIDE DEF rules
  <2>1. sent'.rules = rules /\ sent'.ipv6 = ipv6 /\ (sent'.cmd = "editRule" => kind = "edit")
    BY <1>7
  <2>2. SentRulesAreWellFormed'
    BY <1>5, <2>1 DEF SentRulesAreWellFormed, WellFormed, rules
  <2>3. EditKeepsEveryPort'
    BY <1>5, <1>7, <2>1 DEF EditKeepsEveryPort, rules
  <2> QED
    BY <1>2, <1>4, <2>2, <2>3 DEF IInv
<1> QED
  BY <1>1, <1>6, <1>7

\* Every step keeps the invariant.
LEMMA StepIInv == IInv /\ [Next]_vars => IInv'
<1> SUFFICES ASSUME IInv, [Next]_vars PROVE IInv'
  OBVIOUS
<1>1. GoodForm(form)
  BY DEF IInv
<1>2. CASE OpenEdit
  <2>1. PICK r \in ListedRules : Fill(setRule(form, r), r, NoLine)
    BY <1>2 DEF OpenEdit
  <2>2. GoodForm(setRule(form, r))
    BY <1>1, FilledRules, RuleKeeps
  <2> QED
    BY <2>1, <2>2, NothingSent DEF Fill
<1>3. CASE OpenAdd
  <2>1. GoodForm(reset(form))
    BY <1>1, ResetKeeps
  <2> QED
    BY <1>3, <2>1, NothingSent DEF OpenAdd, Fill
<1>4. CASE OpenFromLog
  <2>1. PICK l \in LogLines : Fill(setRule(form, createRule(l)), createRule(l), l)
    BY <1>4 DEF OpenFromLog
  <2>2. GoodForm(setRule(form, createRule(l)))
    BY <1>1, FilledRules, RuleKeeps
  <2> QED
    BY <2>1, <2>2, NothingSent DEF Fill
<1>5. CASE User
  BY <1>5, UserKeeps
<1>6. CASE Cancel
  BY <1>1, <1>6, NothingSent DEF Cancel
<1>7. CASE Confirm
  BY <1>7, ConfirmKeeps
<1>8. CASE UNCHANGED vars
  BY <1>8 DEF vars, IInv, GoodForm, GoodSide, SplitSimple, SentRulesAreWellFormed, EditKeepsEveryPort
<1> QED
  BY <1>2, <1>3, <1>4, <1>5, <1>6, <1>7, <1>8 DEF Next

\* The invariant holds always.
LEMMA Invariant == Spec => []IInv
  BY InitIInv, StepIInv, PTL DEF Spec

-----------------------------------------------------------------------------
(* Types *)

\* What the window and the history hold beside the fields.
HeldOK ==
    /\ kind \in Kinds
    /\ open \in BOOLEAN /\ touched \in BOOLEAN
    /\ editing \in WindowRules /\ line \in LinesType
    /\ touches \in 0..MaxTouches
    /\ sent.cmd \in {"none", "addRules", "editRule"}
    /\ sent.rules \in Seq(WindowRules) /\ sent.ipv6 \in BOOLEAN

\* A sequence of one element.
LEMMA OneElement ==
    ASSUME NEW S, NEW x \in S
    PROVE  <<x>> \in Seq(S) /\ <<>> \in Seq(S)
  OBVIOUS

\* The constructor makes rules of fields of their types.
LEMMA MadeRules ==
    ASSUME NEW pol \in Policies, NEW in \in BOOLEAN, NEW log \in LogTypes, NEW prot \in Protocols,
           NEW t1 \in STRING, NEW t2 \in STRING, NEW t3 \in STRING, NEW t4 \in STRING,
           NEW t5 \in STRING, NEW t6 \in STRING, NEW t7 \in STRING, NEW t8 \in STRING
    PROVE  MakeRule(pol, in, log, prot, t1, t2, t3, t4, t5, t6, t7, t8) \in WindowRules
  BY DEF MakeRule, WindowRules

\* What a side gives to a rule are texts.
LEMMA SideTexts ==
    ASSUME NEW f, GoodForm(f), NEW side \in Sides
    PROVE  /\ App(f, side) \in STRING /\ Typed(f, side) \in STRING
           /\ f[side].host \in STRING
           /\ Predefined(f, side) =>
                /\ f[side].item.parts \in Seq(PortParts) /\ f[side].item.parts # <<>>
                /\ f[side].item.parts[1] \in PortParts
<1>1. GoodSide(f[side], SplitOf(side)) /\ SplitOf(side) \in BOOLEAN
  BY SideOfForm
<1>2. f[side] \in PickType /\ f[side].item \in EntryType
      /\ (f[side].item.app = "" => f[side].item.parts # <<>>)
  BY <1>1, EntryOfService DEF GoodSide
<1>3. f[side].port \in STRING /\ f[side].host \in STRING /\ f[side].item.app \in STRING
      /\ f[side].item.parts \in Seq(PortParts)
  BY <1>2 DEF PickType, EntryType
<1>4. App(f, side) \in STRING /\ Typed(f, side) \in STRING
  BY <1>3, EmptyText DEF App, Typed
<1>5. ASSUME Predefined(f, side)
      PROVE  f[side].item.parts # <<>> /\ f[side].item.parts[1] \in PortParts
  <2> DEFINE parts == f[side].item.parts
  <2>1. parts \in Seq(PortParts) /\ parts # <<>>
    BY <1>2, <1>3, <1>5 DEF Predefined
  <2> HIDE DEF parts
  <2>2. parts[1] \in PortParts
    BY <2>1
  <2> QED
    BY <2>1, <2>2 DEF parts
<1> QED
  BY <1>3, <1>4, <1>5

\* The rules that a good form stands for are rules.
LEMMA RulesAreRules ==
    ASSUME NEW f, GoodForm(f), NEW ipv6 \in BOOLEAN
    PROVE  RulesOf(f, ipv6) \in Seq(WindowRules)
<1>1. /\ f.action \in Policies /\ f.incoming \in BOOLEAN /\ f.log \in LogTypes
      /\ f.sproto \in Protocols /\ f.proto \in Protocols /\ f.iface \in STRING /\ "" \in STRING
  BY EmptyText DEF GoodForm, FormType
<1>2. SimpleRules(f) \in Seq(WindowRules)
  <2> DEFINE made(prot, port, app) == MakeRule(f.action, f.incoming, f.log, prot,
                                               "", "", "", port, "", "", "", app)
             parts == f.simple.item.parts
             port  == Typed(f, "simple")
             app   == App(f, "simple")
  <2>1. \A prot \in Protocols : \A p, a \in STRING : made(prot, p, a) \in WindowRules
    BY <1>1, MadeRules
  <2> HIDE DEF made
  <2>2. port \in STRING /\ app \in STRING
        /\ (Predefined(f, "simple") => parts \in Seq(PortParts))
    BY SideTexts DEF Sides
  <2>3. CASE Predefined(f, "simple")
    <3>1. SimpleRules(f) = [k \in DOMAIN parts |-> made(parts[k].proto, parts[k].port, "")]
      BY <2>3 DEF SimpleRules, made
    <3>2. ASSUME NEW k \in DOMAIN parts
          PROVE  made(parts[k].proto, parts[k].port, "") \in WindowRules
      <4>1. parts[k] \in PortParts
        BY <2>2, <2>3
      <4>2. parts[k].proto \in Protocols /\ parts[k].port \in STRING
        BY <4>1 DEF PortParts
      <4> QED
        BY <1>1, <2>1, <4>2
    <3>3. DOMAIN parts = 1..Len(parts) /\ Len(parts) \in Nat
      BY <2>2, <2>3
    <3> DEFINE n == Len(parts)
               rule(k) == made(parts[k].proto, parts[k].port, "")
    <3>4. SimpleRules(f) = [k \in 1..n |-> rule(k)] /\ n \in Nat
          /\ \A k \in 1..n : rule(k) \in WindowRules
      BY <3>1, <3>2, <3>3
    <3> HIDE DEF n, rule
    <3>5. SimpleRules(f) \in [1..n -> WindowRules]
      BY <3>4
    <3> QED
      BY <3>4, <3>5, SeqDef
  <2>4. CASE ~Predefined(f, "simple")
    <3>1. SimpleRules(f) = <<>> \/ SimpleRules(f) = <<made(f.sproto, port, app)>>
      BY <2>4 DEF SimpleRules, made
    <3>2. made(f.sproto, port, app) \in WindowRules
      BY <1>1, <2>1, <2>2
    <3> DEFINE rule == made(f.sproto, port, app)
    <3>3. (SimpleRules(f) = <<>> \/ SimpleRules(f) = <<rule>>) /\ rule \in WindowRules
      BY <3>1, <3>2
    <3> HIDE DEF rule
    <3> QED
      BY <3>3, OneElement
  <2> QED
    BY <2>3, <2>4
<1>3. AdvancedRules(f, ipv6) \in Seq(WindowRules)
  <2> DEFINE part(side) == f[side].item.parts[1]
             port(side) == IF Predefined(f, side) THEN part(side).port ELSE Typed(f, side)
             host(side) == IF f[side].anyHost THEN "" ELSE f[side].host
             prot == IF Predefined(f, "dst") THEN part("dst").proto
                     ELSE IF Predefined(f, "src") THEN part("src").proto
                     ELSE f.proto
             ifin  == IF f.incoming THEN f.iface ELSE ""
             ifout == IF f.incoming THEN "" ELSE f.iface
             rule == MakeRule(f.action, f.incoming, f.log, prot,
                              host("src"), port("src"), host("dst"), port("dst"), ifin, ifout,
                              App(f, "src"), App(f, "dst"))
  <2>1. AdvancedRules(f, ipv6) = <<>> \/ AdvancedRules(f, ipv6) = <<rule>>
    BY DEF AdvancedRules
  <2>2. \A side \in {"src", "dst"} :
          /\ App(f, side) \in STRING /\ Typed(f, side) \in STRING /\ f[side].host \in STRING
          /\ Predefined(f, side) => part(side) \in PortParts
    BY SideTexts DEF Sides
  <2>3. \A side \in {"src", "dst"} :
          port(side) \in STRING /\ host(side) \in STRING
    BY <1>1, <2>2 DEF PortParts
  <2>4. prot \in Protocols /\ ifin \in STRING /\ ifout \in STRING
    BY <1>1, <2>2 DEF PortParts
  <2> HIDE DEF part, port, host, prot, ifin, ifout
  <2>5. rule \in WindowRules
    BY <1>1, <2>2, <2>3, <2>4, MadeRules
  <2> HIDE DEF rule
  <2> QED
    BY <2>1, <2>5, OneElement
<1> QED
  BY <1>2, <1>3 DEF RulesOf

\* The types hold at the start.
LEMMA InitHeld == Init => HeldOK
<1>1. NoRule \in WindowRules
  BY EmptyText, MadeRules DEF NoRule, Policies, LogTypes, Protocols
<1>2. NoLine \in LinesType
  BY EmptyText DEF NoLine, LinesType, Protocols
<1>3. NoCommand.rules \in Seq(WindowRules) /\ NoCommand.cmd = "none" /\ NoCommand.ipv6 = FALSE
  BY DEF NoCommand
<1>4. 0 \in 0..MaxTouches
  <2>1. MaxTouches \in Nat
    BY RuleFormAssumption
  <2> QED
    BY <2>1
<1> QED
  BY <1>1, <1>2, <1>3, <1>4 DEF Init, HeldOK

\* A touch counts.
LEMMA TouchHeld ==
    ASSUME HeldOK, NEW f, NEW matters \in BOOLEAN, Touch(f, matters)
    PROVE  HeldOK'
<1>1. NoCommand.rules \in Seq(WindowRules) /\ NoCommand.cmd = "none" /\ NoCommand.ipv6 = FALSE
  BY DEF NoCommand
<1>2. touches' \in 0..MaxTouches
  <2>1. touches \in 0..MaxTouches /\ touches < MaxTouches /\ touches' = touches + 1
        /\ MaxTouches \in Nat
    BY RuleFormAssumption DEF Touch, HeldOK
  <2> QED
    BY <2>1
<1> QED
  BY <1>1, <1>2 DEF Touch, HeldOK

\* Every step keeps the types.
LEMMA StepHeld == IInv /\ HeldOK /\ [Next]_vars => HeldOK'
<1> SUFFICES ASSUME IInv, HeldOK, [Next]_vars PROVE HeldOK'
  OBVIOUS
<1>1. NoCommand.rules \in Seq(WindowRules) /\ NoCommand.cmd = "none" /\ NoCommand.ipv6 = FALSE
  BY DEF NoCommand
<1>2. ASSUME NEW f, NEW r \in WindowRules, NEW l \in LinesType, Fill(f, r, l)
      PROVE  HeldOK'
  BY <1>1, <1>2 DEF Fill, HeldOK
<1>3. NoLine \in LinesType
  BY EmptyText DEF NoLine, LinesType, Protocols
<1>4. CASE OpenEdit
  BY <1>2, <1>3, <1>4, FilledRules DEF OpenEdit
<1>5. CASE OpenAdd
  BY <1>2, <1>3, <1>5 DEF OpenAdd, HeldOK
<1>6. CASE OpenFromLog
  BY <1>2, <1>6, FilledRules, RuleFormAssumption DEF OpenFromLog
<1>7. CASE User
  <2>1. \E f : \E matters \in BOOLEAN : Touch(f, matters)
    BY <1>7 DEF User, UserCommon, UserTurnPage, UserPickAny, UserTypePort, UserChooseProfile,
                UserSetHost, UserSetProtocol, UserSetInterface
  <2> QED
    BY <2>1, TouchHeld
<1>8. CASE Cancel
  BY <1>1, <1>8 DEF Cancel, HeldOK
<1>9. CASE Confirm
  <2> DEFINE f == blankMeansAny(form)
  <2>1. GoodForm(f)
    BY BlankedForm DEF IInv
  <2> HIDE DEF f
  <2>2. \A ipv6 \in BOOLEAN : RulesOf(f, ipv6) \in Seq(WindowRules)
    BY <2>1, RulesAreRules
  <2>3. /\ open' = (kind = "add")
        /\ UNCHANGED <<kind, editing, line, touches, touched>>
        /\ \E ipv6 \in BOOLEAN :
             sent' \in {NoCommand} \cup {[cmd |-> c, rules |-> RulesOf(f, ipv6), ipv6 |-> ipv6] :
                                          c \in {"addRules", "editRule"}}
    BY <1>9 DEF Confirm, f
  <2>4. /\ sent'.cmd \in {"none", "addRules", "editRule"}
        /\ sent'.rules \in Seq(WindowRules) /\ sent'.ipv6 \in BOOLEAN
    <3>1. CASE sent' = NoCommand
      BY <1>1, <3>1
    <3>2. ASSUME NEW ipv6 \in BOOLEAN, NEW c \in {"addRules", "editRule"},
                 sent' = [cmd |-> c, rules |-> RulesOf(f, ipv6), ipv6 |-> ipv6]
          PROVE  <2>4!1 /\ <2>4!2
      BY <2>2, <3>2
    <3> QED
      BY <2>3, <3>1, <3>2
  <2> QED
    BY <2>3, <2>4 DEF HeldOK
<1>10. CASE UNCHANGED vars
  BY <1>10 DEF vars, HeldOK
<1> QED
  BY <1>4, <1>5, <1>6, <1>7, <1>8, <1>9, <1>10 DEF Next

\* Every variable keeps to its type, and no chosen entry is without a port.
THEOREM TypeCorrect == Spec => []TypeOK
<1>1. IInv /\ HeldOK => TypeOK
  <2> SUFFICES ASSUME IInv, HeldOK PROVE TypeOK
    OBVIOUS
  <2>1. GoodForm(form) /\ form \in FormType /\ form.simple.pick # "any"
    BY DEF IInv, GoodForm
  <2>2. \A side \in {"simple", "src", "dst"} :
          Predefined(form, side) => form[side].item.parts # <<>>
    BY <2>1, SideTexts DEF Sides
  <2> QED
    BY <2>1, <2>2 DEF HeldOK, TypeOK
<1> QED
  BY <1>1, InitIInv, StepIInv, InitHeld, StepHeld, PTL DEF Spec

-----------------------------------------------------------------------------
(* The codecs *)

\* A rule's fields that are not texts.
Enums(r) ==
    /\ r.action \in Policies /\ r.incoming \in BOOLEAN /\ r.v6 \in BOOLEAN
    /\ r.proto \in Protocols /\ r.log \in LogTypes

\* A port number is not empty if the port is not, and is its own number.
LEMMA PortNumbers ==
    ASSUME NEW p
    PROVE  /\ getPortNumber(p) = "" <=> p = ""
           /\ getPortNumber(getPortNumber(p)) = getPortNumber(p)
           /\ portOf(getPortNumber("")) = ""
           /\ portOf(getPortNumber(portOf(getPortNumber(p)))) = portOf(getPortNumber(p))
<1>1. /\ "" \notin DOMAIN PortNumber
      /\ \A name \in DOMAIN PortNumber :
           PortNumber[name] \notin DOMAIN PortNumber /\ PortNumber[name] # ""
  BY RuleCodecAssumption
<1>2. getPortNumber("") = "" /\ portOf("") = ""
  BY <1>1 DEF getPortNumber, portOf
<1>3. (getPortNumber(p) = "" <=> p = "") /\ getPortNumber(getPortNumber(p)) = getPortNumber(p)
  BY <1>1 DEF getPortNumber
<1>4. portOf(getPortNumber(p)) = "" \/ portOf(getPortNumber(p)) = getPortNumber(p)
  BY DEF portOf
<1> QED
  BY <1>2, <1>3, <1>4

\* Addresses that mean any are not named by an attribute.
LEMMA HostFacts ==
    ASSUME NEW a
    PROVE  hostOf(hostOf(a)) = hostOf(a) /\ hostOf("") = ""
  BY DEF hostOf, ANY_ADDR, ANY_ADDR_V6

\* What is written of a rule, before what is empty is left out.
Fields(r) ==
    [action |-> r.action, direction |-> IF r.incoming THEN "in" ELSE "out",
     dapp |-> r.dapp, sapp |-> r.sapp,
     dport |-> IF r.dapp = "" THEN getPortNumber(r.dport) ELSE "",
     sport |-> IF r.sapp = "" THEN getPortNumber(r.sport) ELSE "",
     protocol |-> IF r.proto = "any" THEN "" ELSE r.proto,
     dst |-> r.dst, src |-> r.src, interface_in |-> r.ifin,
     interface_out |-> r.ifout, logtype |-> r.log,
     v6 |-> IF r.v6 THEN "True" ELSE "False"]

Attributes == {"action", "direction", "dapp", "sapp", "dport", "sport", "protocol", "dst", "src",
               "interface_in", "interface_out", "logtype", "v6"}

\* An attribute of a written rule is the field's text, or the reader's default where the field was left out.
LEMMA WrittenFields ==
    ASSUME NEW r, NEW d
    PROVE  \A a \in Attributes :
             Attr(toXml(r), a, d) = (IF a \in Always \/ Fields(r)[a] # "" THEN Fields(r)[a] ELSE d)
<1> DEFINE all == Fields(r)
           x == toXml(r)
<1>1. x = [a \in {a \in DOMAIN all : a \in Always \/ all[a] # ""} |-> all[a]]
  BY DEF toXml, Fields
<1>2. DOMAIN all = Attributes
  BY DEF Fields, Attributes
<1> HIDE DEF all, x
<1>3. \A a \in DOMAIN all : Attr(x, a, d) = (IF a \in Always \/ all[a] # "" THEN all[a] ELSE d)
  BY <1>1 DEF Attr
<1> QED
  BY <1>2, <1>3 DEF all, x

\* The fields that are not texts.
LEMMA WrittenAlways ==
    ASSUME NEW r, Enums(r), NEW d
    PROVE  /\ Attr(toXml(r), "action", d) = r.action
           /\ Attr(toXml(r), "direction", d) = (IF r.incoming THEN "in" ELSE "out")
           /\ Attr(toXml(r), "logtype", d) = r.log
           /\ Attr(toXml(r), "v6", d) = (IF r.v6 THEN "True" ELSE "False")
           /\ Attr(toXml(r), "protocol", d) = (IF r.proto = "any" THEN d ELSE r.proto)
<1>1. /\ Attr(toXml(r), "action", d) = Fields(r)["action"]
      /\ Attr(toXml(r), "direction", d) = Fields(r)["direction"]
      /\ Attr(toXml(r), "logtype", d) = Fields(r)["logtype"]
      /\ Attr(toXml(r), "v6", d) = Fields(r)["v6"]
  BY WrittenFields DEF Always, Attributes
<1>2. Attr(toXml(r), "protocol", d) = (IF Fields(r)["protocol"] = "" THEN d ELSE Fields(r)["protocol"])
  BY WrittenFields DEF Always, Attributes
<1>3. /\ Fields(r)["action"] = r.action
      /\ Fields(r)["direction"] = (IF r.incoming THEN "in" ELSE "out")
      /\ Fields(r)["logtype"] = r.log
      /\ Fields(r)["v6"] = (IF r.v6 THEN "True" ELSE "False")
      /\ Fields(r)["protocol"] = (IF r.proto = "any" THEN "" ELSE r.proto)
  BY DEF Fields
<1>4. r.proto # ""
  BY DEF Enums, Protocols
<1>5. Attr(toXml(r), "protocol", d) = (IF r.proto = "any" THEN d ELSE r.proto)
  BY <1>2, <1>3, <1>4
<1> QED
  BY <1>1, <1>3, <1>5

\* The texts.
LEMMA WrittenTexts ==
    ASSUME NEW r, Enums(r), NEW d
    PROVE  /\ Attr(toXml(r), "dapp", d) = (IF r.dapp = "" THEN d ELSE r.dapp)
           /\ Attr(toXml(r), "sapp", d) = (IF r.sapp = "" THEN d ELSE r.sapp)
           /\ Attr(toXml(r), "dst", d) = (IF r.dst = "" THEN d ELSE r.dst)
           /\ Attr(toXml(r), "src", d) = (IF r.src = "" THEN d ELSE r.src)
           /\ Attr(toXml(r), "interface_in", d) = (IF r.ifin = "" THEN d ELSE r.ifin)
           /\ Attr(toXml(r), "interface_out", d) = (IF r.ifout = "" THEN d ELSE r.ifout)
<1>1. \A a \in {"dapp", "sapp", "dst", "src", "interface_in", "interface_out"} :
        Attr(toXml(r), a, d) = (IF Fields(r)[a] = "" THEN d ELSE Fields(r)[a])
  <2> DEFINE texts == {"dapp", "sapp", "dst", "src", "interface_in", "interface_out"}
  <2>1. \A a \in texts : a \in Attributes /\ a \notin Always
    BY DEF Attributes, Always
  <2> HIDE DEF texts
  <2>2. \A a \in texts : Attr(toXml(r), a, d) = (IF Fields(r)[a] = "" THEN d ELSE Fields(r)[a])
    BY <2>1, WrittenFields
  <2> QED
    BY <2>2 DEF texts
<1>2. /\ Fields(r)["dapp"] = r.dapp /\ Fields(r)["sapp"] = r.sapp
      /\ Fields(r)["dst"] = r.dst /\ Fields(r)["src"] = r.src
      /\ Fields(r)["interface_in"] = r.ifin /\ Fields(r)["interface_out"] = r.ifout
  BY DEF Fields
<1> QED
  BY <1>1, <1>2

\* The ports, where no application stands for them.
LEMMA WrittenPorts ==
    ASSUME NEW r, Enums(r), NEW d
    PROVE  /\ Attr(toXml(r), "dport", d) = (IF r.dapp # "" \/ r.dport = "" THEN d ELSE getPortNumber(r.dport))
           /\ Attr(toXml(r), "sport", d) = (IF r.sapp # "" \/ r.sport = "" THEN d ELSE getPortNumber(r.sport))
<1>1. \A a \in {"dport", "sport"} :
        Attr(toXml(r), a, d) = (IF Fields(r)[a] = "" THEN d ELSE Fields(r)[a])
  <2>1. \A a \in {"dport", "sport"} : a \in Attributes /\ a \notin Always
    BY DEF Attributes, Always
  <2> QED
    BY <2>1, WrittenFields
<1>2. /\ Fields(r)["dport"] = (IF r.dapp = "" THEN getPortNumber(r.dport) ELSE "")
      /\ Fields(r)["sport"] = (IF r.sapp = "" THEN getPortNumber(r.sport) ELSE "")
  BY DEF Fields
<1>3. (getPortNumber(r.dport) = "" <=> r.dport = "") /\ (getPortNumber(r.sport) = "" <=> r.sport = "")
  BY PortNumbers
<1> QED
  BY <1>1, <1>2, <1>3

\* The port that ufw is given for a side, with an application or without one.
UfwPort(app, port) == IF app # "" THEN app ELSE IF port = "" THEN "any" ELSE getPortNumber(port)
UfwHost(addr)      == IF addr = "" THEN ANY_ADDR ELSE addr

\* The rule that ufw is given.
LEMMA SentIs ==
    ASSUME NEW r, Enums(r)
    PROVE  Sent(r) =
             [action |-> r.action, protocol |-> IF r.dapp = "" /\ r.sapp = "" THEN r.proto ELSE "any",
              direction |-> IF r.incoming THEN "in" ELSE "out",
              dapp |-> r.dapp, sapp |-> r.sapp,
              dport |-> UfwPort(r.dapp, r.dport), sport |-> UfwPort(r.sapp, r.sport),
              dst |-> UfwHost(r.dst), src |-> UfwHost(r.src),
              interface_in |-> r.ifin, interface_out |-> r.ifout,
              logtype |-> r.log, v6 |-> r.v6]
<1> DEFINE x == toXml(r)
           u == fromXml(x)
           plain == [action |-> r.action, protocol |-> r.proto,
                     direction |-> IF r.incoming THEN "in" ELSE "out",
                     dapp |-> r.dapp, sapp |-> r.sapp,
                     dport |-> IF r.dapp # "" \/ r.dport = "" THEN "any" ELSE getPortNumber(r.dport),
                     sport |-> IF r.sapp # "" \/ r.sport = "" THEN "any" ELSE getPortNumber(r.sport),
                     dst |-> UfwHost(r.dst), src |-> UfwHost(r.src),
                     interface_in |-> r.ifin, interface_out |-> r.ifout,
                     logtype |-> r.log, v6 |-> r.v6]
<1>0. x = toXml(r)
  OBVIOUS
<1> HIDE DEF x, u, plain
<1>1. /\ Attr(x, "action", "") = r.action
      /\ Attr(x, "direction", "in") = (IF r.incoming THEN "in" ELSE "out")
      /\ Attr(x, "logtype", "") = r.log
      /\ Attr(x, "v6", "False") = (IF r.v6 THEN "True" ELSE "False")
      /\ Attr(x, "protocol", "any") = (IF r.proto = "any" THEN "any" ELSE r.proto)
      /\ Attr(x, "dapp", "") = r.dapp /\ Attr(x, "sapp", "") = r.sapp
      /\ Attr(x, "dport", "any") = (IF r.dapp # "" \/ r.dport = "" THEN "any" ELSE getPortNumber(r.dport))
      /\ Attr(x, "sport", "any") = (IF r.sapp # "" \/ r.sport = "" THEN "any" ELSE getPortNumber(r.sport))
      /\ Attr(x, "dst", ANY_ADDR) = UfwHost(r.dst) /\ Attr(x, "src", ANY_ADDR) = UfwHost(r.src)
      /\ Attr(x, "interface_in", "") = r.ifin /\ Attr(x, "interface_out", "") = r.ifout
  <2>1. /\ Attr(x, "action", "") = r.action /\ Attr(x, "logtype", "") = r.log
        /\ Attr(x, "dapp", "") = r.dapp /\ Attr(x, "sapp", "") = r.sapp
        /\ Attr(x, "interface_in", "") = r.ifin /\ Attr(x, "interface_out", "") = r.ifout
    BY <1>0, WrittenAlways, WrittenTexts
  <2>2. Attr(x, "direction", "in") = (IF r.incoming THEN "in" ELSE "out")
    BY <1>0, WrittenAlways
  <2>3. Attr(x, "v6", "False") = (IF r.v6 THEN "True" ELSE "False")
    BY <1>0, WrittenAlways
  <2>4. /\ Attr(x, "protocol", "any") = (IF r.proto = "any" THEN "any" ELSE r.proto)
        /\ Attr(x, "dport", "any") = (IF r.dapp # "" \/ r.dport = "" THEN "any" ELSE getPortNumber(r.dport))
        /\ Attr(x, "sport", "any") = (IF r.sapp # "" \/ r.sport = "" THEN "any" ELSE getPortNumber(r.sport))
    BY <1>0, WrittenAlways, WrittenPorts
  <2>5. Attr(x, "dst", ANY_ADDR) = UfwHost(r.dst) /\ Attr(x, "src", ANY_ADDR) = UfwHost(r.src)
    BY <1>0, WrittenTexts DEF UfwHost
  <2> QED
    BY <2>1, <2>2, <2>3, <2>4, <2>5
<1>2. (Attr(x, "v6", "False") = "True") = r.v6
  <2>1. CASE r.v6 = TRUE
    BY <1>1, <2>1
  <2>2. CASE r.v6 = FALSE
    BY <1>1, <2>2
  <2> QED
    BY <2>1, <2>2 DEF Enums
<1>3. u = plain
  BY <1>1, <1>2 DEF fromXml, u, plain
<1>4. Sent(r) = evenOut(plain)
  BY <1>0, <1>3 DEF Sent, u
<1> QED
  BY <1>4 DEF evenOut, UfwPort, plain

\* What ufw has of a side's ports.
KeptPort(app, port) ==
    IF app \in DOMAIN Apps THEN Apps[app][1].port
    ELSE IF app # "" THEN portOf(app) ELSE portOf(getPortNumber(port))
KeptProtocol(r) ==
    IF r.dapp \in DOMAIN Apps THEN Apps[r.dapp][1].proto
    ELSE IF r.sapp \in DOMAIN Apps THEN Apps[r.sapp][1].proto
    ELSE IF r.dapp = "" /\ r.sapp = "" THEN r.proto ELSE "any"

\* An application's first port.
LEMMA FirstPart ==
    ASSUME NEW app \in DOMAIN Apps
    PROVE  Apps[app][1] \in PortParts /\ portOf(Apps[app][1].port) = Apps[app][1].port
<1> DEFINE parts == Apps[app]
<1>1. parts \in Seq(PortParts) /\ parts # <<>>
  BY RuleCodecAssumption
<1> HIDE DEF parts
<1>2. parts[1] \in PortParts
  BY <1>1
<1> QED
  BY <1>2 DEF parts, PortParts, portOf

\* The rule that the window lists, once it has sent one.
LEMMA ReadBackIs ==
    ASSUME NEW r, Enums(r), NEW family \in {"v4", "v6"}
    PROVE  /\ ReadBack(r, family) =
                [action |-> r.action, incoming |-> r.incoming, v6 |-> family = "v6",
                 proto |-> KeptProtocol(r), log |-> r.log, dapp |-> r.dapp, sapp |-> r.sapp,
                 dst |-> hostOf(r.dst), src |-> hostOf(r.src),
                 dport |-> KeptPort(r.dapp, r.dport), sport |-> KeptPort(r.sapp, r.sport),
                 ifin |-> r.ifin, ifout |-> r.ifout]
           /\ KeptProtocol(r) \in Protocols
<1> DEFINE u == Sent(r)
           any(addr) == IF addr = ANY_ADDR /\ family = "v6" THEN ANY_ADDR_V6 ELSE addr
           port(app, kept) == IF app \in DOMAIN Apps THEN Apps[app][1].port ELSE kept
           prot == IF r.dapp \in DOMAIN Apps THEN Apps[r.dapp][1].proto
                   ELSE IF r.sapp \in DOMAIN Apps THEN Apps[r.sapp][1].proto
                   ELSE u.protocol
           dst == any(u.dst)
           src == any(u.src)
           dport == port(u.dapp, u.dport)
           sport == port(u.sapp, u.sport)
           v6 == IF family = "v6" THEN "True" ELSE "False"
           xml == [action |-> r.action, protocol |-> prot,
                   direction |-> IF r.incoming THEN "in" ELSE "out",
                   dapp |-> r.dapp, sapp |-> r.sapp,
                   dport |-> dport, sport |-> sport, dst |-> dst, src |-> src,
                   interface_in |-> r.ifin, interface_out |-> r.ifout,
                   logtype |-> r.log, v6 |-> v6]
<1>1. /\ u = [action |-> u.action, protocol |-> u.protocol, direction |-> u.direction,
              dapp |-> u.dapp, sapp |-> u.sapp, dport |-> u.dport, sport |-> u.sport,
              dst |-> u.dst, src |-> u.src, interface_in |-> u.interface_in,
              interface_out |-> u.interface_out, logtype |-> u.logtype, v6 |-> u.v6]
      /\ u.action = r.action /\ u.direction = (IF r.incoming THEN "in" ELSE "out")
      /\ u.protocol = (IF r.dapp = "" /\ r.sapp = "" THEN r.proto ELSE "any")
      /\ u.dapp = r.dapp /\ u.sapp = r.sapp
      /\ u.dport = UfwPort(r.dapp, r.dport) /\ u.sport = UfwPort(r.sapp, r.sport)
      /\ u.dst = UfwHost(r.dst) /\ u.src = UfwHost(r.src)
      /\ u.interface_in = r.ifin /\ u.interface_out = r.ifout /\ u.logtype = r.log
  <2> HIDE DEF u
  <2> DEFINE s == [action |-> r.action, protocol |-> IF r.dapp = "" /\ r.sapp = "" THEN r.proto ELSE "any",
                   direction |-> IF r.incoming THEN "in" ELSE "out",
                   dapp |-> r.dapp, sapp |-> r.sapp,
                   dport |-> UfwPort(r.dapp, r.dport), sport |-> UfwPort(r.sapp, r.sport),
                   dst |-> UfwHost(r.dst), src |-> UfwHost(r.src),
                   interface_in |-> r.ifin, interface_out |-> r.ifout,
                   logtype |-> r.log, v6 |-> r.v6]
  <2>1. u = s
    BY SentIs DEF u
  <2> QED
    BY <2>1
<1> HIDE DEF u
<1>2. ruleDetails(Stored(u, family)) = xml
  <2> DEFINE dir == IF r.incoming THEN "in" ELSE "out"
             a1 == u.protocol
             a2 == u.dport
             a3 == u.sport
             a4 == u.dst
             a5 == u.src
             a6 == u.v6
             given == [action |-> r.action, protocol |-> a1, direction |-> dir,
                       dapp |-> r.dapp, sapp |-> r.sapp, dport |-> a2, sport |-> a3,
                       dst |-> a4, src |-> a5, interface_in |-> r.ifin,
                       interface_out |-> r.ifout, logtype |-> r.log, v6 |-> a6]
             kept == [action |-> r.action, protocol |-> prot, direction |-> dir,
                      dapp |-> r.dapp, sapp |-> r.sapp, dport |-> dport, sport |-> sport,
                      dst |-> dst, src |-> src, interface_in |-> r.ifin,
                      interface_out |-> r.ifout, logtype |-> r.log, v6 |-> family = "v6"]
  <2>1. u = given
    BY <1>1
  <2>2. /\ prot = (IF r.dapp \in DOMAIN Apps THEN Apps[r.dapp][1].proto
                   ELSE IF r.sapp \in DOMAIN Apps THEN Apps[r.sapp][1].proto
                   ELSE a1)
        /\ dport = (IF r.dapp \in DOMAIN Apps THEN Apps[r.dapp][1].port ELSE a2)
        /\ sport = (IF r.sapp \in DOMAIN Apps THEN Apps[r.sapp][1].port ELSE a3)
        /\ dst = any(a4) /\ src = any(a5)
    BY <1>1
  <2> HIDE DEF prot, dport, sport, dst, src, a1, a2, a3, a4, a5, a6, dir
  <2>3. Stored(given, family) = kept
    <3> DEFINE b == family = "v6"
               g1 == [given EXCEPT !.v6 = b]
               g2 == [g1 EXCEPT !.dst = dst]
               g3 == [g2 EXCEPT !.src = src]
               g4 == [g3 EXCEPT !.dport = dport]
               g5 == [g4 EXCEPT !.sport = sport]
               g6 == [g5 EXCEPT !.protocol = prot]
    <3>1. /\ given.dapp = r.dapp /\ given.sapp = r.sapp /\ given.dst = a4 /\ given.src = a5
          /\ given.dport = a2 /\ given.sport = a3 /\ given.protocol = a1
      OBVIOUS
    <3>2. g6 = kept
      <4> HIDE DEF b
      <4>1. g1 = [action |-> r.action, protocol |-> a1, direction |-> dir, dapp |-> r.dapp, sapp |-> r.sapp,
                  dport |-> a2, sport |-> a3, dst |-> a4, src |-> a5,
                  interface_in |-> r.ifin, interface_out |-> r.ifout, logtype |-> r.log, v6 |-> b]
        OBVIOUS
      <4> HIDE DEF g1
      <4>2. g2 = [action |-> r.action, protocol |-> a1, direction |-> dir, dapp |-> r.dapp, sapp |-> r.sapp,
                  dport |-> a2, sport |-> a3, dst |-> dst, src |-> a5,
                  interface_in |-> r.ifin, interface_out |-> r.ifout, logtype |-> r.log, v6 |-> b]
        BY <4>1
      <4> HIDE DEF g2
      <4>3. g3 = [action |-> r.action, protocol |-> a1, direction |-> dir, dapp |-> r.dapp, sapp |-> r.sapp,
                  dport |-> a2, sport |-> a3, dst |-> dst, src |-> src,
                  interface_in |-> r.ifin, interface_out |-> r.ifout, logtype |-> r.log, v6 |-> b]
        BY <4>2
      <4> HIDE DEF g3
      <4>4. g4 = [action |-> r.action, protocol |-> a1, direction |-> dir, dapp |-> r.dapp, sapp |-> r.sapp,
                  dport |-> dport, sport |-> a3, dst |-> dst, src |-> src,
                  interface_in |-> r.ifin, interface_out |-> r.ifout, logtype |-> r.log, v6 |-> b]
        BY <4>3
      <4> HIDE DEF g4
      <4>5. g5 = [action |-> r.action, protocol |-> a1, direction |-> dir, dapp |-> r.dapp, sapp |-> r.sapp,
                  dport |-> dport, sport |-> sport, dst |-> dst, src |-> src,
                  interface_in |-> r.ifin, interface_out |-> r.ifout, logtype |-> r.log, v6 |-> b]
        BY <4>4
      <4> HIDE DEF g5
      <4>6. g6 = [action |-> r.action, protocol |-> prot, direction |-> dir, dapp |-> r.dapp, sapp |-> r.sapp,
                  dport |-> dport, sport |-> sport, dst |-> dst, src |-> src,
                  interface_in |-> r.ifin, interface_out |-> r.ifout, logtype |-> r.log, v6 |-> b]
        BY <4>5
      <4> HIDE DEF g6
      <4> QED
        BY <4>6 DEF b
    <3> HIDE DEF given
    <3>3. Stored(given, family) = [given EXCEPT !.v6 = b, !.dst = dst, !.src = src,
                                     !.dport = dport, !.sport = sport, !.protocol = prot]
      BY <2>2, <3>1 DEF Stored
    <3> HIDE DEF kept
    <3> QED
      BY <3>2, <3>3
  <2>4. ruleDetails(kept) = [kept EXCEPT !.v6 = v6]
    <3>1. kept.v6 = (family = "v6")
      OBVIOUS
    <3> HIDE DEF kept
    <3>2. (IF kept.v6 THEN "True" ELSE "False") = v6
      BY <3>1
    <3> HIDE DEF v6
    <3> QED
      BY <3>2 DEF ruleDetails
  <2>5. [kept EXCEPT !.v6 = v6] = xml
    BY DEF dir
  <2> QED
    BY <2>1, <2>3, <2>4, <2>5
<1>3. prot = KeptProtocol(r) /\ prot \in Protocols
  <2>1. r.dapp \in DOMAIN Apps => Apps[r.dapp][1].proto \in Protocols
    BY FirstPart DEF PortParts
  <2>2. r.sapp \in DOMAIN Apps => Apps[r.sapp][1].proto \in Protocols
    BY FirstPart DEF PortParts
  <2>3. u.protocol \in Protocols
    BY <1>1 DEF Enums, Protocols
  <2>4. prot = KeptProtocol(r)
    BY <1>1 DEF KeptProtocol
  <2> QED
    BY <2>1, <2>2, <2>3, <2>4
<1>4. hostOf(dst) = hostOf(r.dst) /\ hostOf(src) = hostOf(r.src)
  BY <1>1 DEF UfwHost, hostOf, ANY_ADDR, ANY_ADDR_V6
<1>5. portOf(dport) = KeptPort(r.dapp, r.dport) /\ portOf(sport) = KeptPort(r.sapp, r.sport)
  <2>1. ASSUME NEW app, NEW p
        PROVE  portOf(port(app, UfwPort(app, p))) = KeptPort(app, p)
    <3>1. CASE app \in DOMAIN Apps
      BY <3>1, FirstPart DEF KeptPort
    <3>2. CASE app \notin DOMAIN Apps
      <4>1. portOf("any") = "" /\ portOf(getPortNumber("")) = ""
        BY PortNumbers DEF portOf
      <4> QED
        BY <3>2, <4>1 DEF KeptPort, UfwPort
    <3> QED
      BY <3>1, <3>2
  <2> HIDE DEF port
  <2> QED
    BY <1>1, <2>1
<1> HIDE DEF prot, dst, src, dport, sport
<1>6. /\ xml["action"] = r.action /\ xml["direction"] = (IF r.incoming THEN "in" ELSE "out")
      /\ xml["v6"] = v6 /\ xml["protocol"] = prot /\ xml["logtype"] = r.log
      /\ xml["dapp"] = r.dapp /\ xml["sapp"] = r.sapp
  OBVIOUS
<1>7. /\ xml["dst"] = dst /\ xml["src"] = src /\ xml["dport"] = dport
      /\ xml["sport"] = sport /\ xml["interface_in"] = r.ifin /\ xml["interface_out"] = r.ifout
  OBVIOUS
<1>8. DOMAIN xml = Attributes
  BY DEF Attributes
<1> HIDE DEF xml
<1>9. \A a \in Attributes : Attr(xml, a, "") = xml[a]
  BY <1>8 DEF Attr
<1>10. /\ Attr(xml, "action", "") = r.action
       /\ Attr(xml, "direction", "") = (IF r.incoming THEN "in" ELSE "out")
       /\ Attr(xml, "v6", "") = v6 /\ Attr(xml, "protocol", "") = prot
       /\ Attr(xml, "logtype", "") = r.log
       /\ Attr(xml, "dapp", "") = r.dapp /\ Attr(xml, "sapp", "") = r.sapp
  BY <1>6, <1>9 DEF Attributes
<1>11. /\ Attr(xml, "dst", "") = dst /\ Attr(xml, "src", "") = src
       /\ Attr(xml, "dport", "") = dport /\ Attr(xml, "sport", "") = sport
       /\ Attr(xml, "interface_in", "") = r.ifin /\ Attr(xml, "interface_out", "") = r.ifout
  BY <1>7, <1>9 DEF Attributes
<1>12. /\ (Attr(xml, "direction", "") = "in") = r.incoming
       /\ (Attr(xml, "v6", "") = "True") = (family = "v6")
  <2>1. (Attr(xml, "direction", "") = "in") = r.incoming
    <3>1. CASE r.incoming = TRUE
      BY <1>10, <3>1
    <3>2. CASE r.incoming = FALSE
      BY <1>10, <3>2
    <3> QED
      BY <3>1, <3>2 DEF Enums
  <2> QED
    BY <2>1, <1>10
<1>13. /\ (IF Attr(xml, "action", "") \in Policies THEN Attr(xml, "action", "") ELSE "allow") = r.action
       /\ (IF Attr(xml, "protocol", "") \in {"tcp", "udp"} THEN Attr(xml, "protocol", "") ELSE "any") = prot
       /\ (IF Attr(xml, "logtype", "") \in LogTypes \ {""} THEN Attr(xml, "logtype", "") ELSE "") = r.log
  BY <1>3, <1>10 DEF Enums, Protocols, LogTypes
<1> DEFINE rule == [action |-> r.action, incoming |-> r.incoming, v6 |-> family = "v6",
                    proto |-> prot, log |-> r.log, dapp |-> r.dapp, sapp |-> r.sapp,
                    dst |-> hostOf(dst), src |-> hostOf(src),
                    dport |-> portOf(dport), sport |-> portOf(sport),
                    ifin |-> r.ifin, ifout |-> r.ifout]
<1>14. ruleOf(xml) = rule
  BY <1>10, <1>11, <1>12, <1>13 DEF ruleOf
<1>15. ReadBack(r, family) = rule
  BY <1>2, <1>14 DEF ReadBack, u
<1> QED
  BY <1>3, <1>4, <1>5, <1>15

\* What comes back is the same traffic.
LEMMA SameComesBack ==
    ASSUME NEW r, Enums(r), NEW family \in {"v4", "v6"}
    PROVE  SameTraffic(r, ReadBack(r, family)) /\ ReadBack(r, family).v6 = (family = "v6")
<1> DEFINE o == ReadBack(r, family)
<1>1. /\ o.action = r.action /\ o.incoming = r.incoming /\ o.log = r.log
      /\ o.dapp = r.dapp /\ o.sapp = r.sapp /\ o.ifin = r.ifin /\ o.ifout = r.ifout
      /\ o.v6 = (family = "v6")
  BY ReadBackIs
<1>2. /\ o.dst = hostOf(r.dst) /\ o.src = hostOf(r.src)
      /\ o.dport = KeptPort(r.dapp, r.dport) /\ o.sport = KeptPort(r.sapp, r.sport)
      /\ o.proto = KeptProtocol(r)
  BY ReadBackIs
<1> HIDE DEF o
<1>3. "" \notin DOMAIN Apps
  BY RuleCodecAssumption
<1>4. \A f \in {"action", "incoming", "log", "dapp", "sapp", "ifin", "ifout"} : r[f] = o[f]
  BY <1>1
<1>5. /\ r.dapp = "" => portOf(getPortNumber(r.dport)) = o.dport
      /\ r.sapp = "" => portOf(getPortNumber(r.sport)) = o.sport
      /\ r.dapp = "" /\ r.sapp = "" => r.proto = o.proto
  BY <1>2, <1>3 DEF KeptPort, KeptProtocol
<1>6. SameTraffic(r, o)
  BY <1>2, <1>4, <1>5 DEF SameTraffic
<1> QED
  BY <1>1, <1>6 DEF o

\* A rule that came back comes back again as it is, for the same family.
LEMMA ComesBackAgain ==
    ASSUME NEW r, Enums(r), NEW family \in {"v4", "v6"}
    PROVE  LET o == ReadBack(r, family)
           IN  /\ Enums(o)
               /\ ReadBack(o, family) = o
               /\ family \in Families(Sent(r)) => family \in Families(Sent(o))
<1> DEFINE o == ReadBack(r, family)
<1>1. /\ o.action = r.action /\ o.incoming = r.incoming /\ o.log = r.log
      /\ o.dapp = r.dapp /\ o.sapp = r.sapp /\ o.ifin = r.ifin /\ o.ifout = r.ifout
      /\ o.v6 = (family = "v6")
  BY ReadBackIs
<1>2. /\ o.dst = hostOf(r.dst) /\ o.src = hostOf(r.src)
      /\ o.dport = KeptPort(r.dapp, r.dport) /\ o.sport = KeptPort(r.sapp, r.sport)
      /\ o.proto = KeptProtocol(r) /\ o.proto \in Protocols
  BY ReadBackIs
<1>3. o = [action |-> r.action, incoming |-> r.incoming, v6 |-> family = "v6",
           proto |-> KeptProtocol(r), log |-> r.log, dapp |-> r.dapp, sapp |-> r.sapp,
           dst |-> hostOf(r.dst), src |-> hostOf(r.src),
           dport |-> KeptPort(r.dapp, r.dport), sport |-> KeptPort(r.sapp, r.sport),
           ifin |-> r.ifin, ifout |-> r.ifout]
  BY ReadBackIs
<1> HIDE DEF o
<1>4. Enums(o)
  BY <1>1, <1>2 DEF Enums
<1>5. "" \notin DOMAIN Apps
  BY RuleCodecAssumption
<1>6. KeptPort(o.dapp, o.dport) = KeptPort(r.dapp, r.dport)
      /\ KeptPort(o.sapp, o.sport) = KeptPort(r.sapp, r.sport)
  <2>1. \A app, p : KeptPort(app, KeptPort(app, p)) = KeptPort(app, p)
    BY PortNumbers DEF KeptPort
  <2> QED
    BY <1>1, <1>2, <2>1
<1>7. KeptProtocol(o) = KeptProtocol(r)
  BY <1>1, <1>2, <1>5 DEF KeptProtocol
<1>8. hostOf(o.dst) = hostOf(r.dst) /\ hostOf(o.src) = hostOf(r.src)
  BY <1>2, HostFacts
<1>9. ReadBack(o, family) =
          [action |-> o.action, incoming |-> o.incoming, v6 |-> family = "v6",
           proto |-> KeptProtocol(o), log |-> o.log, dapp |-> o.dapp, sapp |-> o.sapp,
           dst |-> hostOf(o.dst), src |-> hostOf(o.src),
           dport |-> KeptPort(o.dapp, o.dport), sport |-> KeptPort(o.sapp, o.sport),
           ifin |-> o.ifin, ifout |-> o.ifout]
  BY <1>4, ReadBackIs
<1>10. ReadBack(o, family) = o
  BY <1>1, <1>3, <1>6, <1>7, <1>8, <1>9
<1>11. Sent(r).dst = UfwHost(r.dst) /\ Sent(r).src = UfwHost(r.src)
       /\ Sent(o).dst = UfwHost(o.dst) /\ Sent(o).src = UfwHost(o.src)
  <2>1. ASSUME NEW q, Enums(q)
        PROVE  Sent(q).dst = UfwHost(q.dst) /\ Sent(q).src = UfwHost(q.src)
    <3> DEFINE s == Sent(q)
    <3>1. s = [action |-> q.action, protocol |-> IF q.dapp = "" /\ q.sapp = "" THEN q.proto ELSE "any",
               direction |-> IF q.incoming THEN "in" ELSE "out",
               dapp |-> q.dapp, sapp |-> q.sapp,
               dport |-> UfwPort(q.dapp, q.dport), sport |-> UfwPort(q.sapp, q.sport),
               dst |-> UfwHost(q.dst), src |-> UfwHost(q.src),
               interface_in |-> q.ifin, interface_out |-> q.ifout,
               logtype |-> q.log, v6 |-> q.v6]
      BY <2>1, SentIs
    <3> HIDE DEF s
    <3>2. s.dst = UfwHost(q.dst) /\ s.src = UfwHost(q.src)
      BY <3>1
    <3> QED
      BY <3>2 DEF s
  <2> QED
    BY <1>4, <2>1
<1>12. {Sent(o).dst, Sent(o).src} \ {ANY_ADDR} \subseteq {Sent(r).dst, Sent(r).src} \ {ANY_ADDR}
  <2>1. \A a : UfwHost(hostOf(a)) \in {ANY_ADDR, UfwHost(a)}
    BY DEF UfwHost, hostOf
  <2> QED
    BY <1>2, <1>11, <2>1
<1>13. family \in Families(Sent(r)) => family \in Families(Sent(o))
  BY <1>12 DEF Families
<1> QED
  BY <1>4, <1>10, <1>13 DEF o

\* The rule of a profile's file is the rule that was written to it.
LEMMA SavedRule ==
    ASSUME NEW r, Enums(r), NEW family \in {"v4", "v6"}
    PROVE  Equal(ruleOf(toXml(ReadBack(r, family))), ReadBack(r, family))
<1> DEFINE o == ReadBack(r, family)
           x == toXml(o)
           q == ruleOf(x)
<1>1. Enums(o)
  BY ComesBackAgain
<1>2. /\ o.dst = hostOf(r.dst) /\ o.src = hostOf(r.src) /\ o.dapp = r.dapp /\ o.sapp = r.sapp
      /\ o.dport = KeptPort(r.dapp, r.dport) /\ o.sport = KeptPort(r.sapp, r.sport)
  BY ReadBackIs
<1>3. "" \notin DOMAIN Apps
  BY RuleCodecAssumption
<1>4. /\ o.dapp = "" => portOf(getPortNumber(o.dport)) = o.dport
      /\ o.sapp = "" => portOf(getPortNumber(o.sport)) = o.sport
  BY <1>2, <1>3, PortNumbers DEF KeptPort
<1>5. hostOf(o.dst) = o.dst /\ hostOf(o.src) = o.src
  BY <1>2, HostFacts
<1> HIDE DEF o
<1>6. /\ Attr(x, "action", "") = o.action
      /\ Attr(x, "direction", "") = (IF o.incoming THEN "in" ELSE "out")
      /\ Attr(x, "v6", "") = (IF o.v6 THEN "True" ELSE "False")
      /\ Attr(x, "protocol", "") = (IF o.proto = "any" THEN "" ELSE o.proto)
  BY <1>1, WrittenAlways
<1>7. /\ Attr(x, "dapp", "") = o.dapp /\ Attr(x, "sapp", "") = o.sapp
      /\ Attr(x, "dst", "") = o.dst /\ Attr(x, "src", "") = o.src
      /\ Attr(x, "interface_in", "") = o.ifin /\ Attr(x, "interface_out", "") = o.ifout
  BY <1>1, WrittenTexts
<1>8. /\ Attr(x, "dport", "") = (IF o.dapp # "" \/ o.dport = "" THEN "" ELSE getPortNumber(o.dport))
      /\ Attr(x, "sport", "") = (IF o.sapp # "" \/ o.sport = "" THEN "" ELSE getPortNumber(o.sport))
  BY <1>1, WrittenPorts
<1> HIDE DEF x
<1>9. /\ q.action = (IF Attr(x, "action", "") \in Policies THEN Attr(x, "action", "") ELSE "allow")
      /\ q.incoming = (Attr(x, "direction", "") = "in") /\ q.v6 = (Attr(x, "v6", "") = "True")
      /\ q.proto = (IF Attr(x, "protocol", "") \in {"tcp", "udp"} THEN Attr(x, "protocol", "") ELSE "any")
  BY DEF ruleOf
<1>10. /\ q.dapp = Attr(x, "dapp", "") /\ q.sapp = Attr(x, "sapp", "")
       /\ q.dst = hostOf(Attr(x, "dst", "")) /\ q.src = hostOf(Attr(x, "src", ""))
       /\ q.dport = portOf(Attr(x, "dport", "")) /\ q.sport = portOf(Attr(x, "sport", ""))
       /\ q.ifin = Attr(x, "interface_in", "") /\ q.ifout = Attr(x, "interface_out", "")
  BY DEF ruleOf
<1> HIDE DEF q
<1>11. q.action = o.action /\ q.proto = o.proto
  BY <1>1, <1>6, <1>9 DEF Enums, Protocols
<1>12. q.incoming = o.incoming /\ q.v6 = o.v6
  <2>1. o.incoming \in {TRUE, FALSE} /\ o.v6 \in {TRUE, FALSE}
    BY <1>1 DEF Enums
  <2>2. CASE o.incoming = TRUE
    <3>1. q.incoming = TRUE
      BY <1>6, <1>9, <2>2
    <3>2. CASE o.v6 = TRUE
      BY <1>6, <1>9, <2>2, <3>1, <3>2
    <3>3. CASE o.v6 = FALSE
      BY <1>6, <1>9, <2>2, <3>1, <3>3
    <3> QED
      BY <2>1, <3>2, <3>3
  <2>3. CASE o.incoming = FALSE
    <3>1. q.incoming = FALSE
      BY <1>6, <1>9, <2>3
    <3>2. CASE o.v6 = TRUE
      BY <1>6, <1>9, <2>3, <3>1, <3>2
    <3>3. CASE o.v6 = FALSE
      BY <1>6, <1>9, <2>3, <3>1, <3>3
    <3> QED
      BY <2>1, <3>2, <3>3
  <2> QED
    BY <2>1, <2>2, <2>3
<1>13. /\ q.dapp = o.dapp /\ q.sapp = o.sapp /\ q.dst = o.dst /\ q.src = o.src
       /\ q.ifin = o.ifin /\ q.ifout = o.ifout
  BY <1>5, <1>7, <1>10
<1>14. (o.dapp = "" => q.dport = o.dport) /\ (o.sapp = "" => q.sport = o.sport)
  <2>1. portOf("") = ""
    BY DEF portOf
  <2> QED
    BY <1>4, <1>8, <1>10, <2>1
<1>15. \A f \in {"action", "incoming", "v6", "proto", "dapp", "sapp", "dst", "src", "ifin", "ifout"} :
         q[f] = o[f]
  BY <1>11, <1>12, <1>13
<1>16. Equal(q, o)
  BY <1>14, <1>15 DEF Equal
<1> QED
  BY <1>16 DEF q, x, o

\* Any profile whose rules are read as they were written is read as it was
\* written.
LEMMA SavedProfile ==
    ASSUME NEW p,
           p.ipv6 \in BOOLEAN, p.loglevel \in LogLevels,
           p.incoming \in Policies \ {"limit"}, p.outgoing \in Policies \ {"limit"},
           \A k \in DOMAIN p.rules : Equal(ruleOf(toXml(p.rules[k])), p.rules[k])
    PROVE  load(profileXml(p)).fields = Parts /\ SameProfile(load(profileXml(p)), p)
<1> DEFINE yes == IF p.ipv6 THEN "yes" ELSE "no"
           d == [ipv6 |-> yes, loglevel |-> p.loglevel, incoming |-> p.incoming, outgoing |-> p.outgoing]
           rules == [k \in DOMAIN p.rules |-> toXml(p.rules[k])]
           x == [full |-> "true", defaults |-> d, rules |-> rules, modules |-> p.modules]
           read == [k \in DOMAIN rules |-> ruleOf(rules[k])]
           chosen(name, known, default) == IF Attr(d, name, "") \in known THEN d[name] ELSE default
           q == [fields |-> Parts, ipv6 |-> Attr(d, "ipv6", "") = "yes",
                 loglevel |-> chosen("loglevel", SavedLevels, "off"),
                 incoming |-> chosen("incoming", Policies \ {"limit"}, "allow"),
                 outgoing |-> chosen("outgoing", Policies \ {"limit"}, "allow"),
                 rules |-> read, modules |-> p.modules]
<1>1. profileXml(p) = x
  BY DEF profileXml
<1>2. /\ DOMAIN d = {"ipv6", "loglevel", "incoming", "outgoing"}
      /\ d["ipv6"] = yes /\ d["loglevel"] = p.loglevel
      /\ d["incoming"] = p.incoming /\ d["outgoing"] = p.outgoing
  OBVIOUS
<1>3. /\ Attr(d, "ipv6", "") = yes /\ Attr(d, "loglevel", "") = p.loglevel
      /\ Attr(d, "incoming", "") = p.incoming /\ Attr(d, "outgoing", "") = p.outgoing
  <2> HIDE DEF d, yes
  <2> QED
    BY <1>2 DEF Attr
<1>4. DOMAIN rules = DOMAIN p.rules /\ \A k \in DOMAIN p.rules : rules[k] = toXml(p.rules[k])
  OBVIOUS
<1>5. DOMAIN read = DOMAIN p.rules /\ \A k \in DOMAIN p.rules : read[k] = ruleOf(toXml(p.rules[k]))
  <2> HIDE DEF rules
  <2> QED
    BY <1>4
<1>6. (yes = "yes") = p.ipv6
  <2>1. CASE p.ipv6 = TRUE
    BY <2>1
  <2>2. CASE p.ipv6 = FALSE
    BY <2>2
  <2> QED
    BY <2>1, <2>2
<1> HIDE DEF d, rules, yes
<1>7. load(x) = q
  <2>1. /\ DOMAIN x = {"full", "defaults", "rules", "modules"}
        /\ x["full"] = "true" /\ x.defaults = d /\ x.rules = rules /\ x.modules = p.modules
    OBVIOUS
  <2> HIDE DEF x
  <2>2. Parts \cap DOMAIN x = Parts
    BY <2>1 DEF Parts
  <2>3. "defaults" \in Parts /\ "rules" \in Parts /\ "modules" \in Parts
    BY DEF Parts
  <2> QED
    BY <2>1, <2>2, <2>3 DEF load
<1>8. /\ chosen("loglevel", SavedLevels, "off") = p.loglevel
      /\ chosen("incoming", Policies \ {"limit"}, "allow") = p.incoming
      /\ chosen("outgoing", Policies \ {"limit"}, "allow") = p.outgoing
  BY <1>2, <1>3 DEF SavedLevels
<1> HIDE DEF read, chosen
<1>9. /\ q.fields = Parts /\ q.ipv6 = p.ipv6 /\ q.loglevel = p.loglevel
      /\ q.incoming = p.incoming /\ q.outgoing = p.outgoing
      /\ q.modules = p.modules /\ q.rules = read
  BY <1>3, <1>6, <1>8
<1> HIDE DEF q
<1>10. \A f \in {"ipv6", "loglevel", "incoming", "outgoing", "modules"} : q[f] = p[f]
  BY <1>9
<1>11. SameProfile(q, p)
  BY <1>5, <1>9, <1>10 DEF SameProfile
<1> QED
  BY <1>1, <1>7, <1>9, <1>11

\* The rules that the dialog sends have what the codecs tell apart.
LEMMA SentEnums == HeldOK => \A k \in DOMAIN sent.rules : Enums(sent.rules[k])
<1> SUFFICES ASSUME HeldOK, NEW k \in DOMAIN sent.rules PROVE Enums(sent.rules[k])
  OBVIOUS
<1>1. sent.rules[k] \in WindowRules
  BY DEF HeldOK
<1> QED
  BY <1>1 DEF WindowRules, Enums

\* Whatever the dialog sends, the window lists the same traffic, for each
\* family that ufw keeps it for.
THEOREM SentRulesComeBack == Spec => []ReadBackIsWhatWasSent
<1>1. HeldOK => ReadBackIsWhatWasSent
  <2> SUFFICES ASSUME HeldOK, NEW k \in DOMAIN sent.rules,
                      NEW family \in Families(Sent(sent.rules[k]))
               PROVE  LET r == sent.rules[k]
                          o == ReadBack(r, family)
                      IN  SameTraffic(r, o) /\ o.v6 = (family = "v6")
    BY DEF ReadBackIsWhatWasSent
  <2>1. family \in {"v4", "v6"}
    BY DEF Families
  <2> QED
    BY <2>1, SentEnums, SameComesBack
<1> QED
  BY <1>1, InitIInv, StepIInv, InitHeld, StepHeld, PTL DEF Spec

\* What the window lists of them is the same rule after a profile was saved,
\* read and loaded, and the profile is the current one when it was.
THEOREM ProfileKeepsRules == Spec => []ListedRuleSurvivesProfile
<1>1. HeldOK => ListedRuleSurvivesProfile
  <2> SUFFICES ASSUME HeldOK, NEW k \in DOMAIN sent.rules,
                      NEW family \in Families(Sent(sent.rules[k]))
               PROVE  LET o == ReadBack(sent.rules[k], family)
                      IN  /\ family \in Families(Sent(o)) /\ ReadBack(o, family) = o
                          /\ \A level \in LogLevels :
                               LET saved == [ipv6 |-> sent.ipv6, loglevel |-> level,
                                             incoming |-> IF level = "off" THEN "reject" ELSE "allow",
                                             outgoing |-> "deny", rules |-> <<o>>, modules |-> {}]
                                   read  == load(profileXml(saved))
                               IN  read.fields = Parts /\ SameProfile(read, saved)
    BY DEF ListedRuleSurvivesProfile
  <2> DEFINE r == sent.rules[k]
             o == ReadBack(r, family)
  <2>1. family \in {"v4", "v6"} /\ Enums(r)
    BY SentEnums DEF Families
  <2> HIDE DEF r
  <2>2. Equal(ruleOf(toXml(o)), o)
    BY <2>1, SavedRule
  <2>3. /\ ReadBack(o, family) = o
        /\ family \in Families(Sent(r)) => family \in Families(Sent(o))
    BY <2>1, ComesBackAgain
  <2> HIDE DEF o
  <2>4. ASSUME NEW level \in LogLevels
        PROVE  LET saved == [ipv6 |-> sent.ipv6, loglevel |-> level,
                             incoming |-> IF level = "off" THEN "reject" ELSE "allow",
                             outgoing |-> "deny", rules |-> <<o>>, modules |-> {}]
                   read  == load(profileXml(saved))
               IN  read.fields = Parts /\ SameProfile(read, saved)
    <3> DEFINE policy == IF level = "off" THEN "reject" ELSE "allow"
               saved == [ipv6 |-> sent.ipv6, loglevel |-> level, incoming |-> policy,
                         outgoing |-> "deny", rules |-> <<o>>, modules |-> {}]
    <3>1. /\ saved.ipv6 \in BOOLEAN /\ saved.loglevel \in LogLevels
          /\ saved.incoming \in Policies \ {"limit"} /\ saved.outgoing \in Policies \ {"limit"}
          /\ saved.rules = <<o>>
      BY <2>4 DEF HeldOK, Policies
    <3>2. \A j \in DOMAIN saved.rules : Equal(ruleOf(toXml(saved.rules[j])), saved.rules[j])
      BY <2>2, <3>1
    <3> HIDE DEF saved
    <3>3. load(profileXml(saved)).fields = Parts /\ SameProfile(load(profileXml(saved)), saved)
      BY <3>1, <3>2, SavedProfile
    <3> QED
      BY <3>3 DEF saved
  <2> QED
    BY <2>3, <2>4 DEF r, o
<1> QED
  BY <1>1, InitIInv, StepIInv, InitHeld, StepHeld, PTL DEF Spec


-----------------------------------------------------------------------------
(* An edit *)

\* What the choice for one side leaves alone.
Leaves(f, g, side) ==
    /\ g.page = f.page /\ g.action = f.action /\ g.incoming = f.incoming
    /\ g.log = f.log /\ g.iface = f.iface
    /\ f.sproto = "any" => g.sproto = "any"
    /\ f.proto = "any" => g.proto = "any"
    /\ g[side].port = f[side].port /\ g[side].host = f[side].host
    /\ g[side].anyHost = f[side].anyHost
    /\ \A o \in Sides \ {side} : g[o] = f[o]

\* The slots that keep the protocol leave a side alone as well.
LEMMA ControlLeaves ==
    ASSUME NEW f, f \in FormType, NEW side \in Sides
    PROVE  /\ Leaves(f, control(f, side), side) /\ control(f, side) \in FormType
           /\ control(f, side)[side] = f[side]
<1> DEFINE g == control(f, side)
<1>1. g \in {f, [f EXCEPT !.sproto = "any"], [f EXCEPT !.proto = "any"]}
  BY DEF control, controlSimpleProtocol, controlAdvancedProtocol
<1> HIDE DEF g
<1>2. g \in FormType
  BY <1>1 DEF FormType, Protocols
<1>3. /\ g.page = f.page /\ g.action = f.action /\ g.incoming = f.incoming
      /\ g.log = f.log /\ g.iface = f.iface
      /\ f.sproto = "any" => g.sproto = "any"
      /\ f.proto = "any" => g.proto = "any"
  BY <1>1 DEF FormType
<1>4. g["simple"] = f["simple"] /\ g["src"] = f["src"] /\ g["dst"] = f["dst"]
  BY <1>1 DEF FormType
<1>5. \A o \in Sides : g[o] = f[o]
  BY <1>4 DEF Sides
<1> QED
  BY <1>2, <1>3, <1>5 DEF Leaves, g

\* So does another side of the form.
LEMMA SideLeaves ==
    ASSUME NEW f, f \in FormType, NEW side \in Sides, NEW s, s \in PickType,
           s.port = f[side].port, s.host = f[side].host, s.anyHost = f[side].anyHost
    PROVE  /\ Leaves(f, [f EXCEPT ![side] = s], side)
           /\ [f EXCEPT ![side] = s] \in FormType
           /\ [f EXCEPT ![side] = s][side] = s
<1> DEFINE g == [f EXCEPT ![side] = s]
<1>1. g \in FormType
  BY DEF FormType, Sides
<1>2. g[side] = s /\ \A o \in Sides \ {side} : g[o] = f[o]
  BY DEF FormType, Sides
<1>3. /\ g.page = f.page /\ g.action = f.action /\ g.incoming = f.incoming
      /\ g.log = f.log /\ g.iface = f.iface /\ g.sproto = f.sproto /\ g.proto = f.proto
  BY DEF FormType, Sides
<1> HIDE DEF g
<1> QED
  BY <1>1, <1>2, <1>3 DEF Leaves, g

\* Two changes that both leave a side of the form alone leave it alone together.
LEMMA LeavesTwice ==
    ASSUME NEW f, NEW g, NEW h, NEW side, Leaves(f, g, side), Leaves(g, h, side)
    PROVE  Leaves(f, h, side)
  BY DEF Leaves

\* A button.
LEMMA PickLeaves ==
    ASSUME NEW f, f \in FormType, NEW side \in Sides, NEW pick \in {"any", "port", "profile"}
    PROVE  LET g == Pick(f, side, pick)
           IN  /\ Leaves(f, g, side) /\ g \in FormType
               /\ g[side].pick = pick /\ g[side].item = f[side].item
<1>1. f[side] \in PickType
  BY DEF FormType, Sides
<1> DEFINE s == [f[side] EXCEPT !.pick = pick]
           h == [f EXCEPT ![side] = s]
           g == Pick(f, side, pick)
<1>2. /\ s \in PickType /\ s.pick = pick /\ s.item = f[side].item
      /\ s.port = f[side].port /\ s.host = f[side].host /\ s.anyHost = f[side].anyHost
  BY <1>1 DEF PickType
<1>3. g = IF f[side].pick = pick THEN f ELSE control(h, side)
  BY DEF Pick
<1> HIDE DEF s, g
<1>4. Leaves(f, h, side) /\ h \in FormType /\ h[side] = s
  BY <1>2, SideLeaves
<1> HIDE DEF h
<1>5. /\ Leaves(h, control(h, side), side) /\ control(h, side) \in FormType
      /\ control(h, side)[side] = h[side]
  BY <1>4, ControlLeaves
<1>6. Leaves(f, control(h, side), side)
  BY <1>4, <1>5, LeavesTwice
<1>7. CASE f[side].pick = pick
  <2>1. Leaves(f, f, side)
    BY DEF Leaves
  <2> QED
    BY <1>3, <1>7, <2>1 DEF g
<1>8. CASE f[side].pick # pick
  BY <1>2, <1>3, <1>4, <1>5, <1>6, <1>8 DEF g
<1> QED
  BY <1>7, <1>8

\* An entry of a list.
LEMMA ChooseLeaves ==
    ASSUME NEW f, f \in FormType, NEW side \in Sides, NEW e, e \in EntryType
    PROVE  LET g == Choose(f, side, e)
           IN  /\ Leaves(f, g, side) /\ g \in FormType
               /\ g[side].pick = "profile" /\ g[side].item = e
<1> DEFINE h == Pick(f, side, "profile")
           s == [h[side] EXCEPT !.item = e]
<1>1. Leaves(f, h, side) /\ h \in FormType /\ h[side].pick = "profile"
  BY PickLeaves
<1>2. Choose(f, side, e) = [h EXCEPT ![side] = s]
  BY DEF Choose
<1> HIDE DEF h
<1>3. h[side] \in PickType
  BY <1>1 DEF FormType, Sides
<1>4. /\ s \in PickType /\ s.pick = "profile" /\ s.item = e
      /\ s.port = h[side].port /\ s.host = h[side].host /\ s.anyHost = h[side].anyHost
  BY <1>1, <1>3 DEF PickType
<1> HIDE DEF s
<1>5. Leaves(h, [h EXCEPT ![side] = s], side) /\ [h EXCEPT ![side] = s] \in FormType
      /\ [h EXCEPT ![side] = s][side] = s
  BY <1>1, <1>4, SideLeaves
<1> QED
  BY <1>1, <1>2, <1>4, <1>5, LeavesTwice

\* What a side says of a port, of either protocol.
ShowsPort(s, port, none) ==
    IF port = "" THEN s.pick = none
    ELSE \/ s.pick = "port"
         \/ s.pick = "profile" /\ s.item = [app |-> "", parts |-> <<[port |-> port, proto |-> "any"]>>]

\* setRulePort shows the port, as an entry or as it is.
LEMMA PortShown ==
    ASSUME kind = "edit", NEW f, f \in FormType, NEW side \in Sides, NEW port \in STRING,
           \A app \in DOMAIN Apps : Apps[app] # <<[port |-> port, proto |-> "any"]>>
    PROVE  LET g == SetSide(f, side, "", port, "any")
               none == IF side = "simple" THEN "port" ELSE "any"
           IN  /\ Leaves(f, g, side) /\ g \in FormType
               /\ ShowsPort(g[side], port, none)
<1> DEFINE none == IF side = "simple" THEN "port" ELSE "any"
           part == [port |-> port, proto |-> "any"]
           typed == Pick(f, side, "port")
           same == {e \in EntriesOf(side) : e.parts = <<part>>}
           g == SetSide(f, side, "", port, "any")
<1>1. g = IF port = "" THEN Pick(f, side, none)
          ELSE IF same = {} THEN typed ELSE Choose(typed, side, First(same))
  BY DEF SetSide, setRulePort
<1> HIDE DEF g
<1>2. CASE port = ""
  <2>1. none \in {"any", "port", "profile"}
    OBVIOUS
  <2> HIDE DEF none
  <2>2. Leaves(f, g, side) /\ g \in FormType /\ g[side].pick = none
    BY <1>1, <1>2, <2>1, PickLeaves
  <2> QED
    BY <1>2, <2>2 DEF ShowsPort, g, none
<1>3. Leaves(f, typed, side) /\ typed \in FormType /\ typed[side].pick = "port"
  BY PickLeaves
<1> HIDE DEF typed
<1>4. CASE port # "" /\ same = {}
  BY <1>1, <1>3, <1>4 DEF ShowsPort, g
<1>5. CASE port # "" /\ same # {}
  <2> DEFINE e == First(same)
  <2>1. e \in same
    <3> HIDE DEF same
    <3> QED
      BY <1>5, FirstIsOne
  <2>2. e \in EntriesOf(side) /\ e.parts = <<part>>
    BY <2>1
  <2> HIDE DEF e, same, part
  <2>3. e \in Items(SplitOf(side)) /\ SplitOf(side) \in BOOLEAN
    BY <2>2, ListedAreItems DEF SplitOf, SplitSimple
  <2>4. e \in EntryType
    BY <2>3, EntryOfService
  <2>5. e.app = ""
    <3>1. \A app \in DOMAIN Apps : e # Entry(app)
      BY <2>2 DEF Entry, part
    <3>2. e \in UNION {Ports1(s) : s \in Services}
      BY <2>2, <3>1 DEF EntriesOf, Entries, SplitSimple
    <3>3. PICK s \in Services : e \in Ports1(s)
      BY <3>2
    <3>4. PICK k \in DOMAIN s : e = [app |-> "", parts |-> <<s[k]>>]
      BY <3>3 DEF Ports1
    <3> QED
      BY <3>4
  <2>6. e = [app |-> "", parts |-> <<part>>]
    BY <2>2, <2>4, <2>5 DEF EntryType
  <2>7. /\ Leaves(typed, g, side) /\ g \in FormType
        /\ g[side].pick = "profile" /\ g[side].item = e
    <3>1. g = Choose(typed, side, e)
      BY <1>1, <1>5 DEF e
    <3> QED
      BY <1>3, <2>4, <3>1, ChooseLeaves
  <2> QED
    BY <1>3, <1>5, <2>6, <2>7, LeavesTwice DEF ShowsPort, g, part
<1> QED
  BY <1>2, <1>4, <1>5


\* The page that a rule fits on, and the one interface that the dialog shows.
PageOf(r)  == IF {r.dst, r.src, r.sapp, r.sport, r.ifin, r.ifout} = {""} THEN "simple" ELSE "advanced"
IfaceOf(r) == IF r.incoming THEN r.ifin ELSE r.ifout

\* What a form says of a rule but for policy, direction and logging.
ShowsRule(f, r) ==
    /\ f.page = PageOf(r) /\ f.iface = IfaceOf(r)
    /\ f.sproto = "any" /\ f.proto = "any"
    /\ f.simple.port = r.dport /\ f.dst.port = r.dport /\ f.src.port = r.sport
    /\ f.src.host = r.src /\ f.src.anyHost = (r.src = "")
    /\ f.dst.host = r.dst /\ f.dst.anyHost = (r.dst = "")
    /\ ShowsPort(f.simple, r.dport, "port")
    /\ ShowsPort(f.dst, r.dport, "any")
    /\ ShowsPort(f.src, r.sport, "any")

\* setRule fills every field that says what the rule matches.
LEMMA RuleShown ==
    ASSUME kind = "edit", NEW f, GoodForm(f), NEW r \in WindowRules, Plain(r)
    PROVE  ShowsRule(setRule(f, r), r)
<1> DEFINE s1 == [f.simple EXCEPT !.port = r.dport]
           s2 == [f.src EXCEPT !.host = r.src, !.port = r.sport]
           s3 == [f.dst EXCEPT !.host = r.dst, !.port = r.dport]
           iface == IfaceOf(r)
           fields == [f EXCEPT !.action = r.action, !.incoming = r.incoming, !.log = r.log,
                               !.simple = s1, !.sproto = r.proto,
                               !.src = s2, !.dst = s3, !.proto = r.proto,
                               !.iface = iface, !.shown = TRUE]
           simple == SetSide(fields, "simple", "", r.dport, "any")
           dest   == SetSide(simple, "dst", "", r.dport, "any")
           source == SetSide(dest, "src", "", r.sport, "any")
           page == PageOf(r)
           t2 == [source.src EXCEPT !.anyHost = (r.src = "")]
           t3 == [source.dst EXCEPT !.anyHost = (r.dst = "")]
           paged == [source EXCEPT !.page = page, !.src = t2, !.dst = t3]
           mid == controlAdvancedProtocol(paged)
           calm == controlSimpleProtocol(mid)
           last == setRuleType(calm)
<1>1. /\ r.action \in Policies /\ r.incoming \in BOOLEAN /\ r.log \in LogTypes
      /\ r.dst \in STRING /\ r.src \in STRING
      /\ r.dport \in STRING /\ r.sport \in STRING /\ r.ifin \in STRING /\ r.ifout \in STRING
  BY DEF WindowRules
<1>2. r.dapp = "" /\ r.sapp = "" /\ r.proto = "any"
  BY DEF Plain
<1>3. \A p \in {r.dport, r.sport} : \A app \in DOMAIN Apps :
        Apps[app] # <<[port |-> p, proto |-> "any"]>>
  BY DEF Plain
<1>4. f \in FormType /\ f.simple \in PickType /\ f.src \in PickType /\ f.dst \in PickType
  BY DEF GoodForm, FormType
<1>5. /\ s1 \in PickType /\ s1.port = r.dport
      /\ s2 \in PickType /\ s2.port = r.sport /\ s2.host = r.src
      /\ s3 \in PickType /\ s3.port = r.dport /\ s3.host = r.dst
  BY <1>1, <1>4 DEF PickType
<1>6. iface \in STRING
  BY <1>1 DEF IfaceOf
<1>7. /\ fields = [f EXCEPT !.action = r.action, !.incoming = r.incoming, !.log = r.log,
                           !.simple = [@ EXCEPT !.port = r.dport], !.sproto = r.proto,
                           !.src = [@ EXCEPT !.host = r.src, !.port = r.sport],
                           !.dst = [@ EXCEPT !.host = r.dst, !.port = r.dport], !.proto = r.proto,
                           !.iface = IF r.incoming THEN r.ifin ELSE r.ifout, !.shown = TRUE]
      /\ iface = IfaceOf(r)
  BY <1>4 DEF FormType, IfaceOf
<1> HIDE DEF s1, s2, s3, iface
<1>8. /\ fields \in FormType
      /\ fields.simple = s1 /\ fields.src = s2 /\ fields.dst = s3
      /\ fields.sproto = "any" /\ fields.proto = "any" /\ fields.iface = iface
  <2>1. "any" \in Protocols
    BY DEF Protocols
  <2> QED
    BY <1>1, <1>2, <1>4, <1>5, <1>6, <2>1 DEF FormType
<1> HIDE DEF fields
<1>9. /\ Leaves(fields, simple, "simple") /\ simple \in FormType
      /\ ShowsPort(simple["simple"], r.dport, "port")
  BY <1>1, <1>3, <1>8, PortShown DEF Sides
<1> HIDE DEF simple
<1>10. /\ Leaves(simple, dest, "dst") /\ dest \in FormType
       /\ ShowsPort(dest["dst"], r.dport, "any")
  BY <1>1, <1>3, <1>9, PortShown DEF Sides
<1> HIDE DEF dest
<1>11. /\ Leaves(dest, source, "src") /\ source \in FormType
       /\ ShowsPort(source["src"], r.sport, "any")
  BY <1>1, <1>3, <1>10, PortShown DEF Sides
<1> HIDE DEF source
<1>12. /\ source.sproto = "any" /\ source.proto = "any" /\ source.iface = iface
       /\ source.simple.port = r.dport /\ ShowsPort(source.simple, r.dport, "port")
       /\ source.dst.port = r.dport /\ source.dst.host = r.dst /\ ShowsPort(source.dst, r.dport, "any")
       /\ source.src.port = r.sport /\ source.src.host = r.src /\ ShowsPort(source.src, r.sport, "any")
  <2>1. source["simple"] = dest["simple"] /\ dest["simple"] = simple["simple"]
        /\ simple["simple"].port = fields["simple"].port
    BY <1>9, <1>10, <1>11 DEF Leaves, Sides
  <2>2. source["dst"] = dest["dst"] /\ dest["dst"].port = simple["dst"].port
        /\ dest["dst"].host = simple["dst"].host /\ simple["dst"] = fields["dst"]
    BY <1>9, <1>10, <1>11 DEF Leaves, Sides
  <2>3. source["src"].port = dest["src"].port /\ source["src"].host = dest["src"].host
        /\ dest["src"] = simple["src"] /\ simple["src"] = fields["src"]
    BY <1>9, <1>10, <1>11 DEF Leaves, Sides
  <2>4. source.sproto = "any" /\ source.proto = "any" /\ source.iface = iface
    BY <1>8, <1>9, <1>10, <1>11 DEF Leaves
  <2> QED
    BY <1>5, <1>8, <1>9, <1>10, <1>11, <2>1, <2>2, <2>3, <2>4
<1>13. source.src \in PickType /\ source.dst \in PickType
  BY <1>11 DEF FormType
<1>14. /\ t2 \in PickType /\ t2.anyHost = (r.src = "") /\ t2.port = source.src.port
       /\ t2.host = source.src.host /\ t2.pick = source.src.pick /\ t2.item = source.src.item
  BY <1>13 DEF PickType
<1>15. /\ t3 \in PickType /\ t3.anyHost = (r.dst = "") /\ t3.port = source.dst.port
       /\ t3.host = source.dst.host /\ t3.pick = source.dst.pick /\ t3.item = source.dst.item
  BY <1>13 DEF PickType
<1> HIDE DEF t2, t3
<1>16. page \in {"simple", "advanced"}
  BY DEF PageOf
<1> HIDE DEF page
<1>17. /\ paged \in FormType /\ paged.page = page
       /\ paged.simple = source.simple /\ paged.src = t2 /\ paged.dst = t3
       /\ paged.sproto = source.sproto /\ paged.proto = source.proto /\ paged.iface = source.iface
  BY <1>11, <1>14, <1>15, <1>16 DEF FormType
<1>18. paged = [source EXCEPT
                  !.page = IF {r.dst, r.src, r.sapp, r.sport, r.ifin, r.ifout} = {""}
                           THEN "simple" ELSE "advanced",
                  !.src.anyHost = (r.src = ""), !.dst.anyHost = (r.dst = "")]
  BY <1>11 DEF FormType, PageOf, page, t2, t3
<1>19. setRule(f, r) = last
  <2> HIDE DEF paged
  <2>1. setRule(f, r) = setRuleType(controlSimpleProtocol(controlAdvancedProtocol(paged)))
    BY <1>2, <1>7, <1>18 DEF setRule, source, dest, simple
  <2> QED
    BY <2>1
<1> HIDE DEF paged
<1>20. calm = paged
  <2>1. [paged EXCEPT !.proto = "any"] = paged /\ [paged EXCEPT !.sproto = "any"] = paged
    BY <1>12, <1>17 DEF FormType
  <2> QED
    BY <2>1 DEF controlAdvancedProtocol, controlSimpleProtocol
<1>21. last = paged
  <2>1. paged.simple \in PickType /\ paged.dst \in PickType
    BY <1>17 DEF FormType
  <2>2. paged.simple.port = r.dport /\ paged.dst.port = r.dport
    BY <1>12, <1>15, <1>17
  <2>3. [paged.simple EXCEPT !.port = r.dport] = paged.simple
        /\ [paged.dst EXCEPT !.port = r.dport] = paged.dst
    BY <2>1, <2>2 DEF PickType
  <2>4. [paged EXCEPT !.simple.port = paged.dst.port] = [paged EXCEPT !.simple = paged.simple]
        /\ [paged EXCEPT !.dst.port = paged.simple.port] = [paged EXCEPT !.dst = paged.dst]
    BY <2>2, <2>3
  <2>5. [paged EXCEPT !.simple = paged.simple] = paged /\ [paged EXCEPT !.dst = paged.dst] = paged
    BY <1>17 DEF FormType
  <2> QED
    BY <1>20, <2>4, <2>5 DEF setRuleType
<1>22. ShowsPort(paged.src, r.sport, "any") /\ ShowsPort(paged.dst, r.dport, "any")
  BY <1>12, <1>14, <1>15, <1>17 DEF ShowsPort
<1> QED
  BY <1>7, <1>12, <1>14, <1>15, <1>17, <1>21, <1>22, <1>19 DEF ShowsRule, page


\* update finds nothing to correct in such a form.
LEMMA NothingBlank ==
    ASSUME NEW f, GoodForm(f), NEW r, Plain(r), ShowsRule(f, r)
    PROVE  blankMeansAny(f) = f
<1> DEFINE host(g, side) == IF g[side].host = "" THEN [g EXCEPT ![side].anyHost = TRUE] ELSE g
           port(g, side) == IF g[side].pick = "port" /\ g[side].port = "" THEN Pick(g, side, "any") ELSE g
           first == IF f.simple.pick = "profile" THEN [f EXCEPT !.sproto = "any"] ELSE f
           ports == port(port(host(host(first, "src"), "dst"), "src"), "dst")
           proto == IF "port" \in {ports.src.pick, ports.dst.pick} THEN ports.proto ELSE "any"
           iface == IF ports.iface \in DOMAIN Squeezed THEN Squeezed[ports.iface] ELSE ports.iface
<1>1. f \in FormType /\ f.src \in PickType /\ f.dst \in PickType
  BY DEF GoodForm, FormType
<1>2. blankMeansAny(f) = [ports EXCEPT !.proto = proto, !.iface = iface]
  BY DEF blankMeansAny
<1>3. f.sproto = "any" /\ f.proto = "any" /\ f.iface = IfaceOf(r)
  BY DEF ShowsRule
<1>4. first = f
  BY <1>1, <1>3 DEF FormType
<1> HIDE DEF first
<1>5. \A side \in {"src", "dst"} : host(f, side) = f
  <2> SUFFICES ASSUME NEW side \in {"src", "dst"}, f[side].host = ""
               PROVE  [f EXCEPT ![side].anyHost = TRUE] = f
    OBVIOUS
  <2>1. f[side] \in PickType /\ f[side].anyHost = TRUE
    BY <1>1 DEF ShowsRule
  <2>2. [f[side] EXCEPT !.anyHost = TRUE] = f[side]
    BY <2>1 DEF PickType
  <2>3. [f EXCEPT ![side] = f[side]] = f
    BY <1>1 DEF FormType
  <2> QED
    BY <2>2, <2>3
<1>6. \A side \in {"src", "dst"} : port(f, side) = f
  <2>1. ~(f["src"].pick = "port" /\ f["src"].port = "") /\ ~(f["dst"].pick = "port" /\ f["dst"].port = "")
    BY DEF ShowsRule, ShowsPort
  <2> QED
    BY <2>1
<1>7. ports = f
  <2> HIDE DEF host, port
  <2>1. host(host(first, "src"), "dst") = f
    BY <1>4, <1>5
  <2> QED
    BY <1>6, <2>1
<1> HIDE DEF ports
<1>8. proto = "any"
  BY <1>3, <1>7
<1>9. iface = f.iface
  BY <1>3, <1>7 DEF Plain, IfaceOf
<1> HIDE DEF proto, iface
<1>10. [f EXCEPT !.proto = f.proto] = f /\ [f EXCEPT !.iface = f.iface] = f
  BY <1>1 DEF FormType
<1> DEFINE g == [f EXCEPT !.proto = f.proto]
<1>11. blankMeansAny(f) = [g EXCEPT !.iface = f.iface]
  BY <1>2, <1>3, <1>7, <1>8, <1>9
<1> HIDE DEF g
<1> QED
  BY <1>10, <1>11 DEF g

\* The rule that an edit of the three common fields stands for.
Edited(r, f) ==
    [r EXCEPT !.action = f.action, !.log = f.log, !.incoming = f.incoming,
              !.ifin  = IF f.incoming THEN IfaceOf(r) ELSE "",
              !.ifout = IF f.incoming THEN "" ELSE IfaceOf(r)]

\* The dialog makes it of the form, or refuses.
LEMMA ShownRules ==
    ASSUME NEW f, GoodForm(f), NEW r \in WindowRules, Plain(r), ShowsRule(f, r), NEW ipv6 \in BOOLEAN
    PROVE  RulesOf(f, ipv6) \in {<<>>, <<Edited(r, f)>>}
<1> DEFINE in  == IF f.incoming THEN IfaceOf(r) ELSE ""
           out == IF f.incoming THEN "" ELSE IfaceOf(r)
           e == MakeRule(f.action, f.incoming, f.log, "any", r.src, r.sport, r.dst, r.dport, in, out, "", "")
<1>1. Edited(r, f) = e
  <2>1. /\ r.v6 = FALSE /\ r.dapp = "" /\ r.sapp = "" /\ r.proto = "any"
    BY DEF Plain, WindowRules
  <2>2. Edited(r, f) = [r EXCEPT !.action = f.action, !.log = f.log, !.incoming = f.incoming,
                                 !.ifin = in, !.ifout = out]
    BY DEF Edited
  <2> HIDE DEF in, out
  <2>3. DOMAIN Edited(r, f) = DOMAIN e
    BY <2>2 DEF WindowRules, MakeRule
  <2>4. Edited(r, f) = [k \in DOMAIN e |-> Edited(r, f)[k]]
    BY <2>2, <2>3 DEF WindowRules
  <2>5. e = [k \in DOMAIN e |-> e[k]]
    BY DEF MakeRule
  <2>6. \A k \in DOMAIN e : Edited(r, f)[k] = e[k]
    BY <2>1, <2>2 DEF WindowRules, MakeRule
  <2> HIDE DEF e
  <2> QED
    BY <2>4, <2>5, <2>6
<1>2. ASSUME NEW side \in Sides, NEW port, NEW none \in {"any", "port"},
             ShowsPort(f[side], port, none), f[side].port = port
      PROVE  /\ App(f, side) = ""
             /\ Predefined(f, side) => f[side].item.parts = <<[port |-> port, proto |-> "any"]>>
             /\ ~Predefined(f, side) => Typed(f, side) = port
  <2> DEFINE s == f[side]
  <2>1. App(f, side) = (IF s.pick = "profile" THEN s.item.app ELSE "")
    BY DEF App, Chosen
  <2>2. Predefined(f, side) <=> s.pick = "profile" /\ s.item.app = ""
    BY DEF Predefined, Chosen
  <2>3. Typed(f, side) = (IF s.pick = "port" THEN s.port ELSE "")
    BY DEF Typed
  <2>4. s.port = port /\ ShowsPort(s, port, none)
    BY <1>2
  <2> HIDE DEF s
  <2>5. CASE s.pick = "profile"
    <3> DEFINE parts == <<[port |-> port, proto |-> "any"]>>
    <3>1. s.item = [app |-> "", parts |-> parts]
      BY <1>2, <2>4, <2>5 DEF ShowsPort
    <3> HIDE DEF parts
    <3> DEFINE entry == [app |-> "", parts |-> parts]
    <3>2. entry.app = "" /\ entry.parts = parts
      OBVIOUS
    <3>3. s.item = entry
      BY <3>1
    <3> HIDE DEF entry
    <3>4. s.item.app = "" /\ s.item.parts = parts
      BY <3>2, <3>3
    <3> QED
      BY <2>1, <2>2, <2>5, <3>4 DEF s, parts
  <2>6. CASE s.pick # "profile"
    <3>1. s.pick = "port" \/ port = ""
      BY <2>4, <2>6 DEF ShowsPort
    <3> QED
      BY <2>1, <2>2, <2>3, <2>4, <2>6, <3>1
  <2> QED
    BY <2>5, <2>6
<1>3. CASE f.page = "simple"
  <2>1. r.dst = "" /\ r.src = "" /\ r.sport = "" /\ r.ifin = "" /\ r.ifout = ""
    BY <1>3 DEF ShowsRule, PageOf
  <2>2. in = "" /\ out = ""
    BY <2>1 DEF IfaceOf
  <2>3. /\ App(f, "simple") = ""
        /\ Predefined(f, "simple") => f.simple.item.parts = <<[port |-> r.dport, proto |-> "any"]>>
        /\ ~Predefined(f, "simple") => Typed(f, "simple") = r.dport
    BY <1>2 DEF ShowsRule, Sides
  <2>4. e = MakeRule(f.action, f.incoming, f.log, "any", "", "", "", r.dport, "", "", "", "")
    BY <2>1, <2>2
  <2> HIDE DEF e
  <2>5. RulesOf(f, ipv6) = SimpleRules(f)
    BY <1>3 DEF RulesOf
  <2>6. CASE Predefined(f, "simple")
    <3> DEFINE parts == <<[port |-> r.dport, proto |-> "any"]>>
    <3>1. SimpleRules(f) = [k \in DOMAIN parts |->
                              MakeRule(f.action, f.incoming, f.log, parts[k].proto,
                                       "", "", "", parts[k].port, "", "", "", "")]
      BY <2>3, <2>6 DEF SimpleRules
    <3>2. DOMAIN parts = {1} /\ parts[1].proto = "any" /\ parts[1].port = r.dport
      OBVIOUS
    <3> HIDE DEF parts
    <3>3. SimpleRules(f) = [k \in {1} |-> e]
      BY <2>4, <3>1, <3>2
    <3>4. <<e>> = [k \in {1} |-> e]
      OBVIOUS
    <3> QED
      BY <1>1, <2>5, <3>3, <3>4
  <2>7. CASE ~Predefined(f, "simple")
    BY <1>1, <2>3, <2>4, <2>5, <2>7 DEF SimpleRules, ShowsRule
  <2> QED
    BY <2>6, <2>7
<1>4. CASE f.page # "simple"
  <2>1. RulesOf(f, ipv6) = AdvancedRules(f, ipv6)
    BY <1>4 DEF RulesOf
  <2>2. /\ App(f, "dst") = ""
        /\ Predefined(f, "dst") => f["dst"].item.parts = <<[port |-> r.dport, proto |-> "any"]>>
        /\ ~Predefined(f, "dst") => Typed(f, "dst") = r.dport
    BY <1>2 DEF ShowsRule, Sides
  <2>3. /\ App(f, "src") = ""
        /\ Predefined(f, "src") => f["src"].item.parts = <<[port |-> r.sport, proto |-> "any"]>>
        /\ ~Predefined(f, "src") => Typed(f, "src") = r.sport
    BY <1>2 DEF ShowsRule, Sides
  <2> DEFINE part(side) == f[side].item.parts[1]
             port(side) == IF Predefined(f, side) THEN part(side).port ELSE Typed(f, side)
             host(side) == IF f[side].anyHost THEN "" ELSE f[side].host
             prot       == IF Predefined(f, "dst") THEN part("dst").proto
                           ELSE IF Predefined(f, "src") THEN part("src").proto
                           ELSE f.proto
  <2>4. AdvancedRules(f, ipv6) \in
          {<<>>, <<MakeRule(f.action, f.incoming, f.log, prot,
                            host("src"), port("src"), host("dst"), port("dst"),
                            IF f.incoming THEN f.iface ELSE "", IF f.incoming THEN "" ELSE f.iface,
                            App(f, "src"), App(f, "dst"))>>}
    BY DEF AdvancedRules
  <2>5. Predefined(f, "dst") => part("dst").port = r.dport /\ part("dst").proto = "any"
    <3>1. ASSUME NEW q PROVE <<q>>[1] = q
      OBVIOUS
    <3>2. Predefined(f, "dst") => part("dst") = [port |-> r.dport, proto |-> "any"]
      BY <2>2, <3>1
    <3> HIDE DEF part
    <3> QED
      BY <3>2
  <2>6. Predefined(f, "src") => part("src").port = r.sport /\ part("src").proto = "any"
    <3>1. ASSUME NEW q PROVE <<q>>[1] = q
      OBVIOUS
    <3>2. Predefined(f, "src") => part("src") = [port |-> r.sport, proto |-> "any"]
      BY <2>3, <3>1
    <3> HIDE DEF part
    <3> QED
      BY <3>2
  <2> HIDE DEF part
  <2>7. port("dst") = r.dport /\ port("src") = r.sport
    BY <2>2, <2>3, <2>5, <2>6
  <2>8. host("dst") = r.dst /\ host("src") = r.src
    BY DEF ShowsRule
  <2>9. prot = "any" /\ f.iface = IfaceOf(r)
    BY <2>5, <2>6 DEF ShowsRule
  <2> HIDE DEF host, port, prot
  <2> QED
    BY <1>1, <2>1, <2>2, <2>3, <2>4, <2>7, <2>8, <2>9
<1> QED
  BY <1>3, <1>4


\* While nothing was touched that says what the rule matches, the dialog shows
\* the rule that it was opened with.
EditInv ==
    /\ kind = "edit" /\ open /\ ~touched /\ Plain(editing) => ShowsRule(form, editing)
    /\ EditChangesOnlyWhatWasTouched

\* Nothing has been sent when a dialog opens.
LEMMA InitEdit == Init => EditInv
  BY DEF Init, EditInv, EditChangesOnlyWhatWasTouched, NoCommand

\* The property, of the rule that is made of the form.
LEMMA EditedIsWanted ==
    EditChangesOnlyWhatWasTouched <=>
        (sent.cmd = "editRule" /\ ~touched /\ Plain(editing) =>
            sent.rules = <<Edited(editing, form)>> /\ Edited(editing, form) # editing)
  BY DEF EditChangesOnlyWhatWasTouched, Edited, IfaceOf

\* Policy, direction and logging are not what a rule is shown by.
LEMMA CommonFields ==
    ASSUME NEW f, GoodForm(f), NEW r, ShowsRule(f, r), NEW x
    PROVE  /\ ShowsRule([f EXCEPT !.action = x], r)
           /\ ShowsRule([f EXCEPT !.log = x], r)
           /\ ShowsRule([f EXCEPT !.incoming = x], r)
<1>1. f \in FormType
  BY DEF GoodForm
<1>2. ASSUME NEW g, \A k \in {"page", "iface", "sproto", "proto", "simple", "src", "dst"} : g[k] = f[k]
      PROVE  ShowsRule(g, r)
  <2>1. /\ g.page = f.page /\ g.iface = f.iface /\ g.sproto = f.sproto /\ g.proto = f.proto
        /\ g.simple = f.simple /\ g.src = f.src /\ g.dst = f.dst
    BY <1>2
  <2> QED
    BY <2>1 DEF ShowsRule
<1>3. \A k \in {"page", "iface", "sproto", "proto", "simple", "src", "dst"} :
        /\ [f EXCEPT !.action = x][k] = f[k] /\ [f EXCEPT !.log = x][k] = f[k]
        /\ [f EXCEPT !.incoming = x][k] = f[k]
  BY <1>1 DEF FormType
<1> QED
  BY <1>2, <1>3

\* Confirming sends what the user wanted.
LEMMA ConfirmEdit ==
    ASSUME IInv, HeldOK, EditInv, Confirm
    PROVE  EditInv'
<1>1. ~(kind' = "edit" /\ open')
  BY DEF Confirm
<1>2. editing' = editing /\ touched' = touched /\ kind' = kind /\ open
  BY DEF Confirm
<1>3. ASSUME sent'.cmd = "editRule", ~touched, Plain(editing)
      PROVE  sent'.rules = <<Edited(editing, form')>> /\ Edited(editing, form') # editing
  <2> DEFINE f == blankMeansAny(form)
  <2>1. PICK ipv6 \in BOOLEAN :
          LET rules == RulesOf(f, ipv6)
              sends == /\ rules # <<>>
                       /\ IF kind = "edit" THEN different(rules[1], editing) ELSE ~AlreadyListed(rules)
          IN  /\ form' = f
              /\ sent' = IF sends
                         THEN [cmd |-> IF kind = "edit" THEN "editRule" ELSE "addRules",
                               rules |-> rules, ipv6 |-> ipv6]
                         ELSE NoCommand
    BY DEF Confirm
  <2> DEFINE rules == RulesOf(f, ipv6)
             e == Edited(editing, f)
  <2> HIDE DEF f
  <2>2. /\ kind = "edit" /\ rules # <<>> /\ different(rules[1], editing)
        /\ sent'.rules = rules /\ form' = f
    <3> HIDE DEF rules
    <3>1. sent' # NoCommand
      BY <1>3 DEF NoCommand
    <3> QED
      BY <1>3, <2>1, <3>1 DEF rules
  <2>3. ShowsRule(form, editing) /\ GoodForm(form) /\ editing \in WindowRules
    BY <1>2, <1>3, <2>2 DEF EditInv, IInv, HeldOK
  <2>4. f = form
    BY <1>3, <2>3, NothingBlank DEF f
  <2>5. rules = <<e>>
    BY <1>3, <2>2, <2>3, <2>4, ShownRules
  <2> HIDE DEF rules, e
  <2>6. different(e, editing)
    BY <2>2, <2>5
  <2>7. e # editing
    BY <2>6 DEF different, Equal
  <2> QED
    BY <2>2, <2>5, <2>7 DEF e
<1>4. EditChangesOnlyWhatWasTouched'
  BY <1>2, <1>3, EditedIsWanted DEF EditChangesOnlyWhatWasTouched, Edited, IfaceOf
<1> QED
  BY <1>1, <1>4 DEF EditInv

\* Every step keeps the invariant.
LEMMA StepEdit == IInv /\ HeldOK /\ EditInv /\ [Next]_vars => EditInv'
<1> SUFFICES ASSUME IInv, HeldOK, EditInv, [Next]_vars PROVE EditInv'
  OBVIOUS
<1>1. ASSUME sent' = NoCommand,
             kind' = "edit" /\ open' /\ ~touched' /\ Plain(editing') => ShowsRule(form', editing')
      PROVE  EditInv'
  BY <1>1 DEF EditInv, EditChangesOnlyWhatWasTouched, NoCommand
<1>2. GoodForm(form)
  BY DEF IInv
<1>3. CASE OpenEdit
  <2>1. PICK r \in ListedRules : Fill(setRule(form, r), r, NoLine)
    BY <1>3 DEF OpenEdit
  <2>2. kind = "edit" /\ r \in WindowRules
    BY <1>3, FilledRules DEF OpenEdit
  <2>3. Plain(r) => ShowsRule(setRule(form, r), r)
    BY <1>2, <2>2, RuleShown
  <2> QED
    BY <1>1, <2>1, <2>3 DEF Fill
<1>4. CASE OpenAdd \/ OpenFromLog
  <2>1. kind' # "edit" /\ sent' = NoCommand
    BY <1>4 DEF OpenAdd, OpenFromLog, Fill
  <2> QED
    BY <1>1, <2>1
<1>5. CASE UserCommon
  <2>1. PICK x : \E f \in {[form EXCEPT !.action = x], [form EXCEPT !.log = x], [form EXCEPT !.incoming = x]} :
          Touch(f, FALSE)
    BY <1>5 DEF UserCommon
  <2>2. /\ open /\ sent' = NoCommand /\ UNCHANGED <<kind, open, editing>> /\ touched' = touched
        /\ form' \in {[form EXCEPT !.action = x], [form EXCEPT !.log = x], [form EXCEPT !.incoming = x]}
    BY <2>1 DEF Touch, HeldOK
  <2>3. ShowsRule(form, editing) => ShowsRule(form', editing)
    <3> SUFFICES ASSUME ShowsRule(form, editing) PROVE ShowsRule(form', editing)
      OBVIOUS
    <3>1. /\ ShowsRule([form EXCEPT !.action = x], editing)
          /\ ShowsRule([form EXCEPT !.log = x], editing)
          /\ ShowsRule([form EXCEPT !.incoming = x], editing)
      BY <1>2, CommonFields
    <3> QED
      BY <2>2, <3>1
  <2> QED
    BY <1>1, <2>2, <2>3 DEF EditInv
<1>6. CASE User /\ ~UserCommon
  <2>1. \E f : Touch(f, TRUE)
    BY <1>6 DEF User, UserTurnPage, UserPickAny, UserTypePort, UserChooseProfile,
                UserSetHost, UserSetProtocol, UserSetInterface
  <2> QED
    BY <1>1, <2>1 DEF Touch
<1>7. CASE Cancel
  BY <1>1, <1>7 DEF Cancel
<1>8. CASE Confirm
  BY <1>8, ConfirmEdit
<1>9. CASE UNCHANGED vars
  BY <1>9 DEF vars, EditInv, EditChangesOnlyWhatWasTouched
<1> QED
  BY <1>3, <1>4, <1>5, <1>6, <1>7, <1>8, <1>9 DEF Next

\* An edit of a plain rule changes what was touched and nothing else, and is
\* not sent if nothing was.
THEOREM EditIsWhatWasTouched == Spec => []EditChangesOnlyWhatWasTouched
<1>1. EditInv => EditChangesOnlyWhatWasTouched
  BY DEF EditInv
<1> QED
  BY <1>1, InitIInv, StepIInv, InitHeld, StepHeld, InitEdit, StepEdit, PTL DEF Spec


-----------------------------------------------------------------------------
(* What is sent *)

\* Whatever was in the dialog before and whatever the user typed, a rule
\* that leaves it is one that ufw can take.
THEOREM SentRulesFit == Spec => []SentRulesAreWellFormed
<1>1. IInv => SentRulesAreWellFormed
  BY DEF IInv
<1> QED
  BY <1>1, Invariant, PTL

\* No edit stands for more than the one rule that is sent for it.
THEOREM EditIsOneRule == Spec => []EditKeepsEveryPort
<1>1. IInv => EditKeepsEveryPort
  BY DEF IInv
<1> QED
  BY <1>1, Invariant, PTL
====
