------------------------- MODULE RemediationProofs -------------------------
(***************************************************************************)
(* What the reversible writes guarantee for any callers, names, schemas    *)
(* and values, however their texts are cut.  A token's inverse restores    *)
(* what its write changed because a before-state that nothing came after   *)
(* is how things are (CurrentOK) and the token is built from it (TokenOK). *)
(* That undoing a creation removes the index it made, where that comes     *)
(* first, rests on names being unique in a schema (OneOfAName) and on an   *)
(* index never coming back once it is dropped (Born).                      *)
(***************************************************************************)
EXTENDS Remediation, TLAPS

Entries == Values \cup {Conf, None}
Images == {Image(entry) : entry \in Entries}

StateOK ==
  /\ pc \in [Callers -> {"idle", "capture", "execute"}]
  /\ writes \in [Callers -> Nat] /\ \A c \in Callers : writes[c] <= MaxWrites[c]
  /\ request \in [Callers -> [wanted : Requests, token : Nat]]
  /\ prior \in [Callers -> Images \cup IndexType \cup {None}]
  /\ current \subseteq {c \in Callers : pc[c] = "execute"}
  /\ auto \in Entries
  /\ loaded \in Images
  /\ indexes \subseteq IndexType

TokenType == [inverse : Requests, changed : Entries \cup IndexType,
              undisturbed : BOOLEAN, status : {"recorded", "applied"}]

(* What a token says of its write, whatever happens after it. *)
TokenOK(token) ==
  /\ token \in TokenType
  /\ token.undisturbed => Restores(token) \/ Shortened(token)
  /\ token.inverse.kind = "drop" =>
       token.changed \in IndexType /\ token.inverse \in InverseCreate(token.changed)

(* An undo runs the inverse of its token. *)
RequestOK(c) ==
  Undoes(c) # 0 => Undoes(c) \in DOMAIN tokens /\ Wanted(c) = tokens[Undoes(c)].inverse

PriorOK(c) ==
  pc[c] = "execute" =>
    /\ Wanted(c).kind \in {"set", "reset"} => prior[c] \in Images
    /\ Wanted(c).kind = "drop" => prior[c] \in IndexType

(* What nothing came after is how things are.                               *)
CurrentOK(c) ==
  c \in current =>
    /\ Wanted(c).kind \in {"set", "reset"} => prior[c] = Image(auto)
    /\ Wanted(c).kind = "drop" => prior[c] \in Resolve(Wanted(c).schema, Wanted(c).name)

(* The index was made by a write that is over. *)
Born(index) ==
  LET c == index.by[1] IN
    /\ c \in Callers /\ index.by[2] \in Nat
    /\ index.by[2] <= writes[c] /\ (pc[c] # "idle" => index.by[2] < writes[c])

BornInv ==
  /\ \A index \in indexes : Born(index)
  /\ \A i \in DOMAIN tokens : tokens[i].inverse.kind = "drop" => Born(tokens[i].changed)
  /\ \A u \in undone : u.made \in IndexType /\ u.dropped \in IndexType /\ Born(u.made)

OneOfAName ==
  \A x, y \in indexes : x.schema = y.schema /\ x.name = y.name => x = y

IInv ==
  /\ StateOK
  /\ tokens \in Seq(TokenType) /\ \A i \in DOMAIN tokens : TokenOK(tokens[i])
  /\ \A c \in Callers : RequestOK(c) /\ PriorOK(c) /\ CurrentOK(c)
  /\ BornInv /\ OneOfAName /\ UndoRemovesOwn

-----------------------------------------------------------------------------
(* The data. *)

LEMMA RequestKinds ==
  ASSUME NEW wanted \in Requests
  PROVE  /\ wanted.kind \in {"set", "reset", "create", "drop"}
         /\ wanted.kind = "set" => wanted.value \in Values \cup {Conf}
         /\ wanted.kind = "create" =>
              /\ wanted.schema \in Schemas /\ wanted.name \in Names
              /\ wanted.def \in Defs \cup {None}
         /\ wanted.kind = "drop" => wanted.schema \in Schemas \cup {None} /\ wanted.name \in Names
  <1>1. CASE wanted \in [kind : {"set"}, value : Values \cup {Conf}]
    BY <1>1
  <1>2. CASE wanted \in [kind : {"reset"}]
    BY <1>2
  <1>3. CASE wanted \in CreateRequests
    BY <1>3 DEF CreateRequests
  <1>4. CASE wanted \in DropRequests
    BY <1>4 DEF DropRequests
  <1> QED BY <1>1, <1>2, <1>3, <1>4 DEF Requests, SettingRequests

LEMMA ImagesAre ==
  /\ \A entry \in Entries : Image(entry) \in Images /\ (Image(entry).pinned <=> entry # None)
  /\ \A entry \in Entries : entry # None => Image(entry).value = entry
  /\ \A image \in Images : image.pinned => image.value \in Values \cup {Conf}
  /\ \A image \in Images : image.pinned \in BOOLEAN
  <1>1. \A entry \in Entries : Image(entry) \in Images /\ (Image(entry).pinned <=> entry # None)
    BY DEF Images, Image
  <1>2. \A entry \in Entries : entry # None => Image(entry).value = entry
    BY DEF Image
  <1>3. ASSUME NEW image \in Images
        PROVE  image.pinned \in BOOLEAN /\ (image.pinned => image.value \in Values \cup {Conf})
    <2> PICK entry \in Entries : image = Image(entry)
      BY DEF Images
    <2>1. CASE entry = None
      BY <2>1 DEF Image
    <2>2. CASE entry # None
      BY <2>2 DEF Image, Entries
    <2> QED BY <2>1, <2>2
  <1> QED BY <1>1, <1>2, <1>3

LEMMA NoWriteIs == NoWrite \in [wanted : Requests, token : Nat] /\ NoWrite.token = 0
  BY DEF NoWrite, Write, Requests, SettingRequests

(* The token of an update_setting: what was read is what is changed, and    *)
(* what is recorded of it is what was read unless it is shortened.          *)
LEMMA SettingToken ==
  ASSUME NEW seen \in Images, NEW entry \in Entries, NEW c,
         c \in current => seen = Image(entry), NEW inverse \in InverseSetting(seen)
  PROVE  TokenOK(Token(inverse, entry, c \in current)) /\ inverse.kind # "drop"
  <1> DEFINE token == Token(inverse, entry, c \in current)
  <1>1. \/ seen.pinned /\ inverse \in SetTo({ValueText[seen.value]} \ {None})
        \/ ~ seen.pinned /\ inverse = [kind |-> "reset"]
    BY ImagesAre DEF InverseSetting
  <1>2. CASE seen.pinned
    <2>1. /\ inverse.kind = "set" /\ inverse.value = ValueText[seen.value]
          /\ inverse.value # None /\ inverse \in [kind : {"set"}, value : {ValueText[seen.value]}]
      BY <1>1, <1>2 DEF SetTo
    <2>2. seen.value \in Values \cup {Conf}
      BY <1>2, ImagesAre
    <2>3. inverse \in Requests
      BY <2>1, <2>2, TextAssumption DEF Requests, SettingRequests
    <2>4. /\ token \in TokenType /\ token.inverse = inverse /\ token.changed = entry
          /\ token.undisturbed = (c \in current)
      BY <2>3 DEF Token, TokenType
    <2> HIDE DEF token
    <2>5. ASSUME c \in current PROVE Restores(token) \/ Shortened(token)
      <3>1. entry # None /\ entry = seen.value
        BY <1>2, <2>5, ImagesAre
      <3>2. CASE ValueText[entry] = entry
        BY <2>1, <2>4, <3>1, <3>2 DEF Restores
      <3>3. CASE ValueText[entry] # entry
        BY <2>1, <2>2, <2>4, <3>1, <3>3 DEF Shortened
      <3> QED BY <3>2, <3>3
    <2>6. TokenOK(token)
      BY <2>1, <2>4, <2>5 DEF TokenOK
    <2> QED BY <2>1, <2>6 DEF token
  <1>3. CASE ~ seen.pinned
    <2>1. inverse \in Requests /\ inverse.kind = "reset"
      BY <1>1, <1>3 DEF Requests, SettingRequests
    <2>2. /\ token \in TokenType /\ token.inverse = inverse /\ token.changed = entry
          /\ token.undisturbed = (c \in current)
      BY <2>1 DEF Token, TokenType
    <2> HIDE DEF token
    <2>3. c \in current => Restores(token)
      BY <1>3, <2>1, <2>2, ImagesAre DEF Restores
    <2>4. TokenOK(token)
      BY <2>1, <2>2, <2>3 DEF TokenOK
    <2> QED BY <2>1, <2>4 DEF token
  <1> QED BY <1>2, <1>3

LEMMA CreateToken ==
  ASSUME NEW index \in IndexType, NEW c,
         NEW inverse \in InverseCreate(index)
  PROVE  TokenOK(Token(inverse, index, c \in current))
  <1> DEFINE token == Token(inverse, index, c \in current)
  <1>1. inverse \in Requests /\ inverse.kind = "drop" /\ inverse.name = index.name
    BY DEF InverseCreate, Requests, DropRequests, IndexType
  <1>2. token \in TokenType /\ token.inverse = inverse /\ token.changed = index
    BY <1>1 DEF Token, TokenType
  <1>3. token.inverse \in InverseCreate(token.changed)
    BY <1>2
  <1> HIDE DEF token
  <1>4. Restores(token)
    BY <1>1, <1>2 DEF Restores
  <1> QED BY <1>1, <1>2, <1>3, <1>4 DEF TokenOK, token

LEMMA DropToken ==
  ASSUME NEW seen \in IndexType, NEW index \in IndexType, NEW c,
         c \in current => seen = index, NEW inverse \in InverseDrop(seen)
  PROVE  TokenOK(Token(inverse, index, c \in current)) /\ inverse.kind # "drop"
  <1> DEFINE token == Token(inverse, index, c \in current)
  <1>1. /\ inverse = [kind |-> "create", schema |-> seen.schema, name |-> seen.name,
                      def |-> DefText[seen.def]]
        /\ seen.schema \in Schemas /\ seen.name \in Names /\ seen.def \in Defs
    BY DEF InverseDrop, IndexType
  <1>2. /\ inverse \in Requests /\ inverse.kind = "create" /\ inverse.name = seen.name
        /\ inverse.schema = seen.schema /\ inverse.def = DefText[seen.def]
    BY <1>1, TextAssumption DEF Requests, CreateRequests
  <1>3. /\ token \in TokenType /\ token.inverse = inverse /\ token.changed = index
        /\ token.undisturbed = (c \in current)
    BY <1>2 DEF Token, TokenType
  <1> HIDE DEF token
  <1>4. c \in current => Restores(token) \/ Shortened(token)
    BY <1>2, <1>3 DEF Restores, Shortened
  <1> QED BY <1>2, <1>3, <1>4 DEF TokenOK, token

(* Tokens that were there stay what they say; a new one is sound. *)
Extends(inverses, changed) ==
  /\ tokens' \in Seq(TokenType)
  /\ \A i \in DOMAIN tokens : i \in DOMAIN tokens' /\ tokens'[i].inverse = tokens[i].inverse
  /\ \A i \in DOMAIN tokens' : TokenOK(tokens'[i])
  /\ \A i \in DOMAIN tokens' :
       \/ i \in DOMAIN tokens /\ tokens'[i].changed = tokens[i].changed
       \/ tokens'[i].inverse \in inverses /\ tokens'[i].changed = changed

LEMMA RecordExtends ==
  ASSUME IInv, NEW c \in Callers, NEW inverses, NEW changed, Record(c, inverses, changed),
         \A inverse \in inverses : TokenOK(Token(inverse, changed, c \in current))
  PROVE  Extends(inverses, changed)
  <1> DEFINE i == Undoes(c)
  <1>1. /\ tokens \in Seq(TokenType) /\ \A k \in DOMAIN tokens : TokenOK(tokens[k])
        /\ i # 0 => i \in DOMAIN tokens
    BY DEF IInv, RequestOK
  <1>2. ASSUME NEW k \in DOMAIN tokens
        PROVE  LET t == [tokens[k] EXCEPT !.status = "applied"] IN
                 /\ TokenOK(t) /\ t \in TokenType
                 /\ t.inverse = tokens[k].inverse /\ t.changed = tokens[k].changed
    <2> DEFINE t == [tokens[k] EXCEPT !.status = "applied"]
    <2>1. TokenOK(tokens[k]) /\ tokens[k] \in TokenType
      BY <1>1
    <2>2. /\ t \in TokenType /\ t.inverse = tokens[k].inverse /\ t.changed = tokens[k].changed
          /\ t.undisturbed = tokens[k].undisturbed
      BY <2>1 DEF TokenType
    <2> HIDE DEF t
    <2>3. (Restores(tokens[k]) => Restores(t)) /\ (Shortened(tokens[k]) => Shortened(t))
      BY <2>2 DEF Restores, Shortened
    <2>4. TokenOK(t)
      BY <2>1, <2>2, <2>3 DEF TokenOK
    <2> QED BY <2>2, <2>4 DEF t
  <1>3. /\ Applied(i) \in Seq(TokenType) /\ DOMAIN Applied(i) = DOMAIN tokens
        /\ \A k \in DOMAIN tokens :
             /\ TokenOK(Applied(i)[k])
             /\ Applied(i)[k].inverse = tokens[k].inverse
             /\ Applied(i)[k].changed = tokens[k].changed
    <2>1. CASE i = 0
      BY <1>1, <2>1 DEF Applied
    <2>2. CASE i # 0
      <3>1. Applied(i) = [tokens EXCEPT ![i] = [tokens[i] EXCEPT !.status = "applied"]]
        BY <2>2 DEF Applied
      <3> QED BY <1>1, <1>2, <2>2, <3>1
    <2> QED BY <2>1, <2>2
  <1> HIDE DEF i
  <1>4. CASE tokens' = tokens
    BY <1>1, <1>4 DEF Extends
  <1>5. CASE tokens' = Applied(i)
    BY <1>3, <1>5 DEF Extends
  <1>6. ASSUME NEW inverse \in inverses, NEW token,
               token = Token(inverse, changed, c \in current),
               tokens' = Append(Applied(i), token)
        PROVE  Extends(inverses, changed)
    <2>1. /\ token \in TokenType /\ TokenOK(token)
          /\ token.inverse = inverse /\ token.changed = changed
      BY <1>6 DEF TokenOK, Token
    <2>2. /\ tokens' \in Seq(TokenType) /\ DOMAIN tokens' = 1 .. Len(Applied(i)) + 1
          /\ \A k \in DOMAIN Applied(i) : k \in DOMAIN tokens' /\ tokens'[k] = Applied(i)[k]
          /\ tokens'[Len(Applied(i)) + 1] = token
          /\ DOMAIN Applied(i) = 1 .. Len(Applied(i)) /\ Len(Applied(i)) \in Nat
      BY <1>1, <1>3, <1>6, <2>1
    <2>3. \A k \in DOMAIN tokens' : k \in DOMAIN Applied(i) \/ k = Len(Applied(i)) + 1
      BY <2>2
    <2> QED BY <1>1, <1>3, <2>1, <2>2, <2>3 DEF Extends
  <1> QED BY <1>4, <1>5, <1>6 DEF Record, i

-----------------------------------------------------------------------------
(* The steps. *)

(* A step that moves c from a place in its write, or starts a new one.      *)
LEMMA BornKept ==
  ASSUME StateOK, NEW c \in Callers, NEW place, Go(c, place),
         \/ UNCHANGED writes /\ (pc[c] # "idle" \/ place = "idle")
         \/ writes' = [writes EXCEPT ![c] = @ + 1]
  PROVE  \A index : Born(index) => Born(index)'
  BY DEF Born, StateOK, Go

(* A name resolves to one index. *)
LEMMA ResolvesToOne ==
  ASSUME IInv, NEW schema, NEW name, NEW x \in Resolve(schema, name),
         NEW y \in Resolve(schema, name)
  PROVE  x = y
  <1>1. x \in indexes /\ y \in indexes /\ x.name = y.name
    BY DEF Resolve
  <1>2. CASE schema # None
    BY <1>1, <1>2 DEF Resolve, IInv, OneOfAName
  <1>3. CASE schema = None
    <2>1. PICK n \in Visible(name) :
            x.schema = SearchPath[n] /\ \A m \in Visible(name) : n <= m
      BY <1>3 DEF Resolve
    <2>2. PICK k \in Visible(name) :
            y.schema = SearchPath[k] /\ \A m \in Visible(name) : k <= m
      BY <1>3 DEF Resolve
    <2>3. n \in Nat /\ k \in Nat
      <3>1. SearchPath \in Seq(Schemas)
        BY ServerAssumption
      <3> QED BY <3>1 DEF Visible
    <2>4. n = k
      BY <2>1, <2>2, <2>3
    <2> QED BY <1>1, <2>1, <2>2, <2>4 DEF IInv, OneOfAName
  <1> QED BY <1>2, <1>3

LEMMA FreshIndex ==
  ASSUME IInv, NEW c \in Callers, pc[c] # "idle", NEW index, Born(index)
  PROVE  index.by # Current(c)
  BY DEF Born, Current, IInv, StateOK

(* Nothing but the places changes, and what a caller asked or has read.     *)
LEMMA MoveKeeps ==
  ASSUME IInv, NEW c \in Callers, NEW place \in {"idle", "capture", "execute"}, Go(c, place),
         \/ UNCHANGED writes /\ (pc[c] # "idle" \/ place = "idle")
         \/ writes' = [writes EXCEPT ![c] = @ + 1] /\ writes[c] < MaxWrites[c],
         request' \in [Callers -> [wanted : Requests, token : Nat]],
         prior' \in [Callers -> Images \cup IndexType \cup {None}],
         \A d \in Callers \ {c} : request'[d] = request[d] /\ prior'[d] = prior[d],
         RequestOK(c)', PriorOK(c)', CurrentOK(c)',
         current' \subseteq current \cup {c}, c \in current' => place = "execute",
         UNCHANGED <<server, tokens, undone>>
  PROVE  IInv'
  <1>1. StateOK'
    <2>1. /\ writes \in [Callers -> Nat] /\ MaxWrites \in [Callers -> Nat]
          /\ \A d \in Callers : writes[d] <= MaxWrites[d]
      BY BoundAssumption DEF IInv, StateOK
    <2>2. writes' \in [Callers -> Nat] /\ \A d \in Callers : writes'[d] <= MaxWrites[d]
      BY <2>1
    <2>3. current' \subseteq {d \in Callers : pc'[d] = "execute"}
      BY DEF IInv, StateOK, Go
    <2> QED BY <2>2, <2>3 DEF IInv, StateOK, Go, server
  <1>2. \A d \in Callers \ {c} : RequestOK(d)' /\ PriorOK(d)' /\ CurrentOK(d)'
    <2>1. \A d \in Callers \ {c} : RequestOK(d)' /\ PriorOK(d)'
      BY DEF IInv, StateOK, RequestOK, PriorOK, Undoes, Wanted, Go
    <2>2. ASSUME NEW d \in Callers \ {c} PROVE CurrentOK(d)'
      <3>1. auto' = auto /\ indexes' = indexes
        BY DEF server
      <3>2. /\ Wanted(d)' = Wanted(d) /\ prior'[d] = prior[d] /\ CurrentOK(d)
            /\ d \in current' => d \in current
        BY DEF IInv, Wanted
      <3>3. \A schema, name : Resolve(schema, name)' = Resolve(schema, name)
        BY <3>1 DEF Resolve, Visible
      <3> QED BY <3>1, <3>2, <3>3 DEF CurrentOK
    <2> QED BY <2>1, <2>2
  <1>3. BornInv'
    BY BornKept DEF IInv, BornInv, server
  <1> QED BY <1>1, <1>2, <1>3 DEF IInv, OneOfAName, UndoRemovesOwn, server

LEMMA LeaveIs ==
  ASSUME IInv, NEW c \in Callers, Leave(c)
  PROVE  /\ Go(c, "idle")
         /\ request' \in [Callers -> [wanted : Requests, token : Nat]]
         /\ prior' \in [Callers -> Images \cup IndexType \cup {None}]
         /\ \A d \in Callers \ {c} : request'[d] = request[d] /\ prior'[d] = prior[d]
         /\ RequestOK(c)' /\ PriorOK(c)'
  <1>1. Go(c, "idle") /\ request' = [request EXCEPT ![c] = NoWrite]
        /\ prior' = [prior EXCEPT ![c] = None]
    BY DEF Leave
  <1>2. pc'[c] = "idle" /\ request'[c] = NoWrite
    BY <1>1 DEF Go, IInv, StateOK
  <1>3. RequestOK(c)' /\ PriorOK(c)'
    BY <1>2, NoWriteIs DEF RequestOK, PriorOK, Undoes
  <1> QED BY <1>1, <1>3, NoWriteIs DEF IInv, StateOK

LEMMA BeginKeeps ==
  ASSUME IInv, NEW c \in Callers, NEW wanted \in Requests, NEW i \in Nat,
         i # 0 => i \in DOMAIN tokens /\ wanted = tokens[i].inverse,
         Begin(c, wanted, i)
  PROVE  IInv'
  <1>1. /\ Go(c, "capture") /\ writes[c] < MaxWrites[c]
        /\ writes' = [writes EXCEPT ![c] = @ + 1]
        /\ request' = [request EXCEPT ![c] = Write(wanted, i)]
        /\ pc[c] = "idle" /\ UNCHANGED <<prior, current, server, tokens, undone>>
    BY DEF Begin
  <1>2. Write(wanted, i) \in [wanted : Requests, token : Nat]
        /\ Write(wanted, i).wanted = wanted /\ Write(wanted, i).token = i
    BY DEF Write
  <1>3. RequestOK(c)' /\ PriorOK(c)' /\ c \notin current' /\ CurrentOK(c)'
    BY <1>1, <1>2 DEF RequestOK, PriorOK, CurrentOK, Undoes, Wanted, IInv, StateOK, Go
  <1>4. request' \in [Callers -> [wanted : Requests, token : Nat]]
    BY <1>1, <1>2 DEF IInv, StateOK
  <1>5. prior' \in [Callers -> Images \cup IndexType \cup {None}]
    BY <1>1 DEF IInv, StateOK
  <1>6. \A d \in Callers \ {c} : request'[d] = request[d] /\ prior'[d] = prior[d]
    BY <1>1 DEF IInv, StateOK
  <1> QED BY <1>1, <1>3, <1>4, <1>5, <1>6, MoveKeeps

LEMMA CaptureKeeps ==
  ASSUME IInv, NEW c \in Callers, CaptureSetting(c) \/ CaptureNothing(c) \/ CaptureIndex(c)
  PROVE  IInv'
  <1>1. /\ Go(c, "execute") /\ pc[c] = "capture"
        /\ UNCHANGED <<writes, request, server, tokens, undone>>
    BY DEF CaptureSetting, CaptureNothing, CaptureIndex
  <1>2. /\ prior' \in [Callers -> Images \cup IndexType \cup {None}]
        /\ \A d \in Callers \ {c} : prior'[d] = prior[d]
        /\ Wanted(c).kind \in {"set", "reset"} => prior'[c] \in Images
        /\ Wanted(c).kind = "drop" => prior'[c] \in IndexType
        /\ current' \subseteq current \cup {c}
        /\ c \in current' /\ Wanted(c).kind \in {"set", "reset"} => prior'[c] = Image(auto)
        /\ c \in current' /\ Wanted(c).kind = "drop" =>
             prior'[c] \in Resolve(Wanted(c).schema, Wanted(c).name)
    <2>1. prior \in [Callers -> Images \cup IndexType \cup {None}] /\ loaded \in Images
          /\ indexes \subseteq IndexType /\ c \notin current
      BY <1>1 DEF IInv, StateOK
    <2>2. CASE CaptureSetting(c)
      BY <2>1, <2>2 DEF CaptureSetting
    <2>3. CASE CaptureNothing(c)
      BY <2>1, <2>3 DEF CaptureNothing
    <2>4. CASE CaptureIndex(c)
      <3>1. PICK index \in Resolve(Wanted(c).schema, Fold[Wanted(c).name]) :
              prior' = [prior EXCEPT ![c] = index]
        BY <2>4 DEF CaptureIndex
      <3>2. index \in IndexType
        BY <2>1, <3>1 DEF Resolve
      <3> QED BY <2>1, <2>4, <3>1, <3>2 DEF CaptureIndex
    <2> QED BY <2>2, <2>3, <2>4
  <1>3. RequestOK(c)' /\ PriorOK(c)' /\ CurrentOK(c)'
    BY <1>1, <1>2 DEF IInv, RequestOK, PriorOK, CurrentOK, Undoes, Wanted, server, Resolve,
                      Visible
  <1>4. request' \in [Callers -> [wanted : Requests, token : Nat]]
        /\ \A d \in Callers \ {c} : request'[d] = request[d]
    BY <1>1 DEF IInv, StateOK
  <1> QED BY <1>1, <1>2, <1>3, <1>4, MoveKeeps

(* A write that lands: its token, and what the caller's leaving keeps.      *)
LEMMA LandKeeps ==
  ASSUME IInv, NEW c \in Callers, pc[c] = "execute", UNCHANGED <<writes, loaded>>,
         NEW inverses, NEW changed, Land(c, inverses, changed),
         \A inverse \in inverses : TokenOK(Token(inverse, changed, c \in current)),
         \A inverse \in inverses : inverse.kind = "drop" => Born(changed)',
         auto' \in Entries, indexes' \subseteq IndexType,
         \A index \in indexes' \ indexes : Born(index)',
         \A u \in undone' \ undone : u.made \in IndexType /\ u.dropped \in IndexType /\ Born(u.made)',
         OneOfAName', UndoRemovesOwn'
  PROVE  IInv'
  <1> Leave(c) /\ current' = {}
    BY DEF Land
  <1>1. /\ Go(c, "idle")
        /\ request' \in [Callers -> [wanted : Requests, token : Nat]]
        /\ prior' \in [Callers -> Images \cup IndexType \cup {None}]
        /\ \A d \in Callers \ {c} : request'[d] = request[d] /\ prior'[d] = prior[d]
        /\ RequestOK(c)' /\ PriorOK(c)'
    BY LeaveIs
  <1>2. Extends(inverses, changed)
    BY RecordExtends DEF Land
  <1>3. StateOK'
    BY <1>1 DEF IInv, StateOK, Go
  <1>4. /\ \A d \in Callers \ {c} : RequestOK(d)' /\ PriorOK(d)'
        /\ \A d \in Callers : CurrentOK(d)'
    BY <1>1, <1>2 DEF IInv, StateOK, RequestOK, PriorOK, CurrentOK, Undoes, Wanted, Go, Extends
  <1>5. \A index : Born(index) => Born(index)'
    BY <1>1, BornKept DEF IInv
  <1>6. ASSUME NEW i \in DOMAIN tokens', tokens'[i].inverse.kind = "drop",
               NEW index, index = tokens'[i].changed
        PROVE  Born(index)'
    <2>1. CASE i \in DOMAIN tokens /\ tokens'[i].changed = tokens[i].changed
      <3>1. Born(index)
        BY <1>2, <1>6, <2>1 DEF Extends, IInv, BornInv
      <3> QED BY <3>1, <1>5
    <2>2. CASE tokens'[i].inverse \in inverses /\ tokens'[i].changed = changed
      <3>1. index = changed /\ \E inverse \in inverses : inverse.kind = "drop"
        BY <1>6, <2>2
      <3> QED BY <3>1
    <2> QED BY <1>2, <2>1, <2>2 DEF Extends
  <1>7. BornInv'
    <2>1. \A index \in indexes' : Born(index)'
      BY <1>5 DEF IInv, BornInv
    <2>2. \A u \in undone' : u.made \in IndexType /\ u.dropped \in IndexType /\ Born(u.made)'
      BY <1>5 DEF IInv, BornInv
    <2>3. \A i \in DOMAIN tokens' : tokens'[i].inverse.kind = "drop" => Born(tokens[i].changed)'
      BY <1>6 DEF Born
    <2> QED BY <2>1, <2>2, <2>3 DEF BornInv
  <1> QED BY <1>1, <1>2, <1>3, <1>4, <1>7 DEF IInv, Extends

LEMMA AlterSystemKeeps ==
  ASSUME IInv, NEW c \in Callers, AlterSystem(c)
  PROVE  IInv'
  <1>1. /\ pc[c] = "execute" /\ Wanted(c).kind \in {"set", "reset"}
        /\ Land(c, InverseSetting(prior[c]), auto)
        /\ UNCHANGED <<writes, loaded, indexes, undone>>
    BY DEF AlterSystem
  <1>2. prior[c] \in Images /\ auto \in Entries /\ (c \in current => prior[c] = Image(auto))
    BY <1>1 DEF IInv, PriorOK, CurrentOK, StateOK
  <1>3. \A inverse \in InverseSetting(prior[c]) :
          TokenOK(Token(inverse, auto, c \in current)) /\ inverse.kind # "drop"
    BY <1>2, SettingToken
  <1>4. auto' \in Entries
    <2>1. Wanted(c) \in Requests
      BY DEF IInv, StateOK, Wanted
    <2> QED BY <2>1, RequestKinds DEF AlterSystem, Entries
  <1>5. OneOfAName' /\ UndoRemovesOwn' /\ indexes' \subseteq IndexType
    BY <1>1 DEF IInv, OneOfAName, UndoRemovesOwn, StateOK
  <1> QED BY <1>1, <1>3, <1>4, <1>5, LandKeeps

LEMMA CreateIndexKeeps ==
  ASSUME IInv, NEW c \in Callers, CreateIndex(c)
  PROVE  IInv'
  <1>1. PICK index : index = Index(Wanted(c).schema, Wanted(c).name, Wanted(c).def, Current(c))
    OBVIOUS
  <1>2. /\ pc[c] = "execute" /\ Wanted(c).kind = "create" /\ Wanted(c).def # None
        /\ Resolve(Wanted(c).schema, Wanted(c).name) = {}
        /\ indexes' = indexes \cup {index}
        /\ Land(c, InverseCreate(index), index)
        /\ UNCHANGED <<writes, auto, loaded, undone>>
    BY <1>1 DEF CreateIndex
  <1>3. /\ index \in IndexType /\ index.schema = Wanted(c).schema /\ index.name = Wanted(c).name
        /\ index.by = Current(c) /\ index.schema # None
    <2>1. Wanted(c) \in Requests
      BY DEF IInv, StateOK, Wanted
    <2>2. Wanted(c).schema \in Schemas /\ Wanted(c).name \in Names /\ Wanted(c).def \in Defs
      BY <1>2, <2>1, RequestKinds
    <2>3. Current(c) \in Callers \X Nat
      BY DEF Current, IInv, StateOK
    <2> QED BY <1>1, <2>2, <2>3, ServerAssumption DEF Index, IndexType
  <1>5. \A inverse \in InverseCreate(index) : TokenOK(Token(inverse, index, c \in current))
    BY <1>3, CreateToken
  <1>6. pc'[c] = "idle"
    BY <1>2 DEF Land, Leave, Go, IInv, StateOK
  <1>7. Born(index)'
    BY <1>2, <1>3, <1>6 DEF Born, Current, IInv, StateOK
  <1>8. OneOfAName'
    <2>1. \A x \in indexes : ~ (x.schema = index.schema /\ x.name = index.name)
      BY <1>2, <1>3 DEF Resolve
    <2> QED BY <1>2, <2>1 DEF IInv, OneOfAName
  <1>9. UndoRemovesOwn'
    <2>1. \A u \in undone : u.made # index
      BY <1>2, <1>3, FreshIndex DEF IInv, BornInv
    <2> QED BY <1>2, <2>1 DEF IInv, UndoRemovesOwn
  <1>10. auto' \in Entries /\ indexes' \subseteq IndexType
    BY <1>2, <1>3 DEF IInv, StateOK
  <1> QED BY <1>2, <1>5, <1>7, <1>8, <1>9, <1>10, LandKeeps

(* The first index of a name along the search path is the one in the first  *)
(* schema, where there is one.                                              *)
LEMMA FirstResolves ==
  ASSUME IInv, NEW made \in indexes, made.schema = SearchPath[1],
         NEW index \in Resolve(None, made.name)
  PROVE  index = made
  <1>1. 1 \in DOMAIN SearchPath /\ DOMAIN SearchPath \subseteq Nat \ {0}
    <2>1. SearchPath \in Seq(Schemas) /\ SearchPath # <<>>
      BY ServerAssumption
    <2> QED BY <2>1
  <1>2. 1 \in Visible(made.name)
    BY <1>1 DEF Visible
  <1>3. PICK n \in Visible(made.name) :
          index.schema = SearchPath[n] /\ \A m \in Visible(made.name) : n <= m
    BY DEF Resolve
  <1>4. n <= 1 /\ n \in Nat \ {0}
    BY <1>1, <1>2, <1>3 DEF Visible
  <1>5. index.schema = made.schema
    BY <1>3, <1>4
  <1>6. index \in indexes /\ index.name = made.name
    BY DEF Resolve
  <1> QED BY <1>5, <1>6 DEF IInv, OneOfAName

LEMMA DropIndexKeeps ==
  ASSUME IInv, NEW c \in Callers, DropIndex(c)
  PROVE  IInv'
  <1>1. PICK index \in Resolve(Wanted(c).schema, Wanted(c).name) :
          /\ indexes' = indexes \ {index}
          /\ undone' = IF Undoes(c) = 0 THEN undone
                       ELSE undone \cup {[made |-> tokens[Undoes(c)].changed, dropped |-> index]}
          /\ Land(c, InverseDrop(prior[c]), index)
    BY DEF DropIndex
  <1>2. /\ pc[c] = "execute" /\ Wanted(c).kind = "drop" /\ Leave(c)
        /\ UNCHANGED <<writes, auto, loaded>>
    BY <1>1 DEF DropIndex, Land
  <1>3. index \in indexes /\ index \in IndexType /\ prior[c] \in IndexType
    BY <1>1, <1>2 DEF Resolve, IInv, StateOK, PriorOK
  <1>4. c \in current => prior[c] = index
    BY <1>1, <1>2, ResolvesToOne DEF IInv, CurrentOK
  <1>5. \A inverse \in InverseDrop(prior[c]) :
          TokenOK(Token(inverse, index, c \in current)) /\ inverse.kind # "drop"
    BY <1>3, <1>4, DropToken
  <1>7. OneOfAName' /\ indexes' \subseteq IndexType /\ auto' \in Entries
    BY <1>1, <1>2 DEF IInv, OneOfAName, StateOK
  <1>8. ASSUME Undoes(c) # 0, NEW made, made = tokens[Undoes(c)].changed
        PROVE  /\ made \in IndexType /\ Born(made)'
               /\ made.schema = SearchPath[1] => made \notin indexes'
    <2>1. /\ Undoes(c) \in DOMAIN tokens /\ Wanted(c) = tokens[Undoes(c)].inverse
          /\ TokenOK(tokens[Undoes(c)])
      BY <1>8 DEF IInv, RequestOK
    <2>2. made \in IndexType /\ Wanted(c) \in InverseCreate(made) /\ Born(made)
      BY <1>2, <1>8, <2>1 DEF TokenOK, IInv, BornInv
    <2>3. Born(made)'
      BY <1>2, <2>2, BornKept DEF Leave, IInv
    <2>4. Wanted(c).schema = None /\ Wanted(c).name = made.name
      BY <2>2 DEF InverseCreate
    <2>5. made \in indexes /\ made.schema = SearchPath[1] => index = made
      BY <1>1, <2>4, FirstResolves
    <2> QED BY <1>1, <2>2, <2>3, <2>5
  <1>9. ASSUME NEW u \in undone' \ undone
        PROVE  /\ u.made \in IndexType /\ u.dropped \in IndexType /\ Born(u.made)'
               /\ u.made.schema = SearchPath[1] => u.made \notin indexes'
    <2>1. Undoes(c) # 0 /\ u = [made |-> tokens[Undoes(c)].changed, dropped |-> index]
      BY <1>1, <1>9
    <2>2. PICK made : made = u.made
      OBVIOUS
    <2>3. made = tokens[Undoes(c)].changed /\ u.dropped = index
      BY <2>1, <2>2
    <2> QED BY <1>3, <1>8, <2>1, <2>2, <2>3
  <1>10. UndoRemovesOwn'
    BY <1>1, <1>9 DEF IInv, UndoRemovesOwn
  <1> QED BY <1>1, <1>2, <1>5, <1>7, <1>9, <1>10, LandKeeps

LEMMA InitInv == Init => IInv
  <1> SUFFICES ASSUME Init PROVE IInv
    OBVIOUS
  <1>1. None \in Entries /\ Image(None) \in Images
    BY ImagesAre DEF Entries
  <1>2. StateOK
    <2>1. /\ writes \in [Callers -> Nat] /\ \A c \in Callers : writes[c] <= MaxWrites[c]
      <3>1. \A c \in Callers : MaxWrites[c] \in Nat /\ writes[c] = 0
        BY BoundAssumption DEF Init
      <3> QED BY <3>1 DEF Init
    <2> QED BY <1>1, <2>1, NoWriteIs DEF Init, StateOK
  <1>3. tokens = <<>> /\ indexes = {} /\ undone = {}
    BY DEF Init
  <1>4. \A c \in Callers : RequestOK(c) /\ PriorOK(c) /\ CurrentOK(c)
    BY NoWriteIs DEF Init, RequestOK, PriorOK, CurrentOK, Undoes
  <1> QED BY <1>2, <1>3, <1>4 DEF IInv, BornInv, OneOfAName, UndoRemovesOwn

LEMMA NextInv ==
  ASSUME IInv, [Next]_vars
  PROVE  IInv'
  <1>1. ASSUME NEW c \in Callers, NEW wanted \in Requests, Ask(c, wanted)
        PROVE  IInv'
    BY <1>1, BeginKeeps DEF Ask
  <1>2. ASSUME NEW c \in Callers, NEW i \in DOMAIN tokens, Undo(c, i)
        PROVE  IInv'
    <2>1. tokens[i].inverse \in Requests /\ i \in Nat
      BY DEF IInv, TokenOK, TokenType
    <2>2. PICK wanted : wanted = tokens[i].inverse
      OBVIOUS
    <2> QED BY <1>2, <2>1, <2>2, BeginKeeps DEF Undo
  <1>3. ASSUME NEW c \in Callers, Fail(c)
        PROVE  IInv'
    <2>1. /\ Go(c, "idle") /\ pc[c] # "idle"
          /\ request' \in [Callers -> [wanted : Requests, token : Nat]]
          /\ prior' \in [Callers -> Images \cup IndexType \cup {None}]
          /\ \A d \in Callers \ {c} : request'[d] = request[d] /\ prior'[d] = prior[d]
          /\ RequestOK(c)' /\ PriorOK(c)'
          /\ c \notin current' /\ CurrentOK(c)' /\ current' \subseteq current \cup {c}
          /\ UNCHANGED <<writes, server, tokens, undone>>
      BY <1>3, LeaveIs DEF Fail, CurrentOK
    <2> QED BY <2>1, MoveKeeps
  <1>4. CASE Reload
    <2>1. StateOK'
      BY <1>4, ImagesAre DEF Reload, IInv, StateOK
    <2> QED BY <1>4, <2>1 DEF Reload, IInv, RequestOK, PriorOK, CurrentOK, Undoes, Wanted,
                              Resolve, Visible, BornInv, Born, OneOfAName, UndoRemovesOwn
  <1>5. CASE UNCHANGED vars
    BY <1>5 DEF vars, IInv, StateOK, RequestOK, PriorOK, CurrentOK, Undoes, Wanted, Resolve,
                Visible, BornInv, Born, OneOfAName, UndoRemovesOwn
  <1> QED BY <1>1, <1>2, <1>3, <1>4, <1>5, CaptureKeeps, AlterSystemKeeps, CreateIndexKeeps,
             DropIndexKeeps DEF Next

LEMMA Always == Spec => []IInv
  BY InitInv, NextInv, PTL DEF Spec

(* Type correctness of the reversible writes and of what they record.       *)
THEOREM RemediationTypeCorrect == Spec => []TypeOK
  <1>1. ASSUME IInv PROVE TypeOK
    <2>1. \A c \in Callers : Wanted(c) \in Requests /\ Undoes(c) \in 0 .. Len(tokens)
      <3>1. tokens \in Seq(TokenType) /\ \A c \in Callers : RequestOK(c)
        BY <1>1 DEF IInv
      <3>2. DOMAIN tokens = 1 .. Len(tokens) /\ Len(tokens) \in Nat
        BY <3>1
      <3>3. \A c \in Callers : Wanted(c) \in Requests /\ Undoes(c) \in Nat
        BY <1>1 DEF IInv, StateOK, Wanted, Undoes
      <3>4. \A c \in Callers : Undoes(c) = 0 \/ Undoes(c) \in 1 .. Len(tokens)
        BY <3>1, <3>2 DEF RequestOK
      <3>5. ASSUME NEW c \in Callers PROVE Undoes(c) \in 0 .. Len(tokens)
        <4>1. Undoes(c) \in Nat /\ (Undoes(c) = 0 \/ Undoes(c) <= Len(tokens)) /\ Len(tokens) \in Nat
          BY <3>2, <3>3, <3>4
        <4> QED BY <4>1
      <3> QED BY <3>3, <3>5
    <2>2. \A i \in DOMAIN tokens : /\ tokens[i].inverse \in Requests
                                   /\ tokens[i].status \in {"recorded", "applied"}
                                   /\ tokens[i].undisturbed \in BOOLEAN
      BY <1>1 DEF IInv, TokenOK, TokenType
    <2> QED BY <1>1, <2>1, <2>2 DEF IInv, StateOK, BornInv, TypeOK, Entries, Images
  <1> QED BY <1>1, Always, PTL

(* The inverse of a write that no other came between, of a setting that was *)
(* loaded or an index that read and DROP spell alike, brings back what the  *)
(* write changed, unless that cannot be recorded whole: whatever is cut.    *)
THEOREM InversesRestore == Spec => []InverseRestores
  <1>1. IInv => InverseRestores
    BY DEF IInv, TokenOK, InverseRestores
  <1> QED BY <1>1, Always, PTL

(* Undoing a create_index leaves its index gone for good, where its schema  *)
(* comes first in the search path, whatever was made and dropped since.     *)
THEOREM UndoesRemoveTheirOwn == Spec => []UndoRemovesOwn
  <1>1. IInv => UndoRemovesOwn
    BY DEF IInv
  <1> QED BY <1>1, Always, PTL
=============================================================================
