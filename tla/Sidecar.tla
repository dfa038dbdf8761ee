------------------------------ MODULE Sidecar ------------------------------
(***************************************************************************)
(* The `.data.json` sidecar of an instance: how a property value becomes   *)
(* JSON and a value again (resolution.rs), and the three operations on the *)
(* file (middleware/data.rs): write_data after Studio changed properties,  *)
(* write_original_name after a rename, read_data into the tree.            *)
(*                                                                         *)
(* A value is a record [kind, v].  JSON is untagged: the text remembers a  *)
(* form and its data, never the kind it came from, and reading tries the   *)
(* forms in the order of the AmbiguousValue enum.  Numbers are integers    *)
(* counting tenths of a millionth; Infinite is one of them.                *)
(***************************************************************************)
EXTENDS Integers, Sequences, FiniteSets, TLC

CONSTANTS
    Prop,         \* the properties of the instance
    Declared,     \* Declared[p]: the type the reflection database gives p
    Customized,   \* properties with a custom Color3uint8 serialization
    Number,       \* the numbers values are made of
    Infinite,     \* the number standing for an infinity
    One,          \* the number 1
    AttrName,     \* names of attributes
    RenamesKeys,  \* TRUE: instances with hand-written keys are renamed too
    MaxSteps      \* bound on the number of operations

VARIABLES
    live,         \* live[p]: the value Studio last sent for p
    file,         \* the sidecar, or NoFile
    original,     \* meta.original_name: a name was made safe
    steps

sidecarVars == <<live, file, original, steps>>

NoFile  == [there |-> FALSE]
NoValue == [kind |-> "none", v |-> 0]
Million == 10
Cap     == Infinite - 10   \* 999_999_999, larger than every finite number
Null    == Infinite + 1    \* what JSON writes for an infinity

---------------------------------------------------------------------------
(* Values and their JSON *)

Scalars   == {"Float32", "Float64", "Int32", "Int64"}
Pairs     == {"NumberRange", "UDim", "Vector2", "Vector2int16"}
Triples   == {"Color3", "Color3uint8", "Vector3", "Vector3int16"}
Nested2   == {"UDim2"}
Nested3   == {"Ray", "Region3", "Region3int16"}
Words     == {"BrickColor", "Content", "ContentId", "String", "BinaryString", "SharedString"}
WordLists == {"Axes", "Faces", "Tags"}
Objects   == {"ColorSequence", "NumberSequence", "Font", "MaterialColors"}

(* The shape from_variant gives a value of each kind *)
ShapeOf(kind) ==
    CASE kind = "Bool"       -> "Bool"
      [] kind \in Scalars    -> "Number"
      [] kind \in Pairs      -> "Array2"
      [] kind \in Triples    -> "Array3"
      [] kind = "Rect"       -> "Array4"
      [] kind \in {"CFrame", "OptionalCFrame"} -> "Array12"
      [] kind \in Nested2    -> "Array2Array2"
      [] kind \in Nested3    -> "Array3Array2"
      [] kind \in Words      -> "String"
      [] kind \in WordLists  -> "StringArray"
      [] kind \in Objects    -> kind
      [] kind = "PhysicalProperties" -> "PhysicalProperties"
      [] kind = "Attributes" -> "Object"
      [] OTHER               -> "FullyQualified"

Amb(shape, v)  == [shape |-> shape, v |-> v]
NoKey          == Amb("no key", 0)
Full(value)    == Amb("FullyQualified", value)

(* UnresolvedValue::from_variant for Attributes: the three kinds JSON has,  *)
(* the rest with their type spelled out                                    *)
FromAttributes(attrs) ==
    Amb("Object", [a \in DOMAIN attrs |->
        IF attrs[a].kind \in {"Bool", "Float64", "String"}
        THEN Amb(ShapeOf(attrs[a].kind), attrs[a].v) ELSE Full(attrs[a])])

(* An enum item of a property that is one goes by its name *)
FromEnum(p, value) ==
    IF Declared[p] = "Enum" THEN Amb("String", value.v) ELSE Full(value)

FromVariant(p, value) ==
    CASE value.kind = "Attributes" -> FromAttributes(value.v)
      [] value.kind = "Enum" -> FromEnum(p, value)
      [] value.kind = "OptionalCFrame" /\ value.v = "none" -> Amb("String", "null")
      [] value.kind = "PhysicalProperties" /\ value.v = "Default" -> Amb("String", "Default")
      [] value.kind = "BinaryString" /\ value.v = "not utf8" -> Amb("String", "")
      [] OTHER -> IF ShapeOf(value.kind) = "FullyQualified" THEN Full(value)
                  ELSE Amb(ShapeOf(value.kind), value.v)

(* truncate_number: six decimals, and no `null` for an infinity *)
Truncate(n) ==
    CASE n = Infinite  -> Cap
      [] n = -Infinite -> -Cap
      [] n >= 0 -> Million * (n \div Million)
      [] OTHER  -> -(Million * ((-n) \div Million))

SerializeNumber(n) == Truncate(n)
SerializeArray(s)  == [i \in DOMAIN s |-> Truncate(s[i])]
(* serialize_nested_array truncates into `new` and serializes `array`: an   *)
(* infinity becomes null                                                   *)
SerializeNestedArray(s) == [i \in DOMAIN s |-> IF s[i] \in {Infinite, -Infinite} THEN Null ELSE s[i]]

Serialize(u) ==
    CASE u.shape = "Number" -> [u EXCEPT !.v = SerializeNumber(@)]
      [] u.shape \in {"Array2", "Array3", "Array4", "Array12"} -> [u EXCEPT !.v = SerializeArray(@)]
      [] u.shape \in {"Array2Array2", "Array3Array2"} -> [u EXCEPT !.v = SerializeNestedArray(@)]
      [] u.shape = "Object" ->
            [u EXCEPT !.v = [a \in DOMAIN @ |->
                IF @[a].shape = "Number" THEN Amb("Number", SerializeNumber(@[a].v)) ELSE @[a]]]
      [] OTHER -> u

(* Untagged parsing.  An object with one key that names a kind is taken as  *)
(* a value of that kind; one whose values are all spelled out as an         *)
(* Attributes map; an array that holds null as nothing                     *)
Parses(u) ==
    u.shape \in {"Array2Array2", "Array3Array2"} => \A i \in DOMAIN u.v : u.v[i] # Null

KindNames == {"Bool", "String", "Float64", "Enum", "Color3"}

Deserialize(u) ==
    IF u.shape # "Object" THEN u
    ELSE LET attrs == u.v IN
         CASE /\ Cardinality(DOMAIN attrs) = 1
              /\ \E a \in DOMAIN attrs : a \in KindNames /\ ShapeOf(a) = attrs[a].shape
                    -> LET a == CHOOSE a \in DOMAIN attrs : TRUE
                       IN  Full([kind |-> a, v |-> attrs[a].v])
           [] \A a \in DOMAIN attrs : attrs[a].shape = "FullyQualified"
                    -> Amb("Attributes", [a \in DOMAIN attrs |-> attrs[a].v])
           [] OTHER -> u

---------------------------------------------------------------------------
(* AmbiguousValue::resolve: the declared type decides what a form means *)

Fails == [ok |-> FALSE]
Ok(kind, v) == [ok |-> TRUE, value |-> [kind |-> kind, v |-> v]]

(* resolve_unambiguous, for the values of an attribute map *)
Unambiguous(u) ==
    CASE u.shape = "FullyQualified" -> [ok |-> TRUE, value |-> u.v]
      [] u.shape = "Bool"   -> Ok("Bool", u.v)
      [] u.shape = "Number" -> Ok("Float64", u.v)
      [] u.shape = "String" -> Ok("String", u.v)
      [] OTHER -> Fails

ResolveAttributes(attrs) ==
    IF \A a \in DOMAIN attrs : Unambiguous(attrs[a]).ok
    THEN Ok("Attributes", [a \in DOMAIN attrs |-> Unambiguous(attrs[a]).value])
    ELSE Fails

(* a mutant: a component of exactly 1 counts as a byte *)
ScalesOne(p, rgb) == p \in Customized /\ \E i \in DOMAIN rgb : rgb[i] >= One

(* BasePart.Color is kept as bytes: a component above 1 is one *)
ScalesColor(p, rgb) == p \in Customized /\ \E i \in DOMAIN rgb : rgb[i] > One
ResolveColor(p, rgb) ==
    IF ScalesColor(p, rgb) THEN Ok("Color3", [i \in DOMAIN rgb |-> rgb[i] \div 255])
    ELSE Ok("Color3", rgb)

(* The other kinds are read from the shape they are written in, and no other *)
ByShape(type, u) ==
    IF /\ type \notin {"Enum", "Attributes", "Color3", "SharedString"}
       /\ u.shape = ShapeOf(type)
    THEN Ok(type, u.v) ELSE Fails

Resolve(p, u) ==
    LET type == Declared[p] IN
    CASE u.shape = "FullyQualified" -> [ok |-> TRUE, value |-> u.v]
      [] u.shape # "FullyQualified" /\ type = "unknown" -> Fails
      [] type = "Enum" -> IF u.shape = "String" THEN Ok("Enum", u.v) ELSE Fails
      [] type = "Attributes" /\ u.shape = "Attributes" -> Ok("Attributes", u.v)
      [] type = "Attributes" /\ u.shape = "Object" -> ResolveAttributes(u.v)
      [] type = "Color3" /\ u.shape = "Array3" -> ResolveColor(p, u.v)
      [] type = "BrickColor" /\ u.shape = "Number" -> Ok("BrickColor", u.v)
      [] type = "PhysicalProperties" /\ u.shape = "String" ->
            IF u.v = "Default" THEN Ok(type, "Default") ELSE Fails
      [] type = "SharedString" /\ u.shape = "String" -> Ok("String", u.v)
      [] OTHER -> ByShape(type, u)

---------------------------------------------------------------------------
(* The file *)

Values(p) ==
    LET type == Declared[p]
        seqs(n) == [1..n -> Number]
    IN  CASE type = "Bool" -> [kind : {type}, v : BOOLEAN]
          [] type \in Scalars -> [kind : {type}, v : Number]
          [] type = "Color3" /\ p \in Customized ->
                [kind : {type}, v : {s \in seqs(2) : \A i \in 1..2 : s[i] \in 0..One}]
          [] type \in Pairs \cup Triples \cup Nested2 \cup Nested3 \cup {"Rect", "CFrame"} ->
                [kind : {type}, v : {s \in seqs(2) : ShapeOf(type) \in {"Array2Array2", "Array3Array2"}
                                        => \A i \in 1..2 : s[i] \notin {Infinite, -Infinite}}]
          [] type = "OptionalCFrame" -> [kind : {type}, v : {<<0>>, <<15>>}]
          [] type = "PhysicalProperties" -> [kind : {type}, v : {"Default", "custom"}]
          [] type = "Attributes" ->
                {[kind |-> type, v |-> f] : f \in UNION {[S ->
                    {[kind |-> "Bool", v |-> TRUE], [kind |-> "Float64", v |-> 15],
                     [kind |-> "Color3", v |-> <<0>>]}] : S \in SUBSET AttrName}}
          [] type = "Tags" -> [kind : {type}, v : {{"s"}, {"s", "t"}}]
          [] OTHER -> [kind : {IF type = "unknown" THEN "Enum" ELSE type}, v : {"x", "y"}]

(* write_data: every property of the instance goes into `properties`, and a *)
(* sidecar with nothing to say is removed                                  *)
WriteData(props, name) ==
    LET kept == {p \in DOMAIN props : props[p].kind # NoValue.kind}
    IN  IF kept = {} /\ ~name THEN NoFile
        ELSE [there |-> TRUE, original |-> name, attributes |-> NoKey, tags |-> {},
              properties |-> [p \in kept |-> Serialize(FromVariant(p, props[p]))]]

(* read_data: a property that does not resolve is logged and left out; the  *)
(* `attributes` and `tags` keys are properties too                         *)
ReadData(f) ==
    IF ~f.there THEN [p \in {} |-> NoValue]
    ELSE LET back(p) == IF Parses(f.properties[p]) THEN Resolve(p, Deserialize(f.properties[p])) ELSE Fails
             good == {p \in DOMAIN f.properties : back(p).ok}
             attributes == Resolve("Attributes", Deserialize(f.attributes))
         IN  (IF f.tags # {} THEN "Tags" :> [kind |-> "Tags", v |-> f.tags] ELSE <<>>)
             @@ (IF f.attributes.shape # NoKey.shape /\ attributes.ok THEN "Attributes" :> attributes.value ELSE <<>>)
             @@ [p \in good |-> back(p).value]

(* write_original_name builds the new file from the keys WritableData has:  *)
(* class, properties, keepUnknowns and the name                            *)
WriteOriginalName(f, name) ==
    CASE ~f.there /\ ~name -> NoFile
      [] ~f.there /\ name  -> [WriteData([p \in {} |-> NoValue], TRUE) EXCEPT !.original = TRUE]
      [] f.there /\ f.original = name -> f
      [] OTHER -> IF DOMAIN f.properties = {} /\ ~name THEN NoFile
                  ELSE [f EXCEPT !.original = name, !.attributes = NoKey, !.tags = {}]

---------------------------------------------------------------------------
SidecarInit ==
    /\ live = [p \in Prop |-> NoValue]
    /\ file = NoFile
    /\ original = FALSE
    /\ steps = 0

Counts == steps < MaxSteps /\ steps' = steps + 1

(* Studio changes a property; the whole property set is written *)
StudioSets(p) ==
    /\ Counts
    /\ \E value \in Values(p) :
        /\ live' = [live EXCEPT ![p] = value]
        /\ file' = WriteData(live', original)
    /\ UNCHANGED original

HasKeys == IF file.there THEN file.attributes.shape # NoKey.shape \/ file.tags # {} ELSE FALSE

(* Studio renames the instance to or from a name no file may have *)
Renames ==
    /\ Counts
    /\ RenamesKeys \/ ~HasKeys
    /\ original' = ~original
    /\ file' = WriteOriginalName(file, original')
    /\ UNCHANGED live

(* The user writes attributes or tags as keys of their own; the watcher has *)
(* read_data read them and Studio gets them                                *)
EditsByHand ==
    /\ Counts
    /\ file.there
    /\ \/ \E value \in Values("Attributes") :
            file' = [file EXCEPT !.attributes = Serialize(FromAttributes(value.v))]
       \/ file' = [file EXCEPT !.tags = {"t"}]
    /\ LET values == ReadData(file') IN
       live' = [p \in Prop |-> IF p \in DOMAIN values \cap {"Attributes", "Tags"}
                               THEN values[p] ELSE live[p]]
    /\ UNCHANGED original

SidecarNext == (\E p \in Prop : StudioSets(p)) \/ Renames \/ EditsByHand

SidecarSpec == SidecarInit /\ [][SidecarNext]_sidecarVars

---------------------------------------------------------------------------
(* Properties *)

(* What a value is worth after the file: six decimals, no infinities *)
Ideal(value) ==
    LET round(n) == IF n \in {Infinite, -Infinite} THEN (IF n > 0 THEN Cap ELSE -Cap)
                    ELSE CHOOSE m \in -Infinite..Infinite :
                            /\ m % Million = 0
                            /\ IF n < 0 THEN m \in n..0 /\ m - Million < n
                               ELSE m \in 0..n /\ m + Million > n
    IN  CASE value.kind \in Scalars -> [value EXCEPT !.v = round(@)]
          [] value.kind \in (Pairs \cup Triples \cup {"Rect", "CFrame", "OptionalCFrame"}) ->
                [value EXCEPT !.v = [i \in DOMAIN @ |-> round(@[i])]]
          [] value.kind = "Attributes" ->
                [value EXCEPT !.v = [a \in DOMAIN @ |->
                    IF @[a].kind = "Float64" THEN [@[a] EXCEPT !.v = round(@)] ELSE @[a]]]
          [] OTHER -> value

(* Reading the sidecar gives back every property Studio set, of the kind it *)
(* had and with six decimals: from_variant, the untagged JSON and resolve   *)
(* together lose nothing of the values Roblox properties take, through any  *)
(* sequence of writes, hand edits and renames.  With RenamesKeys it does    *)
(* not hold: write_original_name writes a file without the `attributes` and *)
(* `tags` the user wrote, which "ride along in both directions"             *)
(* (Design.md:328).                                                        *)
SavedIsRead ==
    \A p \in Prop :
        live[p].kind # NoValue.kind =>
            /\ p \in DOMAIN ReadData(file)
            /\ ReadData(file)[p] = Ideal(live[p])
=============================================================================
