----------------------------- MODULE Validation -----------------------------
(***************************************************************************)
(* src/input_validation.cpp, the text checks of src/security_utils.cpp and *)
(* the configuration loader of src/config.cpp: pure functions on text.     *)
(* The model types a text one character at a time, or writes a             *)
(* configuration file one entry at a time, and the properties compare what *)
(* the functions make of it with what they are meant to make.              *)
(*                                                                         *)
(* A character is its class: "A" and "a" an upper and a lower case letter, *)
(* "1" a digit, "_" other printable text, "bs" the backslash, ";" a        *)
(* character to be escaped, " " the blank, "nl" a tab or line end, "ctl" a *)
(* control character.  A file is a sequence of lexemes.                    *)
(***************************************************************************)
EXTENDS Integers, Sequences, SequencesExt, FiniteSets, FiniteSetsExt

CONSTANTS MaxText,          \* bound on the text typed
          SymbolMax,        \* the longest symbol sanitize_symbol() returns (8)
          SymbolCapacity,   \* characters a message's symbol field holds (7)
          NetworkMax,       \* the longest input sanitize_network_input() takes
          MaxQuantity,      \* the largest quantity of an order
          MinPort,          \* the lowest port allowed
          FileNames, FilePorts,   \* values written for the name and for the ports
          MaxEntries        \* bound on the entries of a file

VARIABLES typed,            \* the text
          fileEntries       \* the entries of the file: key, kind and value

textVars == <<typed, fileEntries>>

Characters == {"A", "a", "1", "_", "bs", ";", " ", "nl", "ctl"}
Alnum == {"A", "a", "1"}
Spaces == {" ", "nl"}

-----------------------------------------------------------------------------
(* FieldValidators and InputSanitizer *)
ToUpper(c) == IF c = "a" THEN "A" ELSE c


SanitizeSymbol(chars) ==
  FoldLeft(LAMBDA r, c : IF Len(r) >= SymbolMax \/ c \notin Alnum THEN r ELSE Append(r, ToUpper(c)), <<>>, chars)

SanitizeClientId(chars) == SelectSeq(chars, LAMBDA c : c \in Alnum \cup {"_"})
RemoveControlChars(chars) == SelectSeq(chars, LAMBDA c : c # "ctl")
EscapeSpecialChars(chars) == FoldLeft(LAMBDA r, c : r \o (IF c = ";" THEN <<"bs", c>> ELSE <<c>>), <<>>, chars)

(* A run of white space becomes one blank, and none at either end. *)
NormalizeWhitespace(chars) ==
  LET squeezed == FoldLeft(LAMBDA r, c : IF c \notin Spaces THEN Append(r, c)
                                         ELSE IF r # <<>> /\ Last(r) = " " THEN r ELSE Append(r, " "), <<>>, chars)
      headless == IF squeezed # <<>> /\ Head(squeezed) = " " THEN Tail(squeezed) ELSE squeezed
  IN IF headless # <<>> /\ Last(headless) = " " THEN Front(headless) ELSE headless

SanitizeNetworkInput(chars) ==
  IF chars = <<>> \/ Len(chars) > NetworkMax THEN <<>>
  ELSE NormalizeWhitespace(EscapeSpecialChars(RemoveControlChars(chars)))

SanitizeLogInput(chars) == FoldLeft(LAMBDA r, c : r \o (IF c \in {"nl", "bs", ";"} THEN <<"bs", c>> ELSE <<c>>), <<>>,
                                   RemoveControlChars(chars))
IsSafeString(chars) == \A i \in DOMAIN chars : chars[i] # "ctl"

-----------------------------------------------------------------------------
(* MessageValidator: the orders that pass, with the fields it rewrites *)
NewOrders ==
  [orderId : {0, 1}, side : {1, 3}, quantity : {0, MaxQuantity, MaxQuantity + 1}, price : {0, 1}, type : {1, 2, 3}]

SanitizeNewOrder(order, symbol) ==
  LET clean == SanitizeSymbol(symbol)
      passes == /\ order.orderId # 0
                /\ clean # <<>> /\ Len(clean) <= SymbolCapacity
                /\ order.side \in {1, 2}
                /\ order.quantity # 0 /\ order.quantity <= MaxQuantity
                /\ order.type = 2 => order.price # 0
                /\ order.type \in {1, 2}
  IN [accepted |-> passes, symbol |-> IF clean # <<>> /\ Len(clean) <= SymbolCapacity THEN clean ELSE symbol]

(* A symbol longer than the field makes assign() throw. *)
SanitizeCancel(symbol) ==
  LET clean == SanitizeSymbol(symbol)
  IN CASE clean = <<>> -> "rejected" [] Len(clean) > SymbolCapacity -> "throws" [] OTHER -> "accepted"

-----------------------------------------------------------------------------
(* JsonParser and ConfigurationValidator *)
FileEntry ==
  [key : {"name"}, kind : {"string"}, value : FileNames] \cup
  [key : {"tcp_port", "udp_port"}, kind : {"number"}, value : FilePorts] \cup
  [key : {"price_collar_enabled"}, kind : {"bool"}, value : BOOLEAN]

(* The lexemes of an entry. *)
Written(entry) ==
  <<[lex |-> "quoted", is |-> entry.key], [lex |-> "colon", is |-> ""], [lex |-> "blank", is |-> ""]>> \o
  (IF entry.kind = "string" THEN <<[lex |-> "quoted", is |-> entry.value]>>
   ELSE <<[lex |-> entry.kind, is |-> entry.value]>>)
Content == FlattenSeq([i \in DOMAIN fileEntries |-> Written(fileEntries[i])])

(* std::string::find() from a position on; Len + 1 for npos. *)
FindFrom(content, pos, Matches(_)) ==
  Min({i \in pos..Len(content) : Matches(content[i])} \cup {Len(content) + 1})

FindKey(content, key) == FindFrom(content, 1, LAMBDA x : x.lex = "quoted" /\ x.is = key)
AfterColon(content, key) == FindFrom(content, FindKey(content, key), LAMBDA x : x.lex = "colon")

ExtractString(content, key) ==
  IF FindKey(content, key) > Len(content) THEN ""
  ELSE content[FindFrom(content, AfterColon(content, key), LAMBDA x : x.lex = "quoted")].is

ExtractBool(content, key) ==
  /\ FindKey(content, key) <= Len(content)
  /\ FindFrom(content, AfterColon(content, key), LAMBDA x : x.lex = "bool" /\ x.is = TRUE) <
     FindFrom(content, AfterColon(content, key), LAMBDA x : x.lex = "bool" /\ x.is = FALSE)

ExtractNumber(content, key) ==
  IF FindKey(content, key) > Len(content) THEN 0
  ELSE content[FindFrom(content, AfterColon(content, key), LAMBDA x : x.lex \notin {"colon", "blank"})].is

ValidatePortRange(port) == port >= MinPort

(* parse(), then the schema, the values and the dependencies; the symbols are built in. *)
LoadFromFile(content) ==
  LET name == ExtractString(content, "name")
      tcp == ExtractNumber(content, "tcp_port")
      udp == ExtractNumber(content, "udp_port")
  IN [loads |-> name # "" /\ ValidatePortRange(tcp) /\ ValidatePortRange(udp) /\ tcp # udp,
      name |-> name, tcp |-> tcp, udp |-> udp, collar |-> ExtractBool(content, "price_collar_enabled")]

-----------------------------------------------------------------------------
TextInit == typed = <<>> /\ fileEntries = <<>>

Type(c) == fileEntries = <<>> /\ Len(typed) < MaxText /\ typed' = Append(typed, c) /\ UNCHANGED fileEntries

WriteEntry(entry) ==
  typed = <<>> /\ Len(fileEntries) < MaxEntries /\ fileEntries' = Append(fileEntries, entry) /\ UNCHANGED typed

TextNext == (\E c \in Characters : Type(c)) \/ (\E e \in FileEntry : WriteEntry(e))

-----------------------------------------------------------------------------
Squeezed(chars) ==
  /\ "nl" \notin Range(chars) /\ \A i \in 1..(Len(chars) - 1) : ~(chars[i] = " " /\ chars[i + 1] = " ")
  /\ chars # <<>> => Head(chars) # " " /\ Last(chars) # " "

(***************************************************************************)
(* The sanitizers, for every text: a symbol keeps its first letters and    *)
(* digits wherever they stand, and cleaning it again changes nothing, so   *)
(* an order that passed once passes again unchanged and its cancel passes  *)
(* too; network input loses controls and surplus blanks, every character   *)
(* to be escaped follows a backslash, and nothing else is lost; log text   *)
(* stays on one line.                                                      *)
(***************************************************************************)
SanitizersExact ==
  LET clean == SanitizeSymbol(typed)
      letters == SelectSeq(typed, LAMBDA c : c \in Alnum)
      net == SanitizeNetworkInput(typed)
      kept == {"A", "a", "1", "_", ";"}
  IN /\ Len(clean) = Min({Len(letters), SymbolMax}) /\ SanitizeSymbol(clean) = clean
     /\ letters # <<>> =>
          /\ \A order \in NewOrders :
               SanitizeNewOrder(order, typed).accepted => SanitizeNewOrder(order, clean) = SanitizeNewOrder(order, typed)
          /\ SanitizeCancel(typed) = "accepted" <=> \E order \in NewOrders : SanitizeNewOrder(order, typed).accepted
     /\ SanitizeClientId(SanitizeClientId(typed)) = SanitizeClientId(typed)
     /\ Squeezed(net) /\ IsSafeString(net)
     /\ \A i \in DOMAIN net : net[i] = ";" => i > 1 /\ net[i - 1] = "bs"
     /\ Len(typed) <= NetworkMax => SelectSeq(net, LAMBDA c : c \in kept) = SelectSeq(typed, LAMBDA c : c \in kept)
     /\ \A i \in DOMAIN SanitizeLogInput(typed) : SanitizeLogInput(typed)[i] = "nl" => SanitizeLogInput(typed)[i - 1] = "bs"

(* The value of the first entry with the key, or a default. *)
FirstOf(key, default) ==
  LET found == SelectSeq(fileEntries, LAMBDA e : e.key = key) IN IF found = <<>> THEN default ELSE found[1].value

(***************************************************************************)
(* Config::load_from_file(): the parser searches the whole text for a key; *)
(* in whatever order the entries stand, and however often, each field gets *)
(* the value written for it first, and the file loads exactly when the     *)
(* values written for the required fields are valid.                       *)
(***************************************************************************)
ParsedAsWritten ==
  LET parsed == LoadFromFile(Content)
  IN /\ parsed.name = FirstOf("name", "") /\ parsed.collar = FirstOf("price_collar_enabled", FALSE)
     /\ parsed.tcp = FirstOf("tcp_port", 0) /\ parsed.udp = FirstOf("udp_port", 0)
     /\ parsed.loads <=> (parsed.name # "" /\ parsed.tcp # parsed.udp /\ {parsed.tcp, parsed.udp} \cap 0..(MinPort - 1) = {})

=============================================================================
