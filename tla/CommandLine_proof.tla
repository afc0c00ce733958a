------------------------- MODULE CommandLine_proof -------------------------
(***************************************************************************)
(* Proofs about CommandLine for a line of any length and any options.       *)
(***************************************************************************)
EXTENDS CommandLine, SequenceTheorems, TLAPS

Places == 0..(MaxLine - 1)
Line == Words \cup {Null}

\* NULL is asked for once, as the last word of an operation; until then the
\* words on the line are words.
LineShape ==
    /\ \A i \in 1..Len(asked) :
         asked[i] = Null => i = Len(asked) /\ pc \in {"compose", "exec"}
    /\ pc \in {"compose", "exec"} => Len(asked) # 0 /\ asked[Len(asked)] = Null
    /\ pc = "exec" => added = Len(asked)
    /\ line[0] # Null
    /\ pc \in {"update", "compose", "exec"} => line[1] # Null
    /\ past.dropped => offset < added + 2

LineInv == TypeOK /\ LineFaithful /\ LineShape

----------------------------------------------------------------------------
(* The words that the operations add.                                       *)

\* Each piece of an operation's line is a sequence of words.
LEMMA OperationWords ==
  ASSUME NEW o \in Operations, NEW n \in Nat
  PROVE  /\ WordsOf(o, n) \in Seq(Words)
         /\ OverrideWords \o InChroot \in Seq(Words)
  <1>0. OwnWords \subseteq Words
    BY DEF Words
  <1>1. \A w \in OwnWords : Given(w) \in Seq(Words) /\ Flag(w) \in Seq(Words)
    BY <1>0 DEF Given, Flag, OwnWords
  <1>2. InChroot \in Seq(Words)
    BY <1>0 DEF InChroot, OwnWords
  <1>3. BuildWords \in Seq(Words)
    <2>1. Given("--buildresult") \in Seq(Words) /\ Given("--debbuildopts") \in Seq(Words)
          /\ Flag("--binary-arch") \in Seq(Words)
      BY <1>1 DEF OwnWords
    <2>2. <<"argument">> \in Seq(Words)
      BY <1>0 DEF OwnWords
    <2> QED BY <1>2, <2>1, <2>2, ConcatProperties DEF BuildWords
  <1>4. CreateWords \in Seq(Words)
    <2>1. Given("--mirror") \in Seq(Words) /\ Given("--architecture") \in Seq(Words)
      BY <1>1 DEF OwnWords
    <2>2. <<"--distribution", "value", "--no-targz", "--extrapackages", "cowdancer">>
             \in Seq(Words)
      BY <1>0 DEF OwnWords
    <2> QED BY <2>1, <2>2, ConcatProperties DEF CreateWords
  <1>5. ExecuteWords(n) \in Seq(Words)
    <2>1. [i \in 1..n |-> "argument"] \in Seq(Words)
      <3>1. "argument" \in Words
        BY <1>0 DEF OwnWords
      <3> QED BY <3>1
    <2> QED BY <1>2, <2>1, ConcatProperties DEF ExecuteWords
  <1>6. <<"--buildplace", "value">> \in Seq(Words) /\ <<>> \in Seq(Words)
    BY <1>0 DEF OwnWords
  <1>7. WordsOf(o, n) \in Seq(Words)
    <2> DEFINE rest == IF o = "build" THEN BuildWords
                       ELSE IF o = "create" THEN CreateWords
                       ELSE IF o = "login" THEN InChroot
                       ELSE IF o = "execute" THEN ExecuteWords(n) ELSE <<>>
    <2>1. rest \in Seq(Words)
      BY <1>2, <1>3, <1>4, <1>5, <1>6
    <2>2. WordsOf(o, n) = <<"--buildplace", "value">> \o rest
      BY DEF WordsOf
    <2> QED BY <1>6, <2>1, <2>2, ConcatProperties
  <1>8. OverrideWords \in Seq(Words)
    <2>1. Given("--mirror") \in Seq(Words)
      BY <1>1 DEF OwnWords
    <2>2. <<"--distribution", "value">> \in Seq(Words)
      BY <1>0 DEF OwnWords
    <2> QED BY <1>6, <2>1, <2>2, ConcatProperties DEF OverrideWords
  <1> QED BY <1>2, <1>7, <1>8, ConcatProperties

----------------------------------------------------------------------------
(* The line under each kind of step.                                        *)

\* Asking for more words changes nothing of the line.
LEMMA AskKeepsLine ==
  ASSUME LineInv, NEW ws \in Seq(Line), asked' = asked \o ws,
         UNCHANGED <<offset, added>>, past'.dropped = past.dropped,
         \A i \in 2..(MaxLine - 1) : line'[i] = line[i]
  PROVE  /\ asked' \in Seq(Line) /\ Len(asked') = Len(asked) + Len(ws)
         /\ \A i \in 1..Len(asked') : asked'[i] = IF i <= Len(asked) THEN asked[i]
                                                  ELSE ws[i - Len(asked)]
         /\ added' \in 0..Len(asked')
         /\ LineFaithful'
         /\ past'.dropped => offset' < added' + 2
  <1>0. asked \in Seq(Line) /\ added \in 0..Len(asked) /\ offset \in 2..(MaxLine - 1)
    BY DEF LineInv, TypeOK, Line
  <1>1. /\ asked' \in Seq(Line) /\ Len(asked') = Len(asked) + Len(ws)
        /\ \A i \in 1..Len(asked') : asked'[i] = IF i <= Len(asked) THEN asked[i]
                                                 ELSE ws[i - Len(asked)]
    BY <1>0, ConcatProperties
  <1>2. Len(asked) \in Nat /\ Len(ws) \in Nat
    BY <1>0, LenProperties
  <1>3. offset <= added + 2
    BY <1>0 DEF LineInv, LineFaithful, LineShape
  <1>4. \A i \in 2..(MaxLine - 1) : i < offset => asked'[i - 1] = asked[i - 1]
    BY <1>0, <1>1, <1>2, <1>3, LineAssumption
  <1>5. LineFaithful'
    BY <1>0, <1>4, LineAssumption DEF LineInv, LineFaithful
  <1>6. past'.dropped => offset' < added' + 2
    BY DEF LineInv, LineShape
  <1> QED BY <1>0, <1>1, <1>2, <1>5, <1>6

\* An option that hands on words, or none, and lets parsing go on or ends it.
LEMMA OptionKeepsShape ==
  ASSUME LineInv, NEW ws \in Seq(Words), asked' = asked \o ws,
         UNCHANGED <<line, offset, added>>, past'.dropped = past.dropped,
         pc \notin {"compose", "exec"}, pc' \notin {"compose", "exec"},
         pc' = "update" => line[1] # Null
  PROVE  LineFaithful' /\ LineShape' /\ asked' \in Seq(Line) /\ added' \in 0..Len(asked')
  <1>0. asked \in Seq(Line) /\ Len(asked) \in Nat /\ Len(ws) \in Nat
    BY LenProperties DEF LineInv, TypeOK, Line
  <1>1. ws \in Seq(Line)
    BY DEF Line
  <1>2. /\ LineFaithful' /\ asked' \in Seq(Line) /\ added' \in 0..Len(asked')
        /\ Len(asked') = Len(asked) + Len(ws)
        /\ \A i \in 1..Len(asked') : asked'[i] = IF i <= Len(asked) THEN asked[i]
                                                 ELSE ws[i - Len(asked)]
        /\ past'.dropped => offset' < added' + 2
    BY <1>1, AskKeepsLine
  <1>3. \A i \in 1..Len(asked) : asked[i] # Null
    BY DEF LineInv, LineShape
  <1>4. \A i \in 1..Len(ws) : ws[i] # Null
    BY NullAssumption, ElementOfSeq
  <1>5. \A i \in 1..Len(asked') : asked'[i] # Null
    BY <1>0, <1>2, <1>3, <1>4
  <1> QED BY <1>2, <1>5 DEF LineInv, LineShape

\* The last words of an operation, and the NULL.
LEMMA LastWordsKeepShape ==
  ASSUME LineInv, NEW ws \in Seq(Words), asked' = asked \o (ws \o <<Null>>),
         UNCHANGED <<offset, added>>, past'.dropped = past.dropped,
         pc \notin {"compose", "exec"}, pc' = "compose",
         \A i \in Places \ {1} : line'[i] = line[i], line'[1] # Null
  PROVE  LineFaithful' /\ LineShape' /\ asked' \in Seq(Line) /\ added' \in 0..Len(asked')
  <1> DEFINE all == ws \o <<Null>>
  <1>0. asked \in Seq(Line) /\ Len(asked) \in Nat /\ Len(ws) \in Nat
    BY LenProperties DEF LineInv, TypeOK, Line
  <1>1. /\ all \in Seq(Line) /\ Len(all) = Len(ws) + 1
        /\ \A i \in 1..Len(ws) : all[i] = ws[i]
        /\ all[Len(ws) + 1] = Null
    BY <1>0 DEF Line
  <1>2. \A i \in 2..(MaxLine - 1) : line'[i] = line[i]
    BY LineAssumption DEF Places
  <1>3. /\ LineFaithful' /\ asked' \in Seq(Line) /\ added' \in 0..Len(asked')
        /\ Len(asked') = Len(asked) + Len(all)
        /\ \A i \in 1..Len(asked') : asked'[i] = IF i <= Len(asked) THEN asked[i]
                                                 ELSE all[i - Len(asked)]
        /\ past'.dropped => offset' < added' + 2
    BY <1>1, <1>2, AskKeepsLine
  <1>4. \A i \in 1..Len(asked) : asked[i] # Null
    BY DEF LineInv, LineShape
  <1>5. \A i \in 1..Len(ws) : ws[i] # Null
    BY NullAssumption, ElementOfSeq
  <1>6. /\ \A i \in 1..Len(asked') : asked'[i] = Null => i = Len(asked')
        /\ asked'[Len(asked')] = Null /\ Len(asked') # 0
    <2> HIDE DEF all
    <2>1. Len(asked') = Len(asked) + Len(ws) + 1
      BY <1>0, <1>1, <1>3
    <2>2. asked'[Len(asked')] = Null
      BY <1>0, <1>1, <1>3, <2>1
    <2>3. ASSUME NEW i \in 1..Len(asked'), i # Len(asked')
          PROVE  asked'[i] # Null
      <3>1. i <= Len(asked) => asked'[i] = asked[i] /\ i \in 1..Len(asked)
        BY <1>0, <1>3, <2>3
      <3>2. i > Len(asked) => /\ asked'[i] = all[i - Len(asked)]
                              /\ i - Len(asked) \in 1..Len(ws)
        BY <1>0, <1>3, <2>1, <2>3
      <3> QED BY <1>0, <1>1, <1>4, <1>5, <2>1, <3>1, <3>2
    <2> QED BY <1>0, <2>1, <2>2, <2>3
  <1>7. line'[0] # Null
    BY LineAssumption DEF LineInv, LineShape, Places
  <1> QED BY <1>3, <1>6, <1>7 DEF LineShape

----------------------------------------------------------------------------
(* Every step.                                                              *)

\* The line before the first option.
LEMMA InitLine == Init => LineInv
  <1> SUFFICES ASSUME Init PROVE LineInv
    OBVIOUS
  <1>0. "pbuilder" \in Words /\ MaxLine - 1 >= 2 /\ MaxFiles \in Nat /\ MaxOptions \in Nat
    BY LineAssumption, BoundAssumption DEF Words
  <1>1. TypeOK
    BY <1>0, LineAssumption DEF Init, TypeOK
  <1>2. LineFaithful
    <2>1. offset = 2 /\ added = 0 /\ ~past.dropped
      BY DEF Init
    <2>2. \A i \in 2..(MaxLine - 1) : line[i] = Null
      BY LineAssumption DEF Init
    <2> QED BY <2>1, <2>2 DEF LineFaithful
  <1>3. LineShape
    BY <1>0, LineAssumption, NullAssumption DEF Init, LineShape
  <1> QED BY <1>1, <1>2, <1>3 DEF LineInv

\* A word finds a place.
LEMMA AddWordLine ==
  ASSUME LineInv, AddWord
  PROVE  LineInv'
  <1>0. /\ asked \in Seq(Line) /\ Len(asked) \in Nat /\ added \in 0..Len(asked)
        /\ offset \in 2..(MaxLine - 1) /\ offset < MaxLine - 1
        /\ line \in [Places -> Line] /\ MaxLine \in Nat /\ MaxLine >= 3
    BY LineAssumption, LenProperties DEF LineInv, TypeOK, Line, Places, AddWord, HasRoom
  <1>1. ~past.dropped /\ offset = added + 2
    BY <1>0 DEF LineInv, LineFaithful
  <1>2. asked[added + 1] \in Line /\ added + 1 \in 1..Len(asked)
    BY <1>0, ElementOfSeq DEF AddWord
  <1>3. /\ line' = [line EXCEPT ![offset] = asked[added + 1]]
        /\ offset' = offset + 1 /\ added' = added + 1
        /\ UNCHANGED <<pc, asked, config_ok, fields, inputfile, status, options, past>>
    BY DEF AddWord
  <1>4. TypeOK'
    <2>1. line' \in [0..(MaxLine - 1) -> Words \cup {Null}]
      BY <1>0, <1>2, <1>3 DEF Places, Line
    <2>2. offset' \in 2..(MaxLine - 1) /\ added' \in 0..Len(asked')
      BY <1>0, <1>2, <1>3
    <2> QED BY <1>3, <2>1, <2>2 DEF LineInv, TypeOK
  <1>5. LineFaithful'
    <2>1. \A i \in 2..(MaxLine - 1) :
             line'[i] = IF i = offset THEN asked[added + 1] ELSE line[i]
      BY <1>0, <1>3 DEF Places
    <2>2. offset' = added' + 2 /\ ~past'.dropped
      BY <1>0, <1>1, <1>3
    <2>3. \A i \in 2..(MaxLine - 1) : line[i] = IF i < offset THEN asked[i - 1] ELSE Null
      BY DEF LineInv, LineFaithful
    <2>4. \A i \in 2..(MaxLine - 1) :
             line'[i] = IF i < offset' THEN asked'[i - 1] ELSE Null
      BY <1>0, <1>1, <1>3, <2>1, <2>3
    <2> QED BY <2>2, <2>4 DEF LineFaithful
  <1>6. LineShape'
    <2>1. line'[0] = line[0] /\ line'[1] = line[1]
      BY <1>0, <1>3 DEF Places
    <2>2. pc = "exec" => added = Len(asked)
      BY DEF LineInv, LineShape
    <2>3. pc # "exec"
      BY <1>0, <2>2 DEF AddWord
    <2> QED BY <1>0, <1>1, <1>3, <2>1, <2>3 DEF LineInv, LineShape
  <1> QED BY <1>4, <1>5, <1>6 DEF LineInv

\* A word finds none.
LEMMA DropWordLine ==
  ASSUME LineInv, DropWord
  PROVE  LineInv'
  <1>0. /\ asked \in Seq(Line) /\ Len(asked) \in Nat /\ added \in 0..Len(asked)
        /\ offset = MaxLine - 1 /\ added < Len(asked)
        /\ line \in [Places -> Line] /\ MaxLine \in Nat /\ MaxLine >= 3
    BY LineAssumption, LenProperties DEF LineInv, TypeOK, Line, Places, DropWord, HasRoom
  <1>1. /\ line' = [line EXCEPT ![offset] = Null] /\ added' = added + 1
        /\ past' = [past EXCEPT !.dropped = TRUE]
        /\ UNCHANGED <<pc, offset, asked, config_ok, fields, inputfile, status, options>>
    BY DEF DropWord, PlaceOfNull
  <1>2. past' \in [loads : SUBSET {-1, 0, 1, 2}, inputs : Seq(Files),
                   output : BOOLEAN, dropped : BOOLEAN] /\ past'.dropped
    BY <1>1 DEF LineInv, TypeOK
  <1>3. line' = line
    <2>1. line[offset] = Null
      BY <1>0 DEF LineInv, LineFaithful
    <2> QED BY <1>0, <1>1, <2>1 DEF Places
  <1>4. TypeOK'
    <2>1. added' \in 0..Len(asked')
      BY <1>0, <1>1
    <2> QED BY <1>1, <1>2, <1>3, <2>1 DEF LineInv, TypeOK
  <1>5. LineFaithful'
    BY <1>0, <1>1, <1>2, <1>3 DEF LineInv, LineFaithful
  <1>6. LineShape'
    <2>1. offset <= added + 2
      BY <1>0 DEF LineInv, LineFaithful, LineShape
    <2>2. pc # "exec"
      BY <1>0 DEF LineInv, LineShape
    <2> QED BY <1>0, <1>1, <1>2, <1>3, <2>1, <2>2 DEF LineInv, LineShape
  <1> QED BY <1>4, <1>5, <1>6 DEF LineInv

Parsing == {"usr", "etc", "home", "options"}
Past == [loads : SUBSET {-1, 0, 1, 2}, inputs : Seq(Files),
         output : BOOLEAN, dropped : BOOLEAN]

\* A step of parse_parameter that hands on the words ws and keeps its types.
LEMMA ParsingKeepsLine ==
  ASSUME LineInv, NEW ws \in Seq(Words), asked' = asked \o ws,
         UNCHANGED <<line, offset, added>>,
         pc \in Parsing, pc' \in Parsing \cup {"exit"},
         config_ok' \in {-1, 0, 1},
         fields' \in [operation : Operations \cup {Null}, set : SUBSET Fields],
         inputfile' \in [0..MaxFiles -> Files \cup {Null}],
         status' \in {0, 1, 2, 3, 4, 5, 6, Abort},
         options' \in 0..MaxOptions,
         past' \in Past, past'.dropped = past.dropped
  PROVE  LineInv'
  <1>1. pc \notin {"compose", "exec"} /\ pc' \notin {"compose", "exec", "update"}
    BY DEF Parsing
  <1>2. LineFaithful' /\ LineShape' /\ asked' \in Seq(Line) /\ added' \in 0..Len(asked')
    BY <1>1, OptionKeepsShape
  <1>3. TypeOK'
    BY <1>2 DEF LineInv, TypeOK, Line, Past, Parsing
  <1> QED BY <1>2, <1>3 DEF LineInv

\* The same when there are none.
LEMMA ParsingWithoutWords ==
  ASSUME LineInv, UNCHANGED <<asked, line, offset, added>>,
         pc \in Parsing, pc' \in Parsing \cup {"exit"},
         config_ok' \in {-1, 0, 1},
         fields' \in [operation : Operations \cup {Null}, set : SUBSET Fields],
         inputfile' \in [0..MaxFiles -> Files \cup {Null}],
         status' \in {0, 1, 2, 3, 4, 5, 6, Abort},
         options' \in 0..MaxOptions,
         past' \in Past, past'.dropped = past.dropped
  PROVE  LineInv'
  <1>1. asked' = asked \o <<>>
    BY ConcatEmptySeq DEF LineInv, TypeOK
  <1>2. <<>> \in Seq(Words)
    OBVIOUS
  <1> QED BY <1>1, <1>2, ParsingKeepsLine

\* What the option steps share.
LEMMA OptionFacts ==
  ASSUME LineInv, NextOption
  PROVE  /\ pc \in Parsing /\ "exit" \in Parsing \cup {"exit"}
         /\ options' \in 0..MaxOptions /\ UNCHANGED <<line, offset, added>>
         /\ config_ok \in {-1, 0, 1}
         /\ fields \in [operation : Operations \cup {Null}, set : SUBSET Fields]
         /\ inputfile \in [0..MaxFiles -> Files \cup {Null}]
         /\ status \in {0, 1, 2, 3, 4, 5, 6, Abort}
         /\ past \in Past
  <1>1. options \in 0..MaxOptions /\ options < MaxOptions /\ options' = options + 1
    BY DEF LineInv, TypeOK, NextOption
  <1>2. MaxOptions \in Nat
    BY BoundAssumption
  <1>3. options' \in 0..MaxOptions
    BY <1>1, <1>2
  <1> QED BY <1>3 DEF LineInv, TypeOK, NextOption, Parsing, Past

\* The three standard files.
LEMMA LoadStandardLine ==
  ASSUME LineInv, NEW r \in {-1, 0, 1, 2}, NEW sets \in Configured, LoadStandard(r, sets)
  PROVE  LineInv'
  <1>1. /\ pc \in {"usr", "etc", "home"} /\ pc \in Parsing
        /\ UNCHANGED <<line, offset, asked, added, inputfile, options>>
        /\ Loaded(r, IF r = 0 THEN sets ELSE {})
    BY DEF LoadStandard, AfterFile, Parsing
  <1>2. sets \subseteq Fields
    BY FieldAssumption
  <1>3. /\ fields' \in [operation : Operations \cup {Null}, set : SUBSET Fields]
        /\ past' \in Past /\ past'.dropped = past.dropped
    BY <1>1, <1>2 DEF Loaded, LineInv, TypeOK, Past
  <1>4. /\ pc' \in Parsing \cup {"exit"} /\ config_ok' \in {-1, 0, 1}
        /\ status' \in {0, 1, 2, 3, 4, 5, 6, Abort}
    BY <1>1 DEF LoadStandard, Exit, Decide, AfterFile, BrokenStatus, Parsing, LineInv, TypeOK
  <1>5. inputfile' \in [0..MaxFiles -> Files \cup {Null}] /\ options' \in 0..MaxOptions
    BY <1>1 DEF LineInv, TypeOK
  <1> QED BY <1>1, <1>3, <1>4, <1>5, ParsingWithoutWords

\* --configfile
LEMMA ConfigFileLine ==
  ASSUME LineInv, NEW r \in {-1, 0, 1, 2}, NEW sets \in Configured, ConfigFile(r, sets)
  PROVE  LineInv'
  <1>0. NextOption /\ Loaded(r, IF r = 0 THEN sets ELSE {}) /\ UNCHANGED inputfile
    BY DEF ConfigFile
  <1>2. sets \subseteq Fields
    BY FieldAssumption
  <1>3. /\ fields' \in [operation : Operations \cup {Null}, set : SUBSET Fields]
        /\ past' \in Past /\ past'.dropped = past.dropped
    BY <1>0, <1>2 DEF Loaded, LineInv, TypeOK, Past
  <1>4. CASE r > 1
    <2>1. pc' = "exit" /\ status' = 5 /\ UNCHANGED <<asked, config_ok>>
      BY <1>4 DEF ConfigFile, Exit
    <2> QED BY <1>0, <1>3, <2>1, OptionFacts, ParsingWithoutWords
  <1>5. CASE ~(r > 1)
    <2>1. /\ config_ok' \in {-1, 0, 1} /\ UNCHANGED <<pc, status>>
          /\ asked' = asked \o <<"--configfile", "value">>
      BY <1>5 DEF ConfigFile, AddParams, Decide, LineInv, TypeOK
    <2>2. <<"--configfile", "value">> \in Seq(Words)
      BY DEF Words, OwnWords
    <2> QED BY <1>0, <1>3, <2>1, <2>2, OptionFacts, ParsingKeepsLine
  <1> QED BY <1>4, <1>5

\* Options that hand on nothing.
LEMMA QuietOptionLine ==
  ASSUME LineInv,
         \/ \E o \in Operations : SetOperation(o)
         \/ \E fails \in BOOLEAN : BasePath(fails)
         \/ BuildPlace
         \/ \E o \in Settings \ (PairOptions \cup WordOptions) : KeepSetting(o)
         \/ \E f \in Files : OutputFile(f)
         \/ Unhandled
  PROVE  LineInv'
  <1>0. NextOption /\ UNCHANGED <<asked, config_ok>>
    BY DEF SetOperation, BasePath, BuildPlace, KeepSetting, OutputFile, Unhandled
  <1>1. Fields = Settings \cup {"buildplace", "basepath"}
    BY DEF Fields
  <1>2. fields' \in [operation : Operations \cup {Null}, set : SUBSET Fields]
    BY <1>0, <1>1, OptionFacts
    DEF SetOperation, BasePath, BuildPlace, KeepSetting, OutputFile, Unhandled
  <1>3. /\ pc' \in Parsing \cup {"exit"}
        /\ status' \in {0, 1, 2, 3, 4, 5, 6, Abort}
    BY <1>0, OptionFacts
    DEF SetOperation, BasePath, BuildPlace, KeepSetting, OutputFile, Unhandled, Exit
  <1>4. inputfile' \in [0..MaxFiles -> Files \cup {Null}]
    BY <1>0, OptionFacts
    DEF SetOperation, BasePath, BuildPlace, KeepSetting, OutputFile, Unhandled
  <1>5. past' \in Past /\ past'.dropped = past.dropped
    <2>1. CASE UNCHANGED past
      BY <1>0, <2>1, OptionFacts
    <2>2. CASE past' = [past EXCEPT !.output = TRUE]
      BY <1>0, <2>2, OptionFacts DEF Past
    <2> QED BY <2>1, <2>2
            DEF SetOperation, BasePath, BuildPlace, KeepSetting, OutputFile, Unhandled
  <1> QED BY <1>0, <1>2, <1>3, <1>4, <1>5, OptionFacts, ParsingWithoutWords

\* Options that are passed on.
LEMMA PassedOptionLine ==
  ASSUME LineInv,
         \/ \E o \in PairOptions : PassPair(o)
         \/ \E o \in WordOptions : PassWord(o)
  PROVE  LineInv'
  <1>0. NextOption /\ UNCHANGED <<pc, config_ok, inputfile, status, past>>
    BY DEF PassPair, PassWord
  <1>1. fields' \in [operation : Operations \cup {Null}, set : SUBSET Fields]
    BY <1>0, OptionFacts DEF PassPair, PassWord, Fields
  <1>2. PICK ws \in Seq(Words) : asked' = asked \o ws
    <2>1. "value" \in Words /\ PairOptions \subseteq Words /\ WordOptions \subseteq Words
      BY DEF Words, OwnWords
    <2>2. ASSUME NEW o \in PairOptions, PassPair(o)
          PROVE  \E ws \in Seq(Words) : asked' = asked \o ws
      <3>1. <<o, "value">> \in Seq(Words) /\ asked' = asked \o <<o, "value">>
        BY <2>1, <2>2 DEF PassPair, AddParams
      <3> QED BY <3>1
    <2>3. ASSUME NEW o \in WordOptions, PassWord(o)
          PROVE  \E ws \in Seq(Words) : asked' = asked \o ws
      <3>1. <<o>> \in Seq(Words) /\ asked' = asked \o <<o>>
        BY <2>1, <2>3 DEF PassWord, AddParams
      <3> QED BY <3>1
    <2> QED BY <2>2, <2>3
  <1> QED BY <1>0, <1>1, <1>2, OptionFacts, ParsingKeepsLine

\* --inputfile
LEMMA InputFileLine ==
  ASSUME LineInv, NEW f \in Files, InputFile(f)
  PROVE  LineInv'
  <1>0. /\ NextOption /\ UNCHANGED <<config_ok, fields>>
        /\ inputfile' = [inputfile EXCEPT ![size_of_ntarray(inputfile)] = f]
        /\ past' = [past EXCEPT !.inputs = Append(@, f)]
    BY DEF InputFile
  <1>1. inputfile' \in [0..MaxFiles -> Files \cup {Null}]
    BY <1>0, OptionFacts
  <1>2. past' \in Past /\ past'.dropped = past.dropped
    <2>1. past \in Past /\ past.inputs \in Seq(Files)
      BY <1>0, OptionFacts DEF Past
    <2>2. Append(past.inputs, f) \in Seq(Files)
      BY <2>1, AppendProperties
    <2> QED BY <1>0, <2>1, <2>2 DEF Past
  <1>3. CASE asked' = asked /\ pc' = "exit" /\ status' = Abort
    BY <1>0, <1>1, <1>2, <1>3, OptionFacts, ParsingWithoutWords
  <1>4. CASE asked' = asked \o <<"--inputfile", f>> /\ UNCHANGED <<pc, status>>
    <2>1. <<"--inputfile", f>> \in Seq(Words)
      BY DEF Words, OwnWords
    <2> QED BY <1>0, <1>1, <1>2, <1>4, <2>1, OptionFacts, ParsingKeepsLine
  <1> QED BY <1>3, <1>4 DEF InputFile, Exit, AddParams

\* The words of an operation follow those of the options.
LEMMA DispatchLine ==
  ASSUME LineInv, NEW n \in 0..MaxArgs, Dispatch(n)
  PROVE  LineInv'
  <1> DEFINE o == fields.operation
  <1>0. /\ pc = "options" /\ pc \in Parsing /\ n \in Nat
        /\ UNCHANGED <<offset, added, config_ok, fields, inputfile, options, past>>
    BY BoundAssumption DEF Dispatch, Parsing
  <1>1. /\ config_ok' \in {-1, 0, 1} /\ past' \in Past /\ past'.dropped = past.dropped
        /\ fields' \in [operation : Operations \cup {Null}, set : SUBSET Fields]
        /\ inputfile' \in [0..MaxFiles -> Files \cup {Null}]
        /\ options' \in 0..MaxOptions
    BY <1>0 DEF LineInv, TypeOK, Past
  <1>2. CASE pc' = "exit" /\ status' \in {0, 1, 6} /\ UNCHANGED <<line, asked>>
    BY <1>0, <1>1, <1>2, ParsingWithoutWords
  <1>3. ASSUME Composes(o), line' = [line EXCEPT ![1] = o], UNCHANGED status,
               IF o = "update"
               THEN AddParams(WordsOf(o, n)) /\ pc' = "update"
               ELSE AddParams(WordsOf(o, n) \o <<Null>>) /\ pc' = "compose"
        PROVE  LineInv'
    <2>1. o \in Operations /\ o # Null
      BY <1>3, NullAssumption DEF Composes, Operations, Words
    <2>2. line \in [Places -> Line] /\ o \in Line /\ 1 \in Places /\ 0 \in Places
      BY <2>1, LineAssumption DEF LineInv, TypeOK, Places, Line, Words
    <2>3. /\ line' \in [Places -> Line] /\ line'[1] # Null
          /\ \A i \in Places \ {1} : line'[i] = line[i]
      BY <1>3, <2>1, <2>2
    <2>4. WordsOf(o, n) \in Seq(Words)
      BY <1>0, <2>1, OperationWords
    <2>5. /\ LineFaithful' /\ LineShape'
          /\ asked' \in Seq(Line) /\ added' \in 0..Len(asked')
      <3>1. CASE o = "update"
        <4>1. asked' = asked \o WordsOf(o, n) /\ pc' = "update"
          BY <1>3, <3>1 DEF AddParams
        <4>2. \A i \in 2..(MaxLine - 1) : line'[i] = line[i]
          BY <2>3, LineAssumption DEF Places
        <4>3. WordsOf(o, n) \in Seq(Line) /\ Len(WordsOf(o, n)) \in Nat
              /\ asked \in Seq(Line) /\ Len(asked) \in Nat
          BY <2>4, LenProperties DEF Line, LineInv, TypeOK
        <4>4. /\ LineFaithful' /\ asked' \in Seq(Line) /\ added' \in 0..Len(asked')
              /\ Len(asked') = Len(asked) + Len(WordsOf(o, n))
              /\ \A i \in 1..Len(asked') : asked'[i] = IF i <= Len(asked) THEN asked[i]
                                                ELSE WordsOf(o, n)[i - Len(asked)]
              /\ past'.dropped => offset' < added' + 2
          BY <1>0, <4>1, <4>2, <4>3, AskKeepsLine
        <4>5. \A i \in 1..Len(asked) : asked[i] # Null
          BY <1>0 DEF LineInv, LineShape
        <4>6. \A i \in 1..Len(WordsOf(o, n)) : WordsOf(o, n)[i] # Null
          BY <2>4, NullAssumption, ElementOfSeq
        <4>7. \A i \in 1..Len(asked') : asked'[i] # Null
          <5> DEFINE ws == WordsOf(o, n)
          <5>0. /\ Len(asked') = Len(asked) + Len(ws) /\ Len(ws) \in Nat /\ Len(asked) \in Nat
                /\ \A i \in 1..Len(asked') : asked'[i] = IF i <= Len(asked) THEN asked[i]
                                                  ELSE ws[i - Len(asked)]
                /\ \A i \in 1..Len(ws) : ws[i] # Null
            BY <4>3, <4>4, <4>6
          <5> HIDE DEF ws
          <5> SUFFICES ASSUME NEW i \in 1..Len(asked') PROVE asked'[i] # Null
            OBVIOUS
          <5>1. CASE i <= Len(asked)
            BY <4>5, <5>0, <5>1
          <5>2. CASE ~(i <= Len(asked))
            <6>1. i - Len(asked) \in 1..Len(ws)
              BY <5>0, <5>2
            <6> QED BY <5>0, <5>2, <6>1
          <5> QED BY <5>1, <5>2
        <4>8. line'[0] # Null
          BY <2>2, <2>3 DEF LineInv, LineShape
        <4> QED BY <2>3, <4>1, <4>4, <4>7, <4>8 DEF LineShape
      <3>2. CASE o # "update"
        <4>1. asked' = asked \o (WordsOf(o, n) \o <<Null>>) /\ pc' = "compose"
          BY <1>3, <3>2 DEF AddParams
        <4> QED BY <1>0, <2>3, <2>4, <4>1, LastWordsKeepShape
      <3> QED BY <3>1, <3>2
    <2>6. TypeOK'
      <3>1. pc' \in {"update", "compose"} /\ status' \in {0, 1, 2, 3, 4, 5, 6, Abort}
        BY <1>3 DEF LineInv, TypeOK
      <3> QED BY <1>0, <1>1, <2>3, <2>5, <3>1 DEF LineInv, TypeOK, Past, Places, Line
    <2> QED BY <2>5, <2>6 DEF LineInv
  <1> QED BY <1>2, <1>3 DEF Dispatch, Exit

\* The rest of update's line.
LEMMA UpdateWordsLine ==
  ASSUME LineInv, UpdateWords
  PROVE  LineInv'
  <1>0. /\ pc = "update" /\ pc' = "compose"
        /\ UNCHANGED <<line, offset, added, config_ok, fields, inputfile, status,
                       options, past>>
        /\ asked' = asked \o ((OverrideWords \o InChroot) \o <<Null>>)
    BY DEF UpdateWords, AddParams
  <1>1. OverrideWords \o InChroot \in Seq(Words)
    BY OperationWords DEF Operations
  <1>2. line'[1] # Null
    BY <1>0 DEF LineInv, LineShape
  <1>3. /\ LineFaithful' /\ LineShape'
        /\ asked' \in Seq(Line) /\ added' \in 0..Len(asked')
    BY <1>0, <1>1, <1>2, LastWordsKeepShape
  <1>4. TypeOK'
    BY <1>0, <1>3 DEF LineInv, TypeOK, Line
  <1> QED BY <1>3, <1>4 DEF LineInv

\* execvp
LEMMA ExecuteLine ==
  ASSUME LineInv, Execute
  PROVE  LineInv'
  <1>1. TypeOK'
    BY DEF Execute, LineInv, TypeOK
  <1>2. LineFaithful'
    BY DEF Execute, LineInv, LineFaithful
  <1>3. LineShape'
    BY DEF Execute, LineInv, LineShape, Ready
  <1> QED BY <1>1, <1>2, <1>3 DEF LineInv

\* Every step keeps the invariant, which so holds always.
LEMMA NextLine ==
  ASSUME LineInv, [Next]_vars
  PROVE  LineInv'
  <1>1. CASE UNCHANGED vars
    BY <1>1 DEF vars, LineInv, TypeOK, LineFaithful, LineShape
  <1> QED BY <1>1, AddWordLine, DropWordLine, LoadStandardLine, ConfigFileLine,
             QuietOptionLine, PassedOptionLine, InputFileLine, DispatchLine,
             UpdateWordsLine, ExecuteLine DEF Next

\* The lengths of the line hold in every state.
LEMMA LineCorrect == Spec => []LineInv
  BY InitLine, NextLine, PTL DEF Spec

\* The types of the line and of what parse_parameter collects; above all that
\* offset stays inside the array, for any size of it and any options.
THEOREM TypeOKCorrect == Spec => []TypeOK
  <1>1. LineInv => TypeOK
    BY DEF LineInv
  <1> QED BY <1>1, LineCorrect, PTL

\* pbuilder is given what was asked for, in order, cut only when a message
\* said so (parameter.h:98-104), for any size of the array and any options.
THEOREM LineFaithfulCorrect == Spec => []LineFaithful
  <1>1. LineInv => LineFaithful
    BY DEF LineInv
  <1> QED BY <1>1, LineCorrect, PTL

\* execvp finds its NULL inside the array and find_matching_param finds none
\* before offset, however many words were asked for (parameter.h:96-106).
THEOREM LineTerminatedCorrect == Spec => []LineTerminated
  <1>1. LineInv => LineTerminated
    <2> SUFFICES ASSUME LineInv PROVE LineTerminated
      OBVIOUS
    <2>0. /\ asked \in Seq(Line) /\ Len(asked) \in Nat /\ added \in 0..Len(asked)
          /\ offset \in 2..(MaxLine - 1) /\ MaxLine \in Nat
      BY LineAssumption, LenProperties DEF LineInv, TypeOK, Line
    <2>1. /\ offset <= added + 2
          /\ past.dropped => offset < added + 2 /\ offset = MaxLine - 1
          /\ ~past.dropped => offset = added + 2
      BY <2>0 DEF LineInv, LineFaithful, LineShape
    <2>2. \A i \in 2..(offset - 1) : line[i] = asked[i - 1] /\ i - 1 \in 1..Len(asked)
      <3>1. \A i \in 2..(offset - 1) : i - 1 \in 1..Len(asked)
        BY <2>0, <2>1
      <3>2. \A i \in 2..(offset - 1) : i \in 2..(MaxLine - 1) /\ i < offset
        BY <2>0
      <3>3. \A i \in 2..(MaxLine - 1) : i < offset => line[i] = asked[i - 1]
        BY DEF LineInv, LineFaithful
      <3> QED BY <3>1, <3>2, <3>3
    <2>3. CASE pc = "update"
      <3>1. line[0] # Null /\ line[1] # Null
        BY <2>3 DEF LineInv, LineShape
      <3>2. \A i \in 2..(offset - 1) : line[i] # Null
        BY <2>2, <2>3 DEF LineInv, LineShape
      <3> QED BY <2>0, <2>3, <3>1, <3>2 DEF LineTerminated
    <2>4. CASE pc = "exec"
      <3>0. /\ line[0] # Null /\ line[1] # Null /\ added = Len(asked)
            /\ Len(asked) # 0 /\ asked[Len(asked)] = Null
            /\ \A i \in 1..Len(asked) : asked[i] = Null => i = Len(asked)
        BY <2>4 DEF LineInv, LineShape
      <3>1. CASE past.dropped
        <4>1. line[offset] = Null
          BY <2>0 DEF LineInv, LineFaithful
        <4>2. \A i \in 2..(offset - 1) : line[i] # Null
          BY <2>0, <2>1, <2>2, <3>0, <3>1
        <4>3. \A i \in 0..(offset - 1) : line[i] # Null
          BY <2>0, <3>0, <4>2
        <4> QED BY <2>0, <2>4, <4>1, <4>3 DEF LineTerminated
      <3>2. CASE ~past.dropped
        <4>1. offset = Len(asked) + 2 /\ offset - 1 \in 2..(MaxLine - 1)
          BY <2>0, <2>1, <3>0, <3>2
        <4>2. line[offset - 1] = Null
          BY <2>0, <2>2, <3>0, <4>1
        <4>3. \A i \in 2..(offset - 2) : line[i] # Null
          BY <2>0, <2>2, <3>0, <4>1
        <4>4. \A i \in 0..((offset - 1) - 1) : line[i] # Null
          BY <2>0, <3>0, <4>3
        <4> QED BY <2>4, <4>1, <4>2, <4>4 DEF LineTerminated
      <3> QED BY <3>1, <3>2
    <2> QED BY <2>3, <2>4 DEF LineTerminated
  <1> QED BY <1>1, LineCorrect, PTL

----------------------------------------------------------------------------
(* ConfigurationFound.                                                      *)

\* config_ok is 0 from the first file that was loaded on, whatever the files
\* after it are; a broken one ends the process.
ConfigInv ==
    /\ config_ok = 0 <=> 0 \in past.loads
    /\ 2 \in past.loads => pc = "exit"
    /\ pc \in {"update", "compose", "exec"} => config_ok = 0
    /\ pc = "exit" /\ status = 6 => config_ok # 0

\* What a load does to config_ok, when the file is not broken.
LEMMA DecideConfig ==
  ASSUME LineInv, ConfigInv, NEW r \in {-1, 0, 1, 2}, NEW sets, Loaded(r, sets), Decide(r)
  PROVE  /\ past'.loads = past.loads \cup {r}
         /\ config_ok' = 0 <=> 0 \in past'.loads
  BY DEF Loaded, Decide, ConfigInv, LineInv, TypeOK

\* A step that loads nothing and stays where it is, or exits with another status.
LEMMA QuietConfig ==
  ASSUME ConfigInv, past'.loads = past.loads, config_ok' = config_ok,
         \/ pc' = pc /\ status' = status
         \/ pc' = "exit" /\ status' # 6
  PROVE  ConfigInv'
  BY DEF ConfigInv

\* The loads of the three standard files and of --configfile.
LEMMA LoadConfig ==
  ASSUME LineInv, ConfigInv, NEW r \in {-1, 0, 1, 2}, NEW sets \in Configured,
         LoadStandard(r, sets) \/ ConfigFile(r, sets)
  PROVE  ConfigInv'
  <1>0. /\ Loaded(r, IF r = 0 THEN sets ELSE {})
        /\ pc \in {"usr", "etc", "home", "options"}
    BY DEF LoadStandard, ConfigFile, NextOption, AfterFile
  <1>1. past'.loads = past.loads \cup {r}
    BY <1>0 DEF Loaded, LineInv, TypeOK
  <1>2. CASE r > 1
    <2>1. r = 2 /\ UNCHANGED config_ok /\ pc' = "exit" /\ status' # 6
      BY <1>0, <1>2 DEF LoadStandard, ConfigFile, Exit, BrokenStatus, AfterFile
    <2> QED BY <1>1, <2>1 DEF ConfigInv
  <1>3. CASE ~(r > 1)
    <2>1. r # 2 /\ Decide(r) /\ pc' \in {"etc", "home", "options"}
      BY <1>0, <1>3 DEF LoadStandard, ConfigFile, NextOption, AfterFile
    <2>2. config_ok' = 0 <=> 0 \in past'.loads
      BY <1>0, <2>1, DecideConfig
    <2> QED BY <1>0, <1>1, <2>1, <2>2 DEF ConfigInv
  <1> QED BY <1>2, <1>3

\* The options that load nothing.
LEMMA OptionConfig ==
  ASSUME LineInv, ConfigInv,
         \/ \E o \in Operations : SetOperation(o)
         \/ \E fails \in BOOLEAN : BasePath(fails)
         \/ BuildPlace
         \/ \E o \in PairOptions : PassPair(o)
         \/ \E o \in WordOptions : PassWord(o)
         \/ \E o \in Settings \ (PairOptions \cup WordOptions) : KeepSetting(o)
         \/ \E f \in Files : InputFile(f) \/ OutputFile(f)
         \/ Unhandled
  PROVE  ConfigInv'
  <1>1. config_ok' = config_ok
    BY DEF SetOperation, BasePath, BuildPlace, PassPair, PassWord, KeepSetting, InputFile,
           OutputFile, Unhandled
  <1>2. past'.loads = past.loads
    BY DEF SetOperation, BasePath, BuildPlace, PassPair, PassWord, KeepSetting, InputFile,
           OutputFile, Unhandled, LineInv, TypeOK
  <1>3. \/ pc' = pc /\ status' = status
        \/ pc' = "exit" /\ status' # 6
    <2>1. ASSUME NEW f \in Files, InputFile(f)
          PROVE  \/ pc' = pc /\ status' = status
                 \/ pc' = "exit" /\ status' # 6
      BY <2>1 DEF InputFile, Exit, Abort
    <2>2. ASSUME NEW fails \in BOOLEAN, BasePath(fails)
          PROVE  \/ pc' = pc /\ status' = status
                 \/ pc' = "exit" /\ status' # 6
      BY <2>2 DEF BasePath, Exit
    <2>3. CASE Unhandled
      BY <2>3 DEF Unhandled, Exit
    <2> QED BY <2>1, <2>2, <2>3 DEF SetOperation, BuildPlace, PassPair, PassWord, KeepSetting,
                                    OutputFile
  <1> QED BY <1>1, <1>2, <1>3, QuietConfig

\* Every step keeps ConfigInv; Dispatch is the one that looks at config_ok.
LEMMA NextConfig ==
  ASSUME LineInv, ConfigInv, [Next]_vars
  PROVE  ConfigInv'
  <1>1. CASE UNCHANGED vars
    BY <1>1 DEF vars, ConfigInv
  <1>2. CASE AddWord \/ DropWord
    <2>1. /\ past'.loads = past.loads /\ config_ok' = config_ok
          /\ pc' = pc /\ status' = status
      BY <1>2 DEF AddWord, DropWord, LineInv, TypeOK
    <2> QED BY <2>1, QuietConfig
  <1>3. ASSUME NEW n \in 0..MaxArgs, Dispatch(n)
        PROVE  ConfigInv'
    <2>1. pc = "options" /\ UNCHANGED <<config_ok, past>>
      BY <1>3 DEF Dispatch
    <2>2. CASE config_ok # 0
      BY <1>3, <2>1, <2>2 DEF Dispatch, Exit, ConfigInv
    <2>3. CASE config_ok = 0
      BY <1>3, <2>1, <2>3 DEF Dispatch, Exit, ConfigInv
    <2> QED BY <2>2, <2>3
  <1>4. CASE UpdateWords \/ Execute
    BY <1>4 DEF UpdateWords, Execute, ConfigInv
  <1> QED BY <1>1, <1>2, <1>3, <1>4, LoadConfig, OptionConfig DEF Next

\* An operation is called if some file was loaded and none was broken, and
\* that none was loaded is said only when it is so (parameter.c:337).
THEOREM ConfigurationFoundCorrect == Spec => []ConfigurationFound
  <1>1. Init => ConfigInv
    BY DEF Init, ConfigInv
  <1>2. ConfigInv => ConfigurationFound
    BY DEF ConfigInv, ConfigurationFound
  <1> QED BY <1>1, <1>2, NextConfig, LineCorrect, PTL DEF Spec

----------------------------------------------------------------------------
(* InputsKept.                                                              *)

\* pc.inputfile holds the names given so far, and while options are read there
\* is a place left for one more.
InputsInv ==
    ~past.output =>
        /\ InputsKept
        /\ Len(past.inputs) <= MaxFiles
        /\ pc # "exit" => Len(past.inputs) < MaxFiles

\* size_of_ntarray finds the first NULL.
LEMMA FirstNull ==
  ASSUME NEW a, NEW n \in 0..MaxFiles, a[n] = Null, \A j \in 0..(n - 1) : a[j] # Null
  PROVE  size_of_ntarray(a) = n
  <1> DEFINE P(i) == i \in 0..MaxFiles /\ a[i] = Null /\ \A j \in 0..(i - 1) : a[j] # Null
  <1>1. \A i : P(i) => i = n
    <2> SUFFICES ASSUME NEW i \in 0..MaxFiles, P(i) PROVE i = n
      OBVIOUS
    <2>1. MaxFiles \in Nat
      BY BoundAssumption
    <2>2. ~(i < n) /\ ~(n < i)
      BY <2>1
    <2> QED BY <2>1, <2>2
  <1>2. P(n)
    OBVIOUS
  <1> QED BY <1>1, <1>2 DEF size_of_ntarray

\* A step that leaves the names alone.
LEMMA QuietInputs ==
  ASSUME InputsInv, UNCHANGED inputfile, past'.inputs = past.inputs,
         past'.output = past.output, pc' # "exit" => pc # "exit"
  PROVE  InputsInv'
  BY DEF InputsInv, InputsKept

\* --inputfile
LEMMA InputFileInputs ==
  ASSUME LineInv, InputsInv, NEW f \in Files, InputFile(f)
  PROVE  InputsInv'
  <1> DEFINE n == Len(past.inputs)
             files == [inputfile EXCEPT ![size_of_ntarray(inputfile)] = f]
  <1>0. /\ past.inputs \in Seq(Files) /\ n \in Nat /\ MaxFiles \in Nat
        /\ inputfile \in [0..MaxFiles -> Files \cup {Null}]
    BY BoundAssumption, LenProperties DEF LineInv, TypeOK
  <1>1. /\ pc = "options" /\ inputfile' = files /\ past'.output = past.output
        /\ past'.inputs = Append(past.inputs, f)
    BY DEF InputFile, NextOption, LineInv, TypeOK
  <1> SUFFICES ASSUME ~past.output PROVE InputsInv'
    BY <1>1 DEF InputsInv
  <1>2. /\ n < MaxFiles
        /\ \A i \in 0..MaxFiles : inputfile[i] = IF i < n THEN past.inputs[i + 1] ELSE Null
    BY <1>1 DEF InputsInv, InputsKept
  <1>3. Files \subseteq Words /\ \A g \in Files : g # Null
    BY NullAssumption DEF Words
  <1>4. \A i \in 0..(n - 1) : past.inputs[i + 1] # Null
    <2>1. \A i \in 0..(n - 1) : i + 1 \in 1..Len(past.inputs)
      BY <1>0
    <2> QED BY <1>0, <1>3, <2>1, ElementOfSeq
  <1>5. size_of_ntarray(inputfile) = n
    <2>1. n \in 0..MaxFiles /\ inputfile[n] = Null
      BY <1>0, <1>2
    <2>2. \A j \in 0..(n - 1) : inputfile[j] # Null
      BY <1>0, <1>2, <1>4
    <2> QED BY <2>1, <2>2, FirstNull
  <1>6. files = [inputfile EXCEPT ![n] = f]
    BY <1>5
  <1>7. /\ Len(past'.inputs) = n + 1 /\ past'.inputs[n + 1] = f
        /\ \A i \in 1..n : past'.inputs[i] = past.inputs[i]
    BY <1>0, <1>1, AppendProperties
  <1>8. \A i \in 0..MaxFiles : files[i] = IF i < n + 1 THEN past'.inputs[i + 1] ELSE Null
    <2> SUFFICES ASSUME NEW i \in 0..MaxFiles
                 PROVE  files[i] = IF i < n + 1 THEN past'.inputs[i + 1] ELSE Null
      OBVIOUS
    <2>1. CASE i = n
      BY <1>0, <1>6, <1>7, <2>1
    <2>2. CASE i # n
      <3>1. files[i] = inputfile[i]
        BY <1>0, <1>6, <2>2
      <3>2. i < n => i + 1 \in 1..n
        BY <1>0
      <3>3. i < n + 1 <=> i < n
        BY <1>0, <2>2
      <3> QED BY <1>2, <1>7, <3>1, <3>2, <3>3
    <2> QED BY <2>1, <2>2
  <1>9. size_of_ntarray(files) = n + 1
    <2>1. n + 1 \in 0..MaxFiles /\ files[n + 1] = Null
      BY <1>0, <1>2, <1>8
    <2>2. \A j \in 0..((n + 1) - 1) : files[j] # Null
      <3> SUFFICES ASSUME NEW j \in 0..((n + 1) - 1) PROVE files[j] # Null
        OBVIOUS
      <3>1. CASE j = n
        BY <1>0, <1>2, <1>3, <1>6, <3>1
      <3>2. CASE j # n
        BY <1>0, <1>2, <1>4, <1>6, <3>2
      <3> QED BY <3>1, <3>2
    <2> HIDE DEF files
    <2> QED BY <2>1, <2>2, FirstNull
  <1>10. n + 1 >= MaxFiles => pc' = "exit"
    BY <1>9 DEF InputFile, Exit
  <1> QED BY <1>0, <1>1, <1>2, <1>7, <1>8, <1>10 DEF InputsInv, InputsKept

\* Every step keeps InputsInv; an --outputfile ends its reach.
LEMMA NextInputs ==
  ASSUME LineInv, InputsInv, [Next]_vars
  PROVE  InputsInv'
  <1>1. CASE UNCHANGED vars
    BY <1>1, QuietInputs DEF vars
  <1>2. CASE AddWord \/ DropWord
    BY <1>2, QuietInputs DEF AddWord, DropWord, LineInv, TypeOK
  <1>3. ASSUME NEW r \in {-1, 0, 1, 2}, NEW sets \in Configured,
               LoadStandard(r, sets) \/ ConfigFile(r, sets)
        PROVE  InputsInv'
    <2>1. /\ pc # "exit" /\ UNCHANGED inputfile
          /\ past'.inputs = past.inputs /\ past'.output = past.output
      BY <1>3 DEF LoadStandard, ConfigFile, NextOption, AfterFile, Loaded, LineInv, TypeOK
    <2> QED BY <2>1, QuietInputs
  <1>4. CASE \/ \E o \in Operations : SetOperation(o)
             \/ \E fails \in BOOLEAN : BasePath(fails)
             \/ BuildPlace
             \/ \E o \in PairOptions : PassPair(o)
             \/ \E o \in WordOptions : PassWord(o)
             \/ \E o \in Settings \ (PairOptions \cup WordOptions) : KeepSetting(o)
             \/ Unhandled
    <2>1. pc # "exit" /\ UNCHANGED <<inputfile, past>>
      BY <1>4 DEF NextOption, SetOperation, BasePath, BuildPlace, PassPair, PassWord,
                  KeepSetting, Unhandled
    <2> QED BY <2>1, QuietInputs
  <1>5. ASSUME NEW f \in Files, OutputFile(f)
        PROVE  InputsInv'
    <2>1. past'.output
      BY <1>5 DEF OutputFile, LineInv, TypeOK
    <2> QED BY <2>1 DEF InputsInv
  <1>6. ASSUME NEW n \in 0..MaxArgs, Dispatch(n)
        PROVE  InputsInv'
    BY <1>6, QuietInputs DEF Dispatch
  <1>7. CASE UpdateWords \/ Execute
    BY <1>7, QuietInputs DEF UpdateWords, Execute
  <1> QED BY <1>1, <1>2, <1>3, <1>4, <1>5, <1>6, <1>7, InputFileInputs DEF Next

\* Every file that --inputfile names is in pc.inputfile, in order and ended by
\* a NULL inside the array (parameter.c:466-475), for any size of it.
THEOREM InputsKeptCorrect == Spec => []InputsKept
  <1>1. Init => InputsInv
    <2> SUFFICES ASSUME Init PROVE InputsInv
      OBVIOUS
    <2>1. past.inputs = <<>> /\ Len(past.inputs) = 0 /\ MaxFiles \in Nat /\ MaxFiles # 0
      BY BoundAssumption DEF Init
    <2>2. \A i \in 0..MaxFiles : inputfile[i] = Null /\ ~(i < 0)
      BY <2>1 DEF Init
    <2> QED BY <2>1, <2>2 DEF InputsInv, InputsKept
  <1>2. InputsInv => InputsKept
    BY DEF InputsInv, InputsKept
  <1> QED BY <1>1, <1>2, NextInputs, LineCorrect, PTL DEF Spec

----------------------------------------------------------------------------
(* OverrideHeeded.                                                          *)

Distribution == "--distribution"
Override == "--override-config"
NoTargz == "--no-targz"
AskedFor(w) == \E i \in 1..Len(asked) : asked[i] = w

\* No option asks for --distribution or --no-targz; update asks for the first,
\* and then for the second, when the options have put --override-config on the
\* line, and after that nothing puts it there.
TargzAfter == \A i \in 1..Len(asked) :
    asked[i] = NoTargz => \E j \in 1..(i - 1) : asked[j] = Distribution
OverrideInv ==
    /\ line[0] = "pbuilder"
    /\ pc \in Parsing \cup {"update"} => ~AskedFor(Distribution) /\ ~AskedFor(NoTargz)
    /\ pc = "update" => fields.operation = "update" /\ line[1] = "update"
    /\ pc \in {"compose", "exec"} /\ fields.operation = "update" =>
         /\ AskedFor(Distribution) <=> OnLine(Override)
         /\ OnLine(Override) => TargzAfter
         /\ \A i \in (added + 1)..Len(asked) : asked[i] # Override

\* What has been asked for after more words are.
LEMMA AskedForMore ==
  ASSUME LineInv, NEW ws \in Seq(Line), asked' = asked \o ws, NEW w
  PROVE  /\ AskedFor(w)' <=> AskedFor(w) \/ \E i \in 1..Len(ws) : ws[i] = w
         /\ \A i \in (Len(asked) + 1)..Len(asked') : \E j \in 1..Len(ws) : asked'[i] = ws[j]
  <1>0. asked \in Seq(Line) /\ Len(asked) \in Nat /\ Len(ws) \in Nat
    BY LenProperties DEF LineInv, TypeOK, Line
  <1>1. /\ Len(asked') = Len(asked) + Len(ws)
        /\ \A i \in 1..Len(asked') : asked'[i] = IF i <= Len(asked) THEN asked[i]
                                                 ELSE ws[i - Len(asked)]
    BY <1>0, ConcatProperties
  <1>2. \A i \in (Len(asked) + 1)..Len(asked') :
          i - Len(asked) \in 1..Len(ws) /\ asked'[i] = ws[i - Len(asked)]
    BY <1>0, <1>1
  <1>3. AskedFor(w)' => AskedFor(w) \/ \E i \in 1..Len(ws) : ws[i] = w
    <2> SUFFICES ASSUME NEW i \in 1..Len(asked'), asked'[i] = w
                 PROVE  AskedFor(w) \/ \E j \in 1..Len(ws) : ws[j] = w
      BY DEF AskedFor
    <2>1. CASE i <= Len(asked)
      BY <1>0, <1>1, <2>1 DEF AskedFor
    <2>2. CASE ~(i <= Len(asked))
      BY <1>0, <1>2, <2>2
    <2> QED BY <2>1, <2>2
  <1>4. AskedFor(w) => AskedFor(w)'
    BY <1>0, <1>1 DEF AskedFor
  <1>5. (\E i \in 1..Len(ws) : ws[i] = w) => AskedFor(w)'
    <2> SUFFICES ASSUME NEW i \in 1..Len(ws), ws[i] = w PROVE AskedFor(w)'
      OBVIOUS
    <2>1. /\ Len(asked) + i \in 1..Len(asked')
          /\ Len(asked) + i \in (Len(asked) + 1)..Len(asked')
          /\ (Len(asked) + i) - Len(asked) = i
      BY <1>0, <1>1
    <2>2. asked'[Len(asked) + i] = w
      BY <1>2, <2>1
    <2> QED BY <2>1, <2>2 DEF AskedFor
  <1> QED BY <1>2, <1>3, <1>4, <1>5

\* A step of parse_parameter that asks for none, or for words of the options.
LEMMA ParsingOverride ==
  ASSUME LineInv, OverrideInv, pc \in Parsing, pc' \in Parsing \cup {"exit"},
         NEW ws \in Seq(Words), asked' = asked \o ws, line'[0] = line[0],
         \A i \in 1..Len(ws) : ws[i] \notin {Distribution, NoTargz}
  PROVE  OverrideInv'
  <1>1. ws \in Seq(Line)
    BY DEF Line
  <1>2. ~AskedFor(Distribution)' /\ ~AskedFor(NoTargz)'
    BY <1>1, AskedForMore DEF OverrideInv
  <1> QED BY <1>2 DEF OverrideInv, Parsing

\* Parsing a word that names no distribution.
LEMMA ParsingQuietOverride ==
  ASSUME LineInv, OverrideInv, pc \in Parsing, pc' \in Parsing \cup {"exit"},
         asked' = asked, line'[0] = line[0]
  PROVE  OverrideInv'
  BY DEF OverrideInv, Parsing, AskedFor

\* Options.
LEMMA OptionOverride ==
  ASSUME LineInv, OverrideInv, NextOption,
         \/ \E r \in {-1, 0, 1, 2}, sets \in Configured : ConfigFile(r, sets)
         \/ \E o \in Operations : SetOperation(o)
         \/ \E fails \in BOOLEAN : BasePath(fails)
         \/ BuildPlace
         \/ \E o \in PairOptions : PassPair(o)
         \/ \E o \in WordOptions : PassWord(o)
         \/ \E o \in Settings \ (PairOptions \cup WordOptions) : KeepSetting(o)
         \/ \E f \in Files : InputFile(f) \/ OutputFile(f)
         \/ Unhandled
  PROVE  OverrideInv'
  <1>0. pc \in Parsing /\ line'[0] = line[0]
    BY DEF NextOption, Parsing
  <1>1. pc' \in Parsing \cup {"exit"}
    <2>1. ASSUME NEW f \in Files, InputFile(f)
          PROVE  pc' \in Parsing \cup {"exit"}
      BY <1>0, <2>1 DEF InputFile, Exit
    <2>2. ASSUME NEW r \in {-1, 0, 1, 2}, NEW sets \in Configured, ConfigFile(r, sets)
          PROVE  pc' \in Parsing \cup {"exit"}
      BY <1>0, <2>2 DEF ConfigFile, Exit
    <2> QED BY <1>0, <2>1, <2>2 DEF SetOperation, BasePath, BuildPlace, PassPair, PassWord,
                                    KeepSetting, OutputFile, Unhandled, Exit
  <1>2. \/ asked' = asked
        \/ \E o \in PairOptions \cup {"--configfile"} : asked' = asked \o <<o, "value">>
        \/ \E o \in WordOptions : asked' = asked \o <<o>>
        \/ \E f \in Files : asked' = asked \o <<"--inputfile", f>>
    <2>1. ASSUME NEW f \in Files, InputFile(f)
          PROVE  asked' = asked \/ asked' = asked \o <<"--inputfile", f>>
      BY <2>1 DEF InputFile, AddParams
    <2>2. ASSUME NEW r \in {-1, 0, 1, 2}, NEW sets \in Configured, ConfigFile(r, sets)
          PROVE  asked' = asked \/ asked' = asked \o <<"--configfile", "value">>
      BY <2>2 DEF ConfigFile, AddParams
    <2> QED BY <2>1, <2>2 DEF SetOperation, BasePath, BuildPlace, PassPair, PassWord,
                              KeepSetting, OutputFile, Unhandled, AddParams
  <1>3. {"value", "--configfile", "--inputfile"} \subseteq Words /\ PairOptions \subseteq Words
        /\ WordOptions \subseteq Words /\ Files \subseteq Words
    BY DEF Words, OwnWords
  <1>4. ASSUME NEW o \in PairOptions \cup {"--configfile"}, asked' = asked \o <<o, "value">>
        PROVE  OverrideInv'
    <2>1. <<o, "value">> \in Seq(Words)
      BY <1>3
    <2>2. \A i \in 1..Len(<<o, "value">>) : <<o, "value">>[i] \notin {Distribution, NoTargz}
      BY DistributionAssumption DEF Distribution, NoTargz
    <2> QED BY <1>0, <1>1, <1>4, <2>1, <2>2, ParsingOverride
  <1>5. ASSUME NEW o \in WordOptions, asked' = asked \o <<o>>
        PROVE  OverrideInv'
    <2>1. <<o>> \in Seq(Words)
      BY <1>3
    <2>2. \A i \in 1..Len(<<o>>) : <<o>>[i] \notin {Distribution, NoTargz}
      BY DistributionAssumption DEF Distribution, NoTargz
    <2> QED BY <1>0, <1>1, <1>5, <2>1, <2>2, ParsingOverride
  <1>6. ASSUME NEW f \in Files, asked' = asked \o <<"--inputfile", f>>
        PROVE  OverrideInv'
    <2>1. <<"--inputfile", f>> \in Seq(Words)
      BY <1>3
    <2>2. \A i \in 1..Len(<<"--inputfile", f>>) :
            <<"--inputfile", f>>[i] \notin {Distribution, NoTargz}
      BY DistributionAssumption DEF Distribution, NoTargz
    <2> QED BY <1>0, <1>1, <1>6, <2>1, <2>2, ParsingOverride
  <1> QED BY <1>0, <1>1, <1>2, <1>4, <1>5, <1>6, ParsingQuietOverride

\* A place is filled, or nothing is: what has been asked for stays the same.
LEMMA AddWordOverride ==
  ASSUME LineInv, OverrideInv, AddWord
  PROVE  OverrideInv'
  <1>0. /\ line \in [Places -> Line] /\ offset \in 2..(MaxLine - 1) /\ offset \in Places
        /\ added \in Nat /\ MaxLine \in Nat /\ added + 1 \in 1..Len(asked)
        /\ Len(asked) \in Nat
    <2>1. Len(asked) \in Nat
      BY LenProperties DEF LineInv, TypeOK
    <2> QED BY <2>1, LineAssumption DEF LineInv, TypeOK, Places, Line, AddWord
  <1>1. /\ line' = [line EXCEPT ![offset] = asked[added + 1]]
        /\ offset' = offset + 1 /\ added' = added + 1
        /\ UNCHANGED <<pc, asked, fields>>
    BY DEF AddWord
  <1>2. \A i \in Places \ {offset} : line'[i] = line[i]
    BY <1>0, <1>1
  <1>3. line'[0] = line[0] /\ line'[1] = line[1]
    <2>1. {0, 1} \subseteq Places \ {offset}
      BY <1>0, LineAssumption DEF Places
    <2> QED BY <1>2, <2>1
  <1>4. ASSUME \A i \in (added + 1)..Len(asked) : asked[i] # Override
        PROVE  /\ OnLine(Override)' <=> OnLine(Override)
               /\ \A i \in (added' + 1)..Len(asked') : asked'[i] # Override
    <2>1. line'[offset] # Override
      <3>1. asked[added + 1] # Override
        BY <1>0, <1>4
      <3> QED BY <1>0, <1>1, <3>1
    <2>2. \A i \in 2..(offset - 1) : line'[i] = line[i]
      <3>1. \A i \in 2..(offset - 1) : i \in Places \ {offset}
        BY <1>0 DEF Places
      <3> QED BY <1>2, <3>1
    <2>3. 2..(offset' - 1) = 2..(offset - 1) \cup {offset}
      BY <1>0, <1>1
    <2>4. OnLine(Override)' <=> OnLine(Override)
      BY <2>1, <2>2, <2>3 DEF OnLine
    <2>5. \A i \in (added' + 1)..Len(asked') : asked'[i] # Override
      BY <1>0, <1>1, <1>4
    <2> QED BY <2>4, <2>5
  <1>5. /\ \A w : AskedFor(w)' <=> AskedFor(w)
        /\ TargzAfter' <=> TargzAfter
    BY <1>1 DEF AskedFor, TargzAfter
  <1> QED BY <1>1, <1>3, <1>4, <1>5 DEF OverrideInv

\* A word that a full line drops.
LEMMA DropWordOverride ==
  ASSUME LineInv, OverrideInv, DropWord
  PROVE  OverrideInv'
  <1>0. /\ line \in [Places -> Line] /\ offset = MaxLine - 1 /\ added \in Nat
        /\ Len(asked) \in Nat /\ added < Len(asked) /\ MaxLine \in Nat /\ offset \in Places
    <2>1. Len(asked) \in Nat
      BY LenProperties DEF LineInv, TypeOK
    <2> QED BY <2>1, LineAssumption DEF LineInv, TypeOK, Places, Line, DropWord, HasRoom
  <1>1. line' = line
    <2>1. line[offset] = Null
      BY <1>0, LineAssumption DEF LineInv, LineFaithful
    <2> QED BY <1>0, <2>1 DEF DropWord, PlaceOfNull, Places
  <1>2. added' = added + 1 /\ UNCHANGED <<pc, offset, asked, fields>>
    BY DEF DropWord
  <1>3. /\ \A w : AskedFor(w)' <=> AskedFor(w)
        /\ TargzAfter' <=> TargzAfter
        /\ OnLine(Override)' <=> OnLine(Override)
    BY <1>1, <1>2 DEF AskedFor, TargzAfter, OnLine
  <1>4. (added' + 1)..Len(asked') \subseteq (added + 1)..Len(asked)
    BY <1>0, <1>2
  <1> QED BY <1>1, <1>2, <1>3, <1>4 DEF OverrideInv

\* The operation is called; of the words of update none is --distribution.
LEMMA DispatchOverride ==
  ASSUME LineInv, OverrideInv, NEW n \in 0..MaxArgs, Dispatch(n)
  PROVE  OverrideInv'
  <1> DEFINE o == fields.operation
  <1>0. pc = "options" /\ pc \in Parsing /\ UNCHANGED <<added, fields>>
    BY DEF Dispatch, Parsing
  <1>1. CASE pc' = "exit" /\ UNCHANGED <<line, asked>>
    BY <1>0, <1>1, ParsingQuietOverride
  <1>2. ASSUME o = "update", line' = [line EXCEPT ![1] = o], pc' = "update",
               AddParams(WordsOf(o, n))
        PROVE  OverrideInv'
    <2>1. line \in [Places -> Line] /\ 1 \in Places /\ 0 \in Places
      BY LineAssumption DEF LineInv, TypeOK, Places, Line
    <2>2. line'[0] = "pbuilder" /\ line'[1] = "update"
      BY <1>2, <2>1 DEF OverrideInv
    <2>3. WordsOf(o, n) = <<"--buildplace", "value">>
      BY <1>2, ConcatEmptySeq DEF WordsOf
    <2>4. <<"--buildplace", "value">> \in Seq(Line)
      BY DEF Line, Words, OwnWords
    <2>5. \A i \in 1..Len(<<"--buildplace", "value">>) :
             <<"--buildplace", "value">>[i] \notin {Distribution, NoTargz}
      BY DEF Distribution, NoTargz
    <2>6. asked' = asked \o <<"--buildplace", "value">>
      BY <1>2, <2>3 DEF AddParams
    <2>7. ~AskedFor(Distribution)' /\ ~AskedFor(NoTargz)'
      BY <1>0, <2>4, <2>5, <2>6, AskedForMore DEF OverrideInv
    <2> QED BY <1>0, <1>2, <2>2, <2>7 DEF OverrideInv, Parsing
  <1>3. ASSUME o # "update", line' = [line EXCEPT ![1] = o], pc' = "compose"
        PROVE  OverrideInv'
    <2>1. line'[0] = "pbuilder"
      BY <1>3, LineAssumption DEF OverrideInv, LineInv, TypeOK
    <2> QED BY <1>0, <1>3, <2>1 DEF OverrideInv, Parsing
  <1> QED BY <1>1, <1>2, <1>3 DEF Dispatch, Exit

\* A word of either of two sequences is in their concatenation.
LEMMA ConcatHas ==
  ASSUME NEW S, NEW a \in Seq(S), NEW b \in Seq(S), NEW w,
         (\E i \in 1..Len(a) : a[i] = w) \/ (\E i \in 1..Len(b) : b[i] = w)
  PROVE  \E i \in 1..Len(a \o b) : (a \o b)[i] = w
  <1>0. Len(a) \in Nat /\ Len(b) \in Nat
    BY LenProperties
  <1>1. /\ Len(a \o b) = Len(a) + Len(b)
        /\ \A i \in 1..(Len(a) + Len(b)) :
             (a \o b)[i] = IF i <= Len(a) THEN a[i] ELSE b[i - Len(a)]
    BY ConcatProperties
  <1>2. ASSUME NEW i \in 1..Len(a), a[i] = w
        PROVE  i \in 1..Len(a \o b) /\ (a \o b)[i] = w
    BY <1>0, <1>1, <1>2
  <1>3. ASSUME NEW i \in 1..Len(b), b[i] = w
        PROVE  Len(a) + i \in 1..Len(a \o b) /\ (a \o b)[Len(a) + i] = w
    <2>1. Len(a) + i \in 1..(Len(a) + Len(b)) /\ ~(Len(a) + i <= Len(a))
          /\ (Len(a) + i) - Len(a) = i
      BY <1>0
    <2> QED BY <1>1, <1>3, <2>1
  <1> QED BY <1>2, <1>3

\* The words that update adds last.
LEMMA UpdateWordFacts ==
  ASSUME LineInv, NEW ws, ws = (OverrideWords \o InChroot) \o <<Null>>
  PROVE  /\ ws \in Seq(Line)
         /\ \A i \in 1..Len(ws) : ws[i] # Override
         /\ (\E i \in 1..Len(ws) : ws[i] = Distribution) <=> find_matching_param(Override)
         /\ find_matching_param(Override) =>
              \A i \in 1..Len(ws) : ws[i] = NoTargz =>
                                     \E j \in 1..(i - 1) : ws[j] = Distribution
  <1> DEFINE W == {"--mirror", "value", "--no-targz", "--internal-chrootexec"}
             D == W \cup {Distribution}
  <1>0. /\ Null \notin D /\ Null # Override /\ Override \notin D /\ Distribution \notin W
        /\ D \subseteq Words /\ Null # Distribution
    BY NullAssumption DEF Words, OwnWords, Distribution, Override
  <1>1. ASSUME NEW X, W \subseteq X
        PROVE  Given("--mirror") \in Seq(X) /\ InChroot \in Seq(X)
    <2>1. <<"--mirror", "value">> \in Seq(X) /\ <<>> \in Seq(X)
      BY <1>1
    <2>2. <<"--no-targz", "--internal-chrootexec", "value">> \in Seq(X)
      BY <1>1
    <2> QED BY <2>1, <2>2 DEF Given, InChroot
  <1>2. <<Null>> \in Seq(D \cup {Null}) /\ <<Null>> \in Seq(W \cup {Null})
    OBVIOUS
  <1>3. ws \in Seq(D \cup {Null})
    <2> DEFINE X == D \cup {Null}
    <2>1. /\ Given("--mirror") \in Seq(X) /\ InChroot \in Seq(X)
          /\ <<"--distribution", "value">> \in Seq(X) /\ <<>> \in Seq(X) /\ <<Null>> \in Seq(X)
      BY <1>1 DEF Distribution
    <2> HIDE DEF X
    <2>2. OverrideWords \in Seq(X)
      BY <2>1, ConcatProperties DEF OverrideWords
    <2>3. ws \in Seq(X)
      BY <2>1, <2>2, ConcatProperties
    <2> QED BY <2>3 DEF X
  <1>4. ws \in Seq(Line)
    <2>1. D \cup {Null} \subseteq Line
      BY <1>0 DEF Line
    <2> HIDE DEF D
    <2> QED BY <1>3, <2>1
  <1>5. \A i \in 1..Len(ws) : ws[i] # Override
    BY <1>0, <1>3, ElementOfSeq
  <1>6. ASSUME ~find_matching_param(Override)
        PROVE  \A i \in 1..Len(ws) : ws[i] # Distribution
    <2>1. OverrideWords = <<>>
      BY <1>6 DEF OverrideWords, Override
    <2>2. OverrideWords \in Seq(W \cup {Null}) /\ InChroot \in Seq(W \cup {Null})
      BY <1>1, <2>1
    <2> HIDE DEF W, D
    <2>3. ws \in Seq(W \cup {Null})
      BY <1>2, <2>2, ConcatProperties
    <2> QED BY <1>0, <2>3, ElementOfSeq
  <1>7. ASSUME find_matching_param(Override)
        PROVE  /\ \E i \in 1..Len(ws) : ws[i] = Distribution
               /\ \A i \in 1..Len(ws) : ws[i] = NoTargz =>
                                         \E j \in 1..(i - 1) : ws[j] = Distribution
    <2> DEFINE d == <<"--distribution", "value">>
    <2>1. OverrideWords = Given("--mirror") \o d
      BY <1>7 DEF OverrideWords, Override
    <2>2. /\ Given("--mirror") \in Seq(Line) /\ InChroot \in Seq(Line)
          /\ d \in Seq(Line) /\ <<Null>> \in Seq(Line)
      <3>1. W \subseteq Line /\ {Distribution, "value", Null} \subseteq Line
        BY <1>0 DEF Line
      <3> HIDE DEF W, D
      <3>2. Given("--mirror") \in Seq(Line) /\ InChroot \in Seq(Line)
        BY <1>1, <3>1
      <3> QED BY <3>1, <3>2 DEF Distribution
    <2>3. \E i \in 1..Len(d) : d[i] = Distribution
      <3>1. 1 \in 1..Len(d) /\ d[1] = Distribution
        BY DEF Distribution
      <3> QED BY <3>1
    <2> HIDE DEF d, W, D
    <2>4. \E i \in 1..Len(OverrideWords) : OverrideWords[i] = Distribution
      <3> DEFINE m == Given("--mirror")
      <3>1. m \in Seq(Line) /\ OverrideWords = m \o d
        BY <2>1, <2>2
      <3> HIDE DEF m
      <3> QED BY <2>2, <2>3, <3>1, ConcatHas
    <2>5. OverrideWords \in Seq(Line)
      BY <2>1, <2>2, ConcatProperties
    <2>10. \A i \in 1..Len(OverrideWords) : OverrideWords[i] # NoTargz
      <3> DEFINE X == {"--mirror", "--distribution", "value"}
                 m == Given("--mirror")
      <3>1. m \in Seq(X)
        <4>1. <<"--mirror", "value">> \in Seq(X) /\ <<>> \in Seq(X)
          OBVIOUS
        <4> QED BY <4>1 DEF Given
      <3>2. d \in Seq(X) /\ OverrideWords = m \o d
        BY <2>1 DEF d
      <3>3. NoTargz \notin X
        BY DEF NoTargz
      <3> HIDE DEF X, m
      <3>4. OverrideWords \in Seq(X)
        BY <3>1, <3>2, ConcatProperties
      <3> QED BY <3>3, <3>4, ElementOfSeq
    <2> DEFINE q == OverrideWords \o InChroot
    <2>6. q \in Seq(Line) /\ \E i \in 1..Len(q) : q[i] = Distribution
      BY <2>2, <2>4, <2>5, ConcatHas, ConcatProperties
    <2>7. ws = q \o <<Null>>
      OBVIOUS
    <2> DEFINE last == <<Null>>
    <2>8. ws = q \o last /\ last \in Seq(Line)
      BY <2>2, <2>7
    <2> HIDE DEF q, last
    <2>9. \E i \in 1..Len(q \o last) : (q \o last)[i] = Distribution
      BY <2>6, <2>8, ConcatHas
    <2>11. /\ Len(OverrideWords) \in Nat /\ Len(q) \in Nat /\ Len(OverrideWords) <= Len(q)
           /\ Len(q) <= Len(ws) /\ Len(ws) \in Nat
           /\ \A i \in 1..Len(OverrideWords) : ws[i] = OverrideWords[i]
      <3>1. /\ Len(OverrideWords) \in Nat /\ Len(InChroot) \in Nat /\ Len(last) \in Nat
            /\ Len(q) \in Nat
        BY <2>2, <2>5, <2>6, <2>8, LenProperties
      <3>2. /\ Len(q) = Len(OverrideWords) + Len(InChroot)
            /\ \A i \in 1..Len(q) : i <= Len(OverrideWords) => q[i] = OverrideWords[i]
        BY <2>2, <2>5, <3>1, ConcatProperties DEF q
      <3>3. /\ Len(ws) = Len(q) + Len(last)
            /\ \A i \in 1..Len(ws) : i <= Len(q) => ws[i] = q[i]
        BY <2>6, <2>8, <3>1, ConcatProperties
      <3> QED BY <3>1, <3>2, <3>3
    <2>12. ASSUME NEW i \in 1..Len(ws), ws[i] = NoTargz
           PROVE  \E j \in 1..(i - 1) : ws[j] = Distribution
      <3>1. i > Len(OverrideWords)
        BY <2>10, <2>11, <2>12
      <3>2. PICK j \in 1..Len(OverrideWords) : OverrideWords[j] = Distribution
        BY <2>4
      <3> QED BY <2>11, <3>1, <3>2
    <2> QED BY <2>8, <2>9, <2>12
  <1> QED BY <1>4, <1>5, <1>6, <1>7

\* The words update adds.
LEMMA UpdateWordsOverride ==
  ASSUME LineInv, OverrideInv, UpdateWords
  PROVE  OverrideInv'
  <1> DEFINE ws == (OverrideWords \o InChroot) \o <<Null>>
  <1>0. /\ pc = "update" /\ pc' = "compose" /\ added = Len(asked) /\ asked' = asked \o ws
        /\ UNCHANGED <<line, offset, added, fields>>
    BY DEF UpdateWords, AddParams, Ready
  <1>1. find_matching_param(Override) <=> OnLine(Override)
    <2>1. line[0] # Override /\ line[1] # Override /\ offset \in 2..(MaxLine - 1)
      BY <1>0 DEF OverrideInv, Override, LineInv, TypeOK
    <2>2. 0..(offset - 1) = {0, 1} \cup 2..(offset - 1)
      BY <2>1, LineAssumption
    <2> QED BY <2>1, <2>2 DEF find_matching_param, OnLine
  <1>2. /\ ws \in Seq(Line)
        /\ \A i \in 1..Len(ws) : ws[i] # Override
        /\ (\E i \in 1..Len(ws) : ws[i] = Distribution) <=> OnLine(Override)
        /\ OnLine(Override) =>
             \A i \in 1..Len(ws) : ws[i] = NoTargz => \E j \in 1..(i - 1) : ws[j] = Distribution
    BY <1>1, UpdateWordFacts
  <1> HIDE DEF ws
  <1>3. AskedFor(Distribution)' <=> OnLine(Override)
    BY <1>0, <1>2, AskedForMore DEF OverrideInv
  <1>4. \A i \in (added + 1)..Len(asked') : asked'[i] # Override
    BY <1>0, <1>2, AskedForMore
  <1>5. OnLine(Override)' <=> OnLine(Override)
    BY <1>0 DEF OnLine
  <1>6. OnLine(Override) => TargzAfter'
    <2>1. asked \in Seq(Line) /\ Len(asked) \in Nat /\ Len(ws) \in Nat
      BY <1>2, LenProperties DEF LineInv, TypeOK, Line
    <2>2. /\ Len(asked') = Len(asked) + Len(ws)
          /\ \A i \in 1..Len(asked') : asked'[i] = IF i <= Len(asked) THEN asked[i]
                                                   ELSE ws[i - Len(asked)]
      BY <1>0, <1>2, <2>1, ConcatProperties
    <2>3. ASSUME OnLine(Override), NEW i \in 1..Len(asked'), asked'[i] = NoTargz
          PROVE  \E j \in 1..(i - 1) : asked'[j] = Distribution
      <3>1. i > Len(asked)
        BY <1>0, <2>1, <2>2, <2>3 DEF OverrideInv, AskedFor
      <3>2. i - Len(asked) \in 1..Len(ws) /\ ws[i - Len(asked)] = NoTargz
        BY <2>1, <2>2, <2>3, <3>1
      <3>3. PICK k \in 1..((i - Len(asked)) - 1) : ws[k] = Distribution
        BY <1>2, <2>3, <3>2
      <3>4. /\ Len(asked) + k \in 1..(i - 1) /\ Len(asked) + k \in 1..Len(asked')
            /\ ~(Len(asked) + k <= Len(asked)) /\ (Len(asked) + k) - Len(asked) = k
        BY <2>1, <2>2, <3>1
      <3>5. asked'[Len(asked) + k] = Distribution
        BY <2>2, <3>3, <3>4
      <3> QED BY <3>4, <3>5
    <2> QED BY <2>3 DEF TargzAfter
  <1> QED BY <1>0, <1>3, <1>4, <1>5, <1>6 DEF OverrideInv, Parsing

\* Every step.
LEMMA NextOverride ==
  ASSUME LineInv, OverrideInv, [Next]_vars
  PROVE  OverrideInv'
  <1>1. CASE UNCHANGED vars
    BY <1>1 DEF vars, OverrideInv, AskedFor, TargzAfter, OnLine
  <1>2. ASSUME NEW r \in {-1, 0, 1, 2}, NEW sets \in Configured, LoadStandard(r, sets)
        PROVE  OverrideInv'
    <2>1. pc \in Parsing /\ pc' \in Parsing \cup {"exit"} /\ UNCHANGED <<line, asked>>
      BY <1>2 DEF LoadStandard, Exit, AfterFile, Parsing
    <2> QED BY <2>1, ParsingQuietOverride
  <1>3. CASE Execute
    BY <1>3 DEF Execute, OverrideInv, AskedFor, TargzAfter, OnLine, Parsing
  <1>4. ASSUME NEW f \in Files, InputFile(f) \/ OutputFile(f)
        PROVE  OverrideInv'
    <2>1. NextOption
      BY <1>4 DEF InputFile, OutputFile
    <2> QED BY <1>4, <2>1, OptionOverride
  <1>5. ASSUME NEW r \in {-1, 0, 1, 2}, NEW sets \in Configured, ConfigFile(r, sets)
        PROVE  OverrideInv'
    BY <1>5, OptionOverride DEF ConfigFile
  <1>6. CASE \/ \E o \in Operations : SetOperation(o)
             \/ \E fails \in BOOLEAN : BasePath(fails)
             \/ BuildPlace
             \/ \E o \in PairOptions : PassPair(o)
             \/ \E o \in WordOptions : PassWord(o)
             \/ \E o \in Settings \ (PairOptions \cup WordOptions) : KeepSetting(o)
             \/ Unhandled
    <2>1. NextOption
      BY <1>6 DEF SetOperation, BasePath, BuildPlace, PassPair, PassWord, KeepSetting,
                  Unhandled
    <2> QED BY <1>6, <2>1, OptionOverride
  <1> QED BY <1>1, <1>2, <1>3, <1>4, <1>5, <1>6, AddWordOverride, DropWordOverride,
             DispatchOverride, UpdateWordsOverride DEF Next

\* A word on the line is one that was asked for, and those asked for before it
\* are on the line.
LEMMA LineOfAsked ==
  ASSUME LineInv
  PROVE  \A i \in 2..(offset - 1) :
           /\ i - 1 \in 1..Len(asked) /\ line[i] = asked[i - 1]
           /\ \A j \in 1..(i - 2) : j + 1 \in 2..(offset - 1) /\ line[j + 1] = asked[j]
  <1>0. /\ offset \in 2..(MaxLine - 1) /\ MaxLine \in Nat /\ Len(asked) \in Nat
        /\ added \in 0..Len(asked) /\ offset <= added + 2
    BY LineAssumption, LenProperties DEF LineInv, LineShape, TypeOK, LineFaithful
  <1>1. \A i \in 2..(offset - 1) : line[i] = asked[i - 1] /\ i - 1 \in 1..Len(asked)
    BY <1>0 DEF LineInv, LineFaithful
  <1>2. ASSUME NEW i \in 2..(offset - 1), NEW j \in 1..(i - 2)
        PROVE  j + 1 \in 2..(offset - 1) /\ (j + 1) - 1 = j
    BY <1>0
  <1> QED BY <1>1, <1>2

\* The line that update executes names a distribution only beside an
\* --override-config, and does so if it has a word that comes after it
\* (cowbuilder.c:619-629): for a line of any length.
THEOREM OverrideHeededCorrect == Spec => []OverrideHeeded
  <1>1. Init => OverrideInv
    BY LineAssumption DEF Init, OverrideInv, Parsing, AskedFor
  <1>2. LineInv /\ OverrideInv => OverrideHeeded
    <2> SUFFICES ASSUME LineInv, OverrideInv, pc = "exec", fields.operation = "update"
                 PROVE  /\ OnLine(Distribution) => OnLine(Override)
                        /\ OnLine(Override) /\ OnLine(NoTargz) => OnLine(Distribution)
      BY DEF OverrideHeeded, Distribution, Override, NoTargz
    <2>1. OnLine(Distribution) => OnLine(Override)
      BY LineOfAsked DEF OverrideInv, OnLine, AskedFor
    <2>2. ASSUME OnLine(Override), NEW i \in 2..(offset - 1), line[i] = NoTargz
          PROVE  OnLine(Distribution)
      <3>1. PICK j \in 1..((i - 1) - 1) : asked[j] = Distribution
        BY <2>2, LineOfAsked DEF OverrideInv, TargzAfter
      <3>2. j \in 1..(i - 2)
        BY <2>2, LineAssumption DEF LineInv, TypeOK
      <3> QED BY <3>1, <3>2, LineOfAsked DEF OnLine
    <2> QED BY <2>1, <2>2 DEF OnLine
  <1> QED BY <1>1, <1>2, NextOverride, LineCorrect, PTL DEF Spec
=============================================================================
