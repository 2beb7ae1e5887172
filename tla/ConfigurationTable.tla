------------------------- MODULE ConfigurationTable -------------------------
(***************************************************************************)
(* The configuration: a file is read into one string, its sections and     *)
(* pairs are views found by searching for four separators, and values are  *)
(* looked up and converted.  Content is a sequence of tokens, the          *)
(* separators and words; a position past the last is what end() is.        *)
(***************************************************************************)
EXTENDS Integers, Sequences

LOCAL INSTANCE SequencesExt

Open == "["
Close == "]"
Equals == "="
Endline == "\n"

\* Words that std::from_chars finds a number at the beginning of.
Number == [one |-> 1, seven |-> 7]

-----------------------------------------------------------------------------
(* ConfigurationReader.cpp *)

End(content) == Len(content) + 1

\* The Boyer-Moore searchers: the first such token from a position on, or the end.
Search(content, token, from) ==
    LET found == {i \in from..Len(content) : content[i] = token}
    IN  IF found = {} THEN End(content) ELSE CHOOSE i \in found : \A j \in found : i <= j

\* A searcher's second position: behind what it found.
Behind(content, pos) == IF pos = End(content) THEN pos ELSE pos + 1

\* The search back from a separator, for the beginning of its line.
LineStart(content, pos) ==
    LET before == {i \in 1..(pos - 1) : content[i] = Endline}
    IN  IF before = {} THEN 1 ELSE 1 + CHOOSE i \in before : \A j \in before : i >= j

View(content, from, to) == SubSeq(content, from, to - 1)

\* The pairs up to the next section, from the separator at kv on; the next
\* separator is looked for behind the line.
RECURSIVE Pairs(_, _, _)
SearchesTheValue(content, kv, open) ==
    IF kv >= open THEN <<>>
    ELSE LET line == Search(content, Endline, kv + 1)
         IN  <<[key |-> View(content, LineStart(content, kv), kv),
                value |-> View(content, kv + 1, line)]>>
             \o Pairs(content, Search(content, Equals, kv + 1), open)
Pairs(content, kv, open) ==
    IF kv >= open THEN <<>>
    ELSE LET line == Search(content, Endline, kv + 1)
         IN  <<[key |-> View(content, LineStart(content, kv), kv),
                value |-> View(content, kv + 1, line)]>>
             \o Pairs(content, Search(content, Equals, Behind(content, line)), open)

\* Section by section; a section found again replaces the earlier.  The pairs are
\* counted from the first separator to the next section, even if the former lies
\* behind: then std::count runs past the end.
RECURSIVE Sections(_, _, _)
Sections(content, open, table) ==
    LET close == Search(content, Close, Behind(content, open))
        name == View(content, open + 1, close)
        kv == Search(content, Equals, Behind(content, close))
        next == Search(content, Open, open + 1)
        pairs == Pairs(content, kv, next)
    IN  IF open = End(content) \/ close = End(content) THEN [table |-> table, defined |-> TRUE]
        ELSE IF kv > next THEN [table |-> table, defined |-> FALSE]
        ELSE Sections(content, next,
                      [n \in DOMAIN table \cup {name} |-> IF n = name THEN pairs ELSE table[n]])

NoSections == [n \in {} |-> <<>>]

fillTable(content) ==
    LET read == Sections(content, Search(content, Open, 1), NoSections)
    IN  [ok |-> DOMAIN read.table # {}, table |-> read.table, defined |-> read.defined]

\* A stream is read from where it is to its end; -1 stands for one that failed.
NoStream == [file |-> <<>>, at |-> -1]

open(file) == [file |-> file, at |-> 1]

readContent(stream) ==
    [ok |-> stream.at # -1, content |-> IF stream.at = -1 THEN <<>>
                                        ELSE View(stream.file, stream.at, End(stream.file)),
     stream |-> IF stream.at = -1 THEN stream ELSE [stream EXCEPT !.at = End(stream.file)]]

-----------------------------------------------------------------------------
(* ConfigurationBook.cpp, ConfigurationBook.hpp *)

NewBook(stream) == [stream |-> stream, table |-> NoSections, ok |-> FALSE]

\* A second init of the same stream reads nothing and forgets the table.
init(book) ==
    LET read == readContent(book.stream)
        filled == fillTable(read.content)
    IN  IF ~read.ok THEN [book EXCEPT !.ok = FALSE]
        ELSE [stream |-> read.stream, table |-> filled.table, ok |-> filled.ok]

\* A file that does not open leaves the stream closed and the table as it was.
initFrom(book, exists, file) ==
    IF exists THEN init([book EXCEPT !.stream = open(file)])
    ELSE [book EXCEPT !.stream = NoStream, !.ok = FALSE]

isReady(book) == DOMAIN book.table # {}

\* The first pair of the key, as a sequence of at most one value.
findValueInTable(book, section, key) ==
    IF section \notin DOMAIN book.table THEN <<>>
    ELSE LET pairs == book.table[section]
             at == {i \in DOMAIN pairs : pairs[i].key = key}
         IN  IF at = {} THEN <<>>
             ELSE <<pairs[CHOOSE i \in at : \A j \in at : i <= j].value>>

\* ConversionUtils.h: a number is what stands at the beginning, whatever follows.
toArithmetic(value) ==
    IF value # <<>> /\ value[1] \in DOMAIN Number THEN <<Number[value[1]]>> ELSE <<>>

convert(type, value) ==
    CASE type = "number" -> toArithmetic(value)
      [] type = "text" -> <<value>>
      [] OTHER -> <<>>

valueFor(book, section, key, type) ==
    LET found == findValueInTable(book, section, key)
    IN  IF found = <<>> THEN <<>> ELSE convert(type, found[1])

\* What is between separators, as far as it converts.
RECURSIVE Elements(_, _, _, _)
Elements(value, sep, from, type) ==
    LET to == Search(value, sep, from)
    IN  IF from = End(value) THEN <<>>
        ELSE convert(type, View(value, from, to)) \o Elements(value, sep, Behind(value, to), type)

collectionFor(book, section, key, sep, type) ==
    LET found == findValueInTable(book, section, key)
    IN  IF found = <<>> THEN <<>> ELSE Elements(found[1], sep, 1, type)

=============================================================================
