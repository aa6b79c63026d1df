----------------------------- MODULE Transform ------------------------------
(***************************************************************************)
(* From a BlueWeb CSV to typed rows and their dedup_hash: transform.py and *)
(* dedup.py.  A text is a sequence of characters, since stripping and      *)
(* joining are what the hash depends on; None is the empty text.  sha256   *)
(* is taken to be injective, so a hash is the text it is computed of.      *)
(* Left out: the source, the same in every row, and unused CSV columns.    *)
(***************************************************************************)
EXTENDS LocalTime, Sequences, FiniteSetsExt

CONSTANTS Chars,  \* the characters of the CSV's texts
          Sep,    \* DEDUP_SEP
          Blank   \* a white-space character

\* The separator is a character like another, `|', and nothing escapes it.  The
\* keys of the JSON text are in quotes, which json.dumps escapes in a value.
ASSUME CharsAssumption == /\ {Sep, Blank} \subseteq Chars
                          /\ Sep # Blank
                          /\ {"card_number", "facility_code"} \cap Chars = {}

\* A CSV line has a local time and these texts.
TextFields == {"door", "description", "person", "employee", "card", "facility"}

\* str.strip
Strip(text) ==
  LET ink == {i \in 1..Len(text) : text[i] # Blank}
  IN  IF ink = {} THEN <<>> ELSE SubSeq(text, Min(ink), Max(ink))

\* canonical_extra_data: a key whose value is blank is left out.
Extra(card, facility) ==
  LET pair(name, text) == IF Strip(text) = <<>> THEN <<>> ELSE <<name>> \o Strip(text)
  IN  pair("card_number", card) \o pair("facility_code", facility)

\* Faulty variant: the fields are joined without a separator.
HashUnseparated(row) ==
  <<row.ts>> \o row.operation \o row.instance \o row.userId \o row.userName \o row.extra

Join(text, rest) == text \o <<Sep>> \o rest

\* dedup_hash
Hash(row) ==
  Join(<<row.ts>>, Join(row.operation, Join(row.instance,
    Join(row.userId, Join(row.userName, row.extra)))))

\* _row_from_csv, up to the hash
Fields(z, line) ==
  [ts |-> Localize(z, line.time), operation |-> Strip(line.description),
   instance |-> Strip(line.door), userId |-> Strip(line.employee),
   userName |-> Strip(line.person), extra |-> Extra(line.card, line.facility)]

\* _row_from_csv refuses a line.
Bad(z, line) == \/ Localize(z, line.time) = Malformed
                \/ Strip(line.description) = <<>>
                \/ Strip(line.door) = <<>>

\* _row_from_csv: a row and its hash.
RowOf(z, line) == [columns |-> Fields(z, line), hash |-> Hash(Fields(z, line))]

\* transform: one bad header, line or time and there are no rows at all.
\* `wellFormed' says that the header is the expected one, that every line has its
\* eight fields, and that every time parses.
Refused(z, csv) == ~csv.wellFormed \/ \E i \in DOMAIN csv.lines : Bad(z, csv.lines[i])

Rows(z, csv) == [i \in DOMAIN csv.lines |-> RowOf(z, csv.lines[i])]
=============================================================================
