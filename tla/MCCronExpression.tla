--------------------------- MODULE MCCronExpression ---------------------------
(* The texts TLC parses: for every field all items of a small vocabulary,    *)
(* ranges and steps at and beyond the bounds of the field and of an int,     *)
(* lists of two items, and texts that are wrong in several fields at once.   *)
EXTENDS CronExpression

Num(n)  == Word("num", n)
Star    == Word("star", 0)
Dollar  == Word("last", 0)
Junk    == Word("junk", 0)
Empty   == EmptyWord

(* A part, an item, a field made of the one below.                           *)
Part(w) == <<w>>
Item(w) == <<Part(w)>>
From(a, b)    == <<<<a, b>>>>
Step(part, w) == <<part, Part(w)>>

Low(type)  == get_bounds[type].min
High(type) == get_bounds[type].max

Atoms(type) ==
    {Num(0), Num(Low(type)), Num(Low(type) + 2), Num(High(type)), Num(High(type) + 1),
     Num(IntMax), Num(IntMax + 1), Word("month", 2), Word("dow", 6),
     Star, Dollar, Word("seconds", 0), Junk, Empty}

Steps == {Num(0), Num(1), Num(2), Num(7), Num(59), Num(IntMax - 1), Num(IntMax),
          Num(IntMax + 1), Star, Empty}

Bases(type) ==
    {Part(w) : w \in {Star, Dollar, Num(5), Junk, Empty}}
    \cup {<<Num(a), b>> : a \in {Low(type), Low(type) + 2, High(type)},
                          b \in {Num(Low(type) + 1), Num(High(type)), Num(High(type) + 1),
                                 Dollar, Empty}}

Items(type) ==
    {Item(w) : w \in Atoms(type)}
    \cup {From(a, b) : a, b \in Atoms(type)}
    \cup {Step(p, n) : p \in Bases(type), n \in Steps}
    \cup {<<Part(Star), Part(Num(2)), Part(Num(2))>>, <<<<Num(1), Num(2), Num(3)>>>>}

ListItems(type) ==
    {Item(w) : w \in {Star, Dollar, Num(High(type)), Num(High(type) + 1), Empty}}
    \cup {Step(Part(Star), Num(7)), From(Num(Low(type) + 2), Num(Low(type) + 4))}

Fields(type) == {<<i>> : i \in Items(type)}
                \cup {<<i, k>> : i, k \in ListItems(type)}

Stars == <<Item(Star)>>
Text(minute, hour, dom, month, dow) == <<minute, hour, dom, month, dow>>
At(f, x) == [i \in 1..5 |-> IF i = f THEN x ELSE Stars]

OneField == UNION {{At(f, x) : x \in Fields(FieldType[f])} : f \in 1..5}

(* Right or wrong in each field on its own.                                  *)
Mixed == [1..5 -> {<<Item(Num(3))>>, <<Item(Star), Item(Num(99))>>, <<Item(Num(1)), Item(Empty)>>}]

OtherForms ==
    {<<<<Item(w)>>, <<Item(Word("seconds", 0))>>>> :
        w \in {Num(n) : n \in {0, 1, 30, 59, 60, IntMax + 1}} \cup {Star, Empty}}
    \cup {<<<<From(Num(1), Num(2))>>, <<Item(Word("seconds", 0))>>>>}
    \cup {[i \in 1..n |-> Stars] : n \in {1, 2, 4, 6}}
    \cup {<<<<Item(Empty)>>>>}

(* Texts whose jobs are followed through the calendar.                       *)
Zero == <<Item(Num(0))>>
MCWatched ==
    {Text(Zero, <<Item(Num(12))>>, <<Item(Dollar)>>, Stars, Stars),
     Text(Zero, Zero, <<From(Num(29), Dollar)>>, Stars, Stars),
     Text(Zero, Zero, <<Item(Dollar), Item(Num(1))>>, <<Item(Word("month", 2)), Item(Num(3))>>, <<Item(Num(7))>>),
     Text(<<Step(Part(Star), Num(7))>>, Stars, <<Step(Part(Star), Num(2))>>, Stars, <<From(Word("dow", 1), Word("dow", 5))>>),
     Text(Stars, Stars, Stars, Stars, <<Item(Num(0))>>),
     Text(Stars, Stars, <<Item(Num(13))>>, Stars, <<Item(Word("dow", 5))>>)}

MCCommands == OneField \cup Mixed \cup OtherForms \cup MCWatched

(* The years 2000, 2024 and 2400 (leap), 2023 and 2100 (not).                *)
Year2000 == 10957..11322
Year2023 == 19358..19722
Year2024 == 19723..20088
Year2100 == 47482..47846
Year2400 == 157054..157419
MCDays      == Year2000 \cup Year2023 \cup Year2024 \cup Year2100 \cup Year2400
MCFirstDays == {10957, 19358, 47482, 157054}
MCTimes     == {<<0, 0>>, <<12, 0>>, <<0, 7>>, <<23, 59>>}
=============================================================================
