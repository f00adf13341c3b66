------------------------------ MODULE MCLauncher ------------------------------
(* Command lines of up to three elements, and files whose length an int of *)
(* three bits can hold or not: huge.json narrows to a negative number,     *)
(* cut.json to the length of its beginning, which is a configuration       *)
(* although the file is not.                                               *)
EXTENDS Launcher

Element(kind, value) == [kind |-> kind, value |-> value]

Elements == {Element("config", p) : p \in {"a.json", "broken.json", "empty.json", "huge.json",
                                         "cut.json", "none.json", Empty}}
            \cup {Element("directory", "dir"), Element("help", "yes"), Element("argument", Empty),
                  Element("refused", Empty)}

AllCommandLines == UNION {[1..n -> Elements] : n \in 0..3}

File(length, holds) == [length |-> length, holds |-> holds]

AllFiles == [p \in {"a.json", "broken.json", "empty.json", "huge.json", "cut.json", "none.json",
                     "config.json"} |->
               CASE p = "a.json"      -> File(3, {2, 3})
                 [] p = "broken.json" -> File(2, {})
                 [] p = "empty.json"  -> File(0, {})
                 [] p = "huge.json"   -> File(6, {2, 3, 4, 5, 6})
                 [] p = "cut.json"    -> File(10, {2})
                 [] p = "config.json" -> File(1, {1})
                 [] OTHER             -> Unreadable]

===============================================================================
