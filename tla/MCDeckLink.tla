---- MODULE MCDeckLink ----
EXTENDS DeckLink

\* A data frame: its first and last byte, and what lies between the paddings.
Pattern(first, body, last) ==
    [i \in 1 .. FrameLen |->
        IF i \in Padding THEN "low"
        ELSE IF i = 1 THEN first ELSE IF i = FrameLen THEN last ELSE body]

\* An ordinary frame; one with every field small, which passes for a frame at
\* any cut; one whose timestamp ends in 0xFF; one whose first byte is 0xFF.
Patterns == {Pattern("other", "other", "other"), Pattern("low", "low", "low"),
             Pattern("low", "low", "ff"), Pattern("ff", "other", "other")}

====
