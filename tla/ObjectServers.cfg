\* Up to three Link entries over two good URLs, one bad URL, two pri values
\* and an unparsable pri; preferred lists of up to three items.
CONSTANTS
    s1 = s1
    s2 = s2
    bad = bad
    badPri = badPri
    Servers <- MCServers
    BadURL <- bad
    Pris <- MCPris
    BadPri <- badPri
    MaxLinks = 3
    MaxPref = 3
SPECIFICATION Spec
INVARIANT TypeOK
INVARIANT ParseMatchesReference
INVARIANT GenerateMatchesReference
CHECK_DEADLOCK FALSE
