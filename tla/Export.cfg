SPECIFICATION Spec
CONSTANTS
    shade = shade
    spare = spare
    blank = blank
    bad = bad
    Entries <- Four
INVARIANTS
    TypeOK
    FileIsLastExport
    ExportIsComplete
PROPERTY KeysOutliveTheCloud
