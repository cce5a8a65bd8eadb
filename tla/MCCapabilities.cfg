\* Two access categories (the element uses the largest of the attributes);
\* attribute values on both sides of every threshold of the elements.
CONSTANTS
    ACs = {"AC_VO", "AC_BE"}
    AmpduValues <- MC_AmpduValues
    AmsduValues <- MC_AmsduValues
    Widths = {40, 160}
    Bands = {"2_4GHz", "5GHz"}
    GuardIntervals = {800, 3200}
    McsSets <- MC_McsSets
    Configs <- MC_Configs
    MaxNss = 1
SPECIFICATION Spec
INVARIANTS
    TypeOK
    AmpduLengthMatchesReference
    AmsduLengthFits
