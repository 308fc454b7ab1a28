CONSTANTS
    t1 = t1
    t2 = t2
    t3 = t3
    Tx = {t1, t2, t3}
    Parents <- MCParents
    MaxFault = 1
SPECIFICATION Spec
PROPERTIES StayersArePushed
